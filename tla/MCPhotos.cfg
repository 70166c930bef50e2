CONSTANTS
    Workers = {w1, w2}
    u1 = u1
    admin = admin
    Users = {u1, admin}
    Admins = {admin}
    Photos = {p1, p2}
    Owner <- UploadedByU1
    Ops = {"upload", "delete", "approve", "reject", "close"}
    NoUser = NoUser
    NoPhoto = NoPhoto
SPECIFICATION Spec
CHECK_DEADLOCK FALSE
INVARIANTS WithdrawnLeavesNothing
PROPERTIES ImplementsGallery
