------------------------------ MODULE MCPhotos ------------------------------
(* Small instances of Photos: one tenant uploads, one admin decides.       *)
EXTENDS Photos

CONSTANTS u1, admin

UploadedByU1 == [p \in Photos |-> u1]
=============================================================================
