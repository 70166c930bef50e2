------------------------------- MODULE MCRules -------------------------------
\* Small questions for Rules: dates on both sides of every boundary of the
\* recency bands, more posts than a page's share, addresses of up to four words.
EXTENDS Rules

Now == [month |-> 40, day |-> 15]

Day(age, day) == [month |-> 40 - age, day |-> day]

Written == {Day(0, 20), Day(12, 15), Day(13, 16), Day(13, 15), Day(25, 15), Day(37, 1)}

Cuts == {Day(25, 15), NoDate}

Post(area, approved) == [area |-> area, approved |-> approved]

Posted == {Post("lek", TRUE), Post("lek", FALSE), Post("yab", TRUE), Post("iko", TRUE)}

Flooded == {<<>>, <<"lek">>, <<"iko", "lek", "yab">>, <<"lek", "lek", "yab", "lek">>}

Typed == {<<"16", "salako", "street", "magodo">>, <<"salako", "magodo", "phase">>,
          <<"lekki", "phase", "1">>, <<"16", "magodo">>, <<"ikeja", "ikeja">>, <<"16">>}

Located == {<<>>, <<1>>, <<9>>, <<9, 2>>}

Reported == [minutes: {1, 2, 4}, window: {"am_rush", "midday"}, phone: {NoMinutes}]
            \cup [minutes: {2}, window: {"midday"}, phone: {3, 6}]

Lived == {[minutes |-> NoMinutes, kind |-> "free_flow"], [minutes |-> 5, kind |-> "free_flow"]}

\* A stop of each kind, a named and an unnamed one, at both sides of the spread.
OnMap ==
  [at: {1, 2, 4}, amenity: {"ferry_terminal", "none"}, railway: {"none"},
   name: {"cms", "marina", NoName}]
  \cup [at: {2, NoPoint}, amenity: {"none"}, railway: {"station"}, name: {"cms", NoName}]

ByHand == <<[kind |-> "danfo"]>>

Place(name, letters, at) == [name |-> name, letters |-> letters, at |-> at]
Area(name, code) == [name |-> name, code |-> code, lga |-> "eti"]

\* Suburbs that share three letters, two, or have two, or none.
OnAreaMap == {Place("lekki", <<"l", "e", "k">>, 1), Place("lekki 2", <<"l", "e", "k", "i">>, 4),
              Place("lebanon", <<"l", "e", "b">>, 5), Place("le", <<"l", "e">>, 5), Place("1004", <<>>, 1)}
InTable == {<<>>, <<Area("lekki", <<<<"l", "e", "k">>, 0>>)>>,
            <<Area("ikoyi", <<<<"l", "e">>, 2>>), Area("yaba", <<<<"l", "e">>, 3>>)>>}
Lga == <<[code |-> "eti", at |-> 1], [code |-> "kos", at |-> NoPoint], [code |-> "iko", at |-> 5],
         [code |-> "epe", at |-> 5]>>

Firm(name, words, at) == [name |-> name, words |-> words, at |-> at]
Listed(name, slug) == [name |-> name, slug |-> slug, operating |-> NoName]

\* Names that differ in punctuation only, in what is cut off, or in a number that
\* looks like a second slug.
InDirectory == {Firm("a & b", <<"a", "b">>, 1), Firm("a b", <<"a", "b">>, 5),
                Firm("a", <<"a">>, NoPoint), Firm("a 2", <<"a", "2">>, 1),
                Firm("a b c d", <<"a", "b", "c", "d">>, 1), Firm("a b c e", <<"a", "b", "c", "e">>, 1)}
Known == {<<>>, <<Listed("a b", <<>>)>>, <<Listed("x", <<"a", "2">>), Listed("a b c", <<"a", "b", "c">>)>>}
=============================================================================
