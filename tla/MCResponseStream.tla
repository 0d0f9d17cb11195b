-------------------------- MODULE MCResponseStream --------------------------
(* ResponseStream for TLC: messages of up to two parts of every kind, offers *)
(* of up to two options of every kind, and answers of every form.            *)
EXTENDS ResponseStream, TLC

CONSTANTS o1, o2, o3, p1

Words == Part("text", 1, TRUE, TRUE, FALSE)
Link  == Part("url", 0, FALSE, TRUE, TRUE)
Other == Part("other", 1, FALSE, TRUE, FALSE)
Parts == {Words, Link, Other}
         \cup {Part("data", n, FALSE, TRUE, FALSE) : n \in {1, 3}}
         \cup {Part("raw", n, TRUE, TRUE, FALSE) : n \in {0, 2}}
         \cup {Part("raw", n, FALSE, TRUE, TRUE) : n \in {0, 2, 3}}
         \cup {Part("raw", n, TRUE, FALSE, FALSE) : n \in {1, 2}}
Messages == {<<>>} \cup {<<p>> : p \in Parts} \cup (Parts \X Parts)

OneMessage == {<<Words>>}

Option(id, kind) == [id |-> id, kind |-> kind]
Offered == {<<>>} \cup {<<Option(o1, kind)>> : kind \in Kinds}
           \cup {<<Option(o1, pair[1]), Option(o2, pair[2])>> :
                   pair \in {<<"allow_once", "reject_once">>,
                             <<"allow_always", "allow_once">>,
                             <<"reject_always", "reject_once">>,
                             <<"reject_once", "allow_always">>,
                             <<"unspecified", "allow_other">>}}

Said == {Text("allow", more, NoOption) : more \in BOOLEAN}
          \cup {Text("other", TRUE, NoOption), Text("option", FALSE, NoOption)}
          \cup {Text("option", TRUE, id) : id \in {o1, o2, o3}}
Answers == {<<>>, <<TRUE, FALSE, TRUE, TRUE>>}
Rendered == {p1, EmptyPlan}
=============================================================================
