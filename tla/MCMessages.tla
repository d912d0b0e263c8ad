----------------------------- MODULE MCMessages -----------------------------
(***************************************************************************)
(* Messages with two actors: requests to a make it send to b and to        *)
(* itself, in several ways, and its timer fires.                           *)
(***************************************************************************)
EXTENDS Messages, TLC

CONSTANTS a, b, p1, p2, r1, r2, r3, h1, k1, v1, nothing, reserved

TwoActors == {a, b}
TwoPartitions == {p1, p2}
Shards == a :> p1 @@ b :> p2

Bytes == [bytes |-> TRUE, of |-> v1]
Struct == [bytes |-> FALSE, of |-> v1]

To(actor, type, command, payload) ==
  [to |-> actor, type |-> type, command |-> command, payload |-> payload, headers |-> <<>>]

(* Twice to the same actor; without a type; without a command.             *)
MCScripts ==
  "fan"  :> << To(b, "network", "note", Struct), To(b, "network", "note", Bytes) >> @@
  "slip" :> << To(b, "memory", "note", Bytes), To(b, "network", nothing, Bytes),
               To(b, "network", "note", Bytes) >> @@
  "tick" :> << To(b, "network", "note", Bytes) >> @@
  "note" :> << >>

Meta(root, command) == [ receiver |-> a, type |-> "network", id |-> <<root>>,
                         command |-> command, cause |-> <<root>> ]

Root(root, command) == [ key |-> a, framework |-> <<Meta(root, command)>>,
                         headers |-> <<h1>>, value |-> v1 ]

(* Others also write what is not a message, and one message twice.         *)
Odd == [Root(r3, "fan") EXCEPT !.framework = @ \o @]

MCRoots == p1 :> << Root(r1, "fan"), Odd, Root(r2, "slip"), Root(r3, "strange") >>
           @@ p2 :> << >>

MCTimers == a :> {<< <<k1>>, 5 >>} @@ b :> {}
=============================================================================
