-------------------------------- MODULE MCTcp --------------------------------
(***************************************************************************)
(* Two hosts that ask each other, Gx and S6b, two hop ids so that both     *)
(* counters wrap, times in two windows and one that is too old.            *)
(***************************************************************************)
EXTENDS TcpProto

MCHosts == {"a", "b"}
MCHops  == 1..2

Plain ==
  [flow |-> <<"a", "b">>, src |-> "a", dst |-> "b", ipv |-> 4,
   diameter |-> FALSE, valid |-> FALSE, down |-> TRUE, len |-> 60,
   app |-> "Gx", cc |-> 272, reqType |-> 1, request |-> 1,
   wireHop |-> 0, resCode |-> 2001, time |-> 12000]

Gx(s, d, r, w, t) ==
  [Plain EXCEPT !.flow = <<s, d>>, !.src = s, !.dst = d,
                !.diameter = TRUE, !.valid = TRUE,
                !.request = r, !.wireHop = w, !.time = t]

S6b(s, d, r, t) ==
  [Gx(s, d, r, 7, t) EXCEPT !.app = "S6b", !.cc = 265, !.ipv = 6,
                            !.down = FALSE, !.flow = <<"b", "a">>]

MCFrames ==
  {Plain, [Plain EXCEPT !.diameter = TRUE, !.src = "b", !.dst = "a"]}
    \cup {Gx("a", "b", 1, w, t) : w \in {7, 8}, t \in {12000, 31000}}
    \cup {Gx("b", "a", 0, w, t) : w \in {7, 8}, t \in {13000}}
    \cup {Gx("b", "a", r, 9, 13500) : r \in {1, 0}}
    \cup {Gx("a", "b", 0, 9, 14000)}
    \cup {S6b("a", "b", 1, t) : t \in {12500, 31500}}
    \cup {S6b("b", "a", 0, 12700)}
=============================================================================
