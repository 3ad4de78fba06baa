------------------------------ MODULE MCAnalyser ------------------------------
(***************************************************************************)
(* Two hosts that ask each other; Gx and Gy in IPv4 and S6b in IPv6        *)
(* frames; two hop ids so that both counters wrap; times in two windows    *)
(* and one before both; and for every early return of ParsePkt a frame     *)
(* that takes it.                                                          *)
(***************************************************************************)
EXTENDS Analyser

MCHosts == {"a", "b"}
MCHops  == 1..2

Plain ==
  [flow |-> <<"a", "b">>, src |-> "a", dst |-> "b", ipv |-> 4,
   diameter |-> FALSE, valid |-> FALSE, down |-> TRUE, len |-> 60,
   app |-> "Gx", cc |-> 272, reqType |-> 1, request |-> 1,
   wireHop |-> 0, resCode |-> 2001, time |-> 12000]

Dia(a, s, d, r, t) ==
  [Plain EXCEPT !.app = a, !.src = s, !.dst = d, !.diameter = TRUE,
                !.valid = TRUE, !.request = r, !.time = t]

Messages ==
  {Dia("Gx", "a", "b", 1, t) : t \in {12000, 31000}}
    \cup {Dia("Gx", "b", "a", r, 13000) : r \in {0, 1}}
    \cup {Dia("Gy", "a", "b", 1, 12500)}
    \cup {[Dia("S6b", "a", "b", 1, 12700) EXCEPT !.cc = 265, !.down = FALSE],
          [Dia("S6b", "b", "a", 0, 31700) EXCEPT !.cc = 265, !.down = FALSE]}

Tcp(m) ==
  [l3 |-> IF m.app = "S6b" THEN "ip6" ELSE "ip4", proto |-> "tcp",
   payload |-> TRUE, len |-> m.len, msg |-> m]

MCCaptures ==
  LET t == Tcp(Plain) IN
  {Tcp(m) : m \in Messages}
    \cup {t,
          [t EXCEPT !.msg.diameter = TRUE],                      \* refused
          [Tcp(Dia("Gx", "a", "b", 1, 9000)) EXCEPT !.len = -1], \* old
          [Tcp(Dia("Gx", "b", "a", 1, 13000)) EXCEPT !.payload = FALSE],
          [t EXCEPT !.proto = "udp", !.l3 = "ip6"],
          [t EXCEPT !.proto = "sctp"],
          [t EXCEPT !.proto = "none"]}

MCFrames == UNION {MayBecome(c) : c \in MCCaptures}
=============================================================================
