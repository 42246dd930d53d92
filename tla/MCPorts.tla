------------------------------ MODULE MCPorts -------------------------------
(***************************************************************************)
(* Instances of the ports protocol for TLC.                                *)
(***************************************************************************)
EXTENDS PortsProperties

CONSTANTS n1, n2, n3, carrier, relay, data

Does(sends, polls, closes) ==
  [sends |-> sends, polls |-> polls, closes |-> closes]

\* data joins n2 to n1, and carrier takes its end on n1 to n2 while messages go
\* both ways; every end may be closed.
HomeAway ==
  [e \in End |-> IF e \in {<<carrier, 1>>, <<data, 0>>} THEN n2 ELSE n1]

\* data starts with both ends on n1, which carrier joins to n2.
HomeMove == [e \in End |-> IF e = <<carrier, 1>> THEN n2 ELSE n1]
MaxGenMove == [c \in Pipes |-> IF c = data THEN 1 ELSE 0]
CargoMove == [c \in Pipes |-> IF c = carrier THEN {data} ELSE {}]
EmbedderMove ==
  [e \in End |-> CASE e = <<carrier, 0>> -> Does(1, FALSE, TRUE)
                   [] e = <<carrier, 1>> -> Does(0, FALSE, TRUE)
                   [] e = <<data, 0>> -> Does(2, TRUE, TRUE)
                   [] e = <<data, 1>> -> Does(1, TRUE, TRUE)]

\* data starts on n1; carrier joins n1 to n2 and relay joins n2 to n3, so that
\* both ends of data may travel to n2 and one of them on to n3.
HomeRelay ==
  [e \in End |-> CASE e[1] = data -> n1
                   [] e = <<carrier, 0>> -> n1
                   [] e = <<carrier, 1>> -> n2
                   [] e = <<relay, 0>> -> n2
                   [] e = <<relay, 1>> -> n3]
MaxGenRelay == [c \in Pipes |-> IF c = data THEN 2 ELSE 0]
CargoRelay == [c \in Pipes |-> IF c = data THEN {} ELSE {data}]
EmbedderRelay ==
  [e \in End |-> CASE e = <<carrier, 0>> -> Does(2, FALSE, FALSE)
                   [] e = <<carrier, 1>> -> Does(0, FALSE, FALSE)
                   [] e = <<relay, 0>> -> Does(1, FALSE, FALSE)
                   [] e = <<relay, 1>> -> Does(0, FALSE, FALSE)
                   [] e = <<data, 0>> -> Does(1, FALSE, TRUE)
                   [] e = <<data, 1>> -> Does(0, FALSE, FALSE)]

\* One end of data crosses while a node is lost.
EmbedderCrash ==
  [e \in End |-> CASE e = <<carrier, 0>> -> Does(1, FALSE, FALSE)
                   [] e = <<carrier, 1>> -> Does(0, FALSE, FALSE)
                   [] e = <<data, 0>> -> Does(1, TRUE, FALSE)
                   [] e = <<data, 1>> -> Does(1, TRUE, TRUE)]

\* One end of data goes to n2, and either it or the end of carrier there goes
\* on to n3 over relay, with what carrier holds unread; any node may be lost.
MaxGenCrash == [c \in Pipes |-> CASE c = data -> 2 [] c = carrier -> 1
                                   [] c = relay -> 0]
CargoCrash == [c \in Pipes |-> CASE c = data -> {} [] c = carrier -> {data}
                                  [] c = relay -> {data, carrier}]
EmbedderRelayCrash ==
  [e \in End |-> CASE e = <<carrier, 0>> -> Does(1, FALSE, FALSE)
                   [] e = <<carrier, 1>> -> Does(0, FALSE, FALSE)
                   [] e = <<relay, 0>> -> Does(1, FALSE, FALSE)
                   [] e = <<relay, 1>> -> Does(0, FALSE, FALSE)
                   [] e = <<data, 0>> -> Does(1, TRUE, TRUE)
                   [] e = <<data, 1>> -> Does(0, TRUE, FALSE)]
=============================================================================
