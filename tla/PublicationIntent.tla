-------------------------- MODULE PublicationIntent --------------------------
(***************************************************************************)
(* What the transactional outbox promises, with no dispatchers, leases,    *)
(* tokens or clocks: an article is stored together with the intention to   *)
(* publish it on every channel; a broker only ever receives what was       *)
(* intended; an intention is discharged only when the broker has the       *)
(* message; and a discharged or a pending intention is never dropped.      *)
(* Module Outbox implements this specification.                            *)
(***************************************************************************)
CONSTANTS Articles,   \* the articles that may be created
          Channels    \* the brokers every article is published to

VARIABLES intent,     \* intent[a][c]: what the database says of the delivery
          received    \* received[a]: the channels whose broker has a's message

vars == <<intent, received>>

Intent == {"absent", "intended", "discharged"}

TypeOK ==
  /\ intent \in [Articles -> [Channels -> Intent]]
  /\ received \in [Articles -> SUBSET Channels]

Init ==
  /\ intent = [a \in Articles |-> [c \in Channels |-> "absent"]]
  /\ received = [a \in Articles |-> {}]

\* One document insert stores the article and its intentions on all channels.
Intend(a) ==
  /\ intent[a] = [c \in Channels |-> "absent"]
  /\ intent' = [intent EXCEPT ![a] = [c \in Channels |-> "intended"]]
  /\ UNCHANGED received

\* A broker accepts a's message, possibly again, possibly after the discharge.
Receive(a, c) ==
  /\ intent[a][c] # "absent"
  /\ received' = [received EXCEPT ![a] = @ \cup {c}]
  /\ UNCHANGED intent

Discharge(a, c) ==
  /\ intent[a][c] = "intended"
  /\ c \in received[a]
  /\ intent' = [intent EXCEPT ![a][c] = "discharged"]
  /\ UNCHANGED received

Next ==
  \E a \in Articles :
    \/ Intend(a)
    \/ \E c \in Channels : Receive(a, c) \/ Discharge(a, c)

Spec == Init /\ [][Next]_vars

\* Nothing is reported as published that its broker does not have: the
\* consequence of the promise that the rest of the system relies on.
DischargedIsReceived ==
  \A a \in Articles, c \in Channels :
    intent[a][c] = "discharged" => c \in received[a]
=============================================================================
