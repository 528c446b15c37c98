---------------------------- MODULE RelayChannel ----------------------------
(***************************************************************************)
(* What one direction of the relay promises, without pulls, pages, calls   *)
(* and crashes.  The sender numbers items, at most Window of them more     *)
(* than it has forgotten; the receiver is given each item once, in order,  *)
(* and keeps what it was given; the sender forgets only what the receiver  *)
(* has.  At a full window a final item may take the place of a heartbeat   *)
(* that is not forgotten yet; the receiver may have had the heartbeat      *)
(* already, or be given it still.                                          *)
(***************************************************************************)
EXTENDS Naturals, Sequences

CONSTANTS Kind,    \* the items
          Final,   \* those that may replace a heartbeat
          Window   \* items numbered and not forgotten

VARIABLES numbered,   \* the sender's items, by their number
          received,   \* the receiver's items, by the same numbers
          forgotten   \* how many the sender has forgotten

channelVars == <<numbered, received, forgotten>>

ChannelInit == numbered = <<>> /\ received = <<>> /\ forgotten = 0

WindowIsFull == Len(numbered) - forgotten >= Window

Number(kind) ==
    /\ ~ WindowIsFull
    /\ numbered' = Append(numbered, kind)
    /\ UNCHANGED <<received, forgotten>>

Replace(i, kind) ==
    /\ WindowIsFull
    /\ i > forgotten /\ numbered[i] = "heartbeat"
    /\ numbered' = [numbered EXCEPT ![i] = kind]
    /\ UNCHANGED <<received, forgotten>>

\* What may be received as the i-th item.
MayBe(item, i) == item = numbered[i] \/ (item = "heartbeat" /\ numbered[i] \in Final)

\* The receiver has n items now, and the sender remembers those after the k-th.
Transfer(n, k) ==
    /\ Len(received') = n
    /\ \A i \in 1..n : IF i <= Len(received) THEN received'[i] = received[i]
                       ELSE MayBe(received'[i], i)
    /\ forgotten' = k
    /\ UNCHANGED numbered

ChannelNext ==
    \/ \E kind \in Kind : Number(kind)
    \/ \E i \in DOMAIN numbered, kind \in Final : Replace(i, kind)
    \/ \E n \in Len(received)..Len(numbered) : \E k \in forgotten..n : Transfer(n, k)

ChannelSpec == ChannelInit /\ [][ChannelNext]_channelVars

=============================================================================
