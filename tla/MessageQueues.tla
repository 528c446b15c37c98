--------------------------- MODULE MessageQueues ---------------------------
(***************************************************************************)
(* What the mailboxes of the runs promise, without receipts, deliveries,   *)
(* generations and waiting calls.  Each queue has at most one reader.  The *)
(* reader is given a page at a time, the first messages that are not read  *)
(* yet, and no other page before it has acknowledged that one; what it     *)
(* acknowledges is read for ever.  A message may be settled aside of the   *)
(* pages: one at a time, or any when another message makes them old.  It   *)
(* is in no later page.  A page that is open when the reader of the queue  *)
(* changes is withdrawn, and what is not read of it is given again.        *)
(***************************************************************************)
EXTENDS Naturals, Sequences, FiniteSets

CONSTANTS Queue, Kind,
          Reader, NoReader,
          PageSize   \* messages of a page

VARIABLES log,      \* the messages of each queue
          reader,   \* who reads the queue
          read,     \* the positions that are read
          done,     \* the positions of the acknowledged pages
          open      \* the positions of the open page

queueVars == <<log, reader, read, done, open>>

QueuesInit == /\ log = [q \in Queue |-> <<>>]
              /\ reader = [q \in Queue |-> NoReader]
              /\ read = [q \in Queue |-> {}]
              /\ done = [q \in Queue |-> {}]
              /\ open = [q \in Queue |-> {}]

\* The page of what is left of queue q when the positions in seen are read.
NextPage(q, seen) ==
    LET left == DOMAIN log[q] \ seen IN
    {i \in left : Cardinality({j \in left : j < i}) < PageSize}

Post(q, kind) ==
    /\ log' = [log EXCEPT ![q] = Append(@, kind)]
    /\ UNCHANGED <<reader, done, open>>
    /\ \E settled \in SUBSET DOMAIN log'[q] : read' = [read EXCEPT ![q] = @ \cup settled]

Settle(q, i) ==
    /\ i \in DOMAIN log[q]
    /\ read' = [read EXCEPT ![q] = @ \cup {i}]
    /\ UNCHANGED <<log, reader, done, open>>

Give(q) ==
    /\ reader[q] # NoReader
    /\ open[q] = {}
    /\ open' = [open EXCEPT ![q] = NextPage(q, read[q])]
    /\ UNCHANGED <<log, reader, read, done>>

\* The next page may be given with the acknowledgement.
Acknowledge(q, more) ==
    LET seen == read[q] \cup open[q] IN
    /\ reader[q] # NoReader
    /\ open[q] # {}
    /\ read' = [read EXCEPT ![q] = seen]
    /\ done' = [done EXCEPT ![q] = @ \cup open[q]]
    /\ open' = [open EXCEPT ![q] = IF more THEN NextPage(q, seen) ELSE {}]
    /\ UNCHANGED <<log, reader>>

\* The queues in Q change hands: p reads some of them, nobody the others.
HandOver(Q, p) ==
    /\ UNCHANGED <<log, read, done>>
    /\ reader' \in [Queue -> Reader \cup {NoReader}]
    /\ \A q \in Queue : IF q \in Q THEN reader'[q] \in {p, NoReader} ELSE reader'[q] = reader[q]
    /\ open' = [q \in Queue |-> IF q \in Q THEN {} ELSE open[q]]

\* The readers may be dismissed too.
Clear ==
    /\ log' = [q \in Queue |-> <<>>]
    /\ read' = [q \in Queue |-> {}]
    /\ done' = [q \in Queue |-> {}]
    /\ open' = [q \in Queue |-> {}]
    /\ reader' \in {reader, [q \in Queue |-> NoReader]}

QueuesNext ==
    \/ \E Q \in SUBSET Queue, p \in Reader : HandOver(Q, p)
    \/ \E q \in Queue : \/ \E kind \in Kind : Post(q, kind)
                        \/ \E i \in DOMAIN log[q] : Settle(q, i)
                        \/ Give(q)
                        \/ \E more \in BOOLEAN : Acknowledge(q, more)
    \/ Clear

QueuesSpec == QueuesInit /\ [][QueuesNext]_queueVars

=============================================================================
