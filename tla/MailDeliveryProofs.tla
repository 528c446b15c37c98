------------------------- MODULE MailDeliveryProofs -------------------------
(***************************************************************************)
(* What the deliveries of RunMailbox promise, for every set of requests,   *)
(* calls, runs, panes and types, every page and every bound: what was      *)
(* acknowledged is read and handed out once, nothing before it is unread,  *)
(* and a delivery reaches one pane.                                        *)
(*                                                                         *)
(* Both rest on the generations.  A page is the beginning of what is       *)
(* unread, and there is no other open page whose acknowledgement could     *)
(* read the same messages again; a reply or a report may read more of them *)
(* at any time, and disturbs neither (Reading).  A pane that holds an open *)
(* delivery is the one its run is bound to: whoever binds the run anew     *)
(* closes the delivery and leaves the generation of the checks that are    *)
(* still under way (Holding).  So every step is one of MessageQueues, or   *)
(* none.                                                                   *)
(***************************************************************************)
EXTENDS RunMailboxProofs, FiniteSetTheorems

\* Deliveries of ds whose messages are read or about to be.
Live(ds) == {d \in DOMAIN ds : ds[d].status \in {"acknowledged", "outstanding"}}
Acked(ds, r) == {d \in DOMAIN ds : ds[d].run = r /\ ds[d].status = "acknowledged"}

\* What an acknowledged delivery holds is read.
AckedRead(box, ds) ==
    \A r \in Run : \A d \in Acked(ds, r) : \A i \in ds[d].messages :
        i \in DOMAIN box[r] => box[r][i].read

\* Live deliveries of a run share no message.
Disjoint(ds) ==
    \A d, e \in Live(ds) : ds[d].run = ds[e].run /\ d # e => ds[d].messages \cap ds[e].messages = {}

\* A live delivery holds messages of its run, and leaves nothing unread behind.
Prefix(box, ds) ==
    \A d \in Live(ds) :
        /\ ds[d].messages \subseteq DOMAIN box[ds[d].run]
        /\ \A j \in ds[d].messages : \A i \in DOMAIN box[ds[d].run] :
              i < j => i \in ds[d].messages \/ box[ds[d].run][i].read

ReadingOf(box, ds) == AckedRead(box, ds) /\ Disjoint(ds) /\ Prefix(box, ds)
Reading == ReadingOf(inbox, deliveries)

LEMMA DeliveryFields ==
    ASSUME MailType, NEW d \in DOMAIN deliveries
    PROVE  /\ deliveries[d] \in Delivery /\ deliveries[d].run \in Run /\ deliveries[d].messages \subseteq Nat
           /\ deliveries[d].generation \in Nat
<1>1. deliveries[d] \in Delivery
  BY DEF MailType
<1>2. QED
  BY <1>1 DEF Delivery

\* A page is the beginning of what is unread.
LEMMA PageFacts ==
    ASSUME NEW n \in Nat, NEW unread \in SUBSET (1..n)
    PROVE  /\ Page(unread) \subseteq unread
           /\ \A j \in Page(unread), i \in unread : i < j => i \in Page(unread)
<1>1. ASSUME NEW j \in Page(unread), NEW i \in unread, i < j
      PROVE  i \in Page(unread)
  <2> DEFINE below(k) == {x \in unread : x < k}
  <2>1. IsFiniteSet(1..n)
    BY FS_Interval
  <2>2. below(j) \subseteq 1..n /\ below(i) \subseteq below(j)
    <3>1. j \in unread /\ \A x \in unread : x \in Int
      BY DEF Page
    <3>2. \A x \in unread : x < i => x < j
      BY <1>1, <3>1
    <3>3. QED
      BY <3>2
  <2>3. IsFiniteSet(below(j))
    BY <2>1, <2>2, FS_Subset
  <2>4. /\ IsFiniteSet(below(i)) /\ Cardinality(below(i)) <= Cardinality(below(j))
        /\ Cardinality(below(i)) \in Nat /\ Cardinality(below(j)) \in Nat
    BY <2>2, <2>3, FS_Subset, FS_CardinalityType
  <2>5. Cardinality(below(j)) < PageLimit
    BY DEF Page
  <2>6. Cardinality(below(i)) < PageLimit
    BY <2>4, <2>5, MailboxAssumption DEF MailboxAssumption
  <2>7. QED
    BY <2>6 DEF Page
<1>2. QED
  BY <1>1 DEF Page

\* Mailboxes in which more may be read than in those of the store.
ReadsMore(box) ==
    \A o \in Run : /\ DOMAIN box[o] = DOMAIN inbox[o]
                   /\ \A i \in DOMAIN inbox[o] : /\ box[o][i].type = inbox[o][i].type
                                                 /\ inbox[o][i].read => box[o][i].read

\* Whoever reads a message aside disturbs no delivery.
LEMMA ReadsMoreReading ==
    ASSUME MailType, Reading, NEW box, ReadsMore(box)
    PROVE  ReadingOf(box, deliveries)
<1>1. \A d \in DOMAIN deliveries : deliveries[d].run \in Run
  BY DeliveryFields
<1>2. AckedRead(box, deliveries)
  BY DEF Reading, ReadingOf, AckedRead, ReadsMore
<1>3. Prefix(box, deliveries)
  <2>1. ASSUME NEW d \in Live(deliveries)
        PROVE  /\ deliveries[d].messages \subseteq DOMAIN box[deliveries[d].run]
               /\ \A j \in deliveries[d].messages : \A i \in DOMAIN box[deliveries[d].run] :
                    i < j => i \in deliveries[d].messages \/ box[deliveries[d].run][i].read
    <3>1. deliveries[d].run \in Run
      BY <1>1 DEF Live
    <3>2. QED
      BY <3>1 DEF Reading, ReadingOf, Prefix, ReadsMore
  <2>2. QED
    BY <2>1 DEF Prefix
<1>4. QED
  BY <1>2, <1>3 DEF Reading, ReadingOf

\* A message that is stored is in no delivery.
LEMMA StoreReading ==
    ASSUME MailType, NEW box \in Box, ReadingOf(box, deliveries), NEW r \in Run, NEW t \in Type,
           NEW settled \in BOOLEAN, Store(r, t, settled, box), UNCHANGED deliveries
    PROVE  Reading'
<1> DEFINE m == [type |-> t, read |-> settled]
           n == Len(box[r])
<1>1. inbox' = [box EXCEPT ![r] = Append(box[r], m)] /\ box[r] \in Seq(Message)
  BY DEF Store, Box
<1>2. /\ \A o \in Run : o # r => inbox'[o] = box[o]
      /\ inbox'[r] = Append(box[r], m)
  BY <1>1 DEF Box
<1> HIDE DEF m
<1>3. /\ DOMAIN inbox'[r] = 1..(n + 1) /\ DOMAIN box[r] = 1..n /\ n \in Nat
      /\ \A i \in DOMAIN box[r] : inbox'[r][i] = box[r][i]
  BY <1>1, <1>2
<1>4. \A o \in Run : /\ DOMAIN box[o] \subseteq DOMAIN inbox'[o]
                     /\ \A i \in DOMAIN box[o] : inbox'[o][i] = box[o][i]
                     /\ \A i \in DOMAIN inbox'[o] : i \in DOMAIN box[o] \/ (o = r /\ i = n + 1)
  BY <1>2, <1>3
<1>5. \A d \in Live(deliveries) : deliveries[d].run \in Run /\ deliveries[d].messages \subseteq Nat
  BY DeliveryFields DEF Live
<1>6. ASSUME NEW d \in Live(deliveries), deliveries[d].run = r
      PROVE  \A j \in deliveries[d].messages : ~ (n + 1 < j)
  BY <1>3, <1>6 DEF ReadingOf, Prefix
<1>7. AckedRead(inbox', deliveries)
  <2>1. ASSUME NEW o \in Run, NEW d \in Acked(deliveries, o), NEW i \in deliveries[d].messages
        PROVE  i \in DOMAIN box[o] /\ box[o][i].read
    <3>1. d \in Live(deliveries) /\ deliveries[d].run = o
      BY DEF Acked, Live
    <3>2. QED
      BY <3>1 DEF ReadingOf, AckedRead, Prefix
  <2>2. QED
    BY <1>4, <2>1 DEF AckedRead
<1>8. Prefix(inbox', deliveries)
  <2>1. ASSUME NEW d \in Live(deliveries)
        PROVE  /\ deliveries[d].messages \subseteq DOMAIN inbox'[deliveries[d].run]
               /\ \A j \in deliveries[d].messages : \A i \in DOMAIN inbox'[deliveries[d].run] :
                    i < j => i \in deliveries[d].messages \/ inbox'[deliveries[d].run][i].read
    BY <1>4, <1>5, <1>6 DEF ReadingOf, Prefix
  <2>2. QED
    BY <2>1 DEF Prefix
<1>9. QED
  BY <1>7, <1>8 DEF Reading, ReadingOf

\* Closing deliveries without an acknowledgement changes nothing.
LEMMA ClosingReading ==
    ASSUME NEW box, NEW ds, NEW next, ReadingOf(box, ds), DOMAIN next = DOMAIN ds,
           \A d \in DOMAIN ds :
                \/ next[d] = ds[d]
                \/ ds[d].status = "outstanding" /\ next[d].status \notin {"acknowledged", "outstanding"}
    PROVE  ReadingOf(box, next)
<1>1. Live(next) \subseteq Live(ds) /\ \A d \in Live(next) : next[d] = ds[d]
  BY DEF Live
<1>2. \A r \in Run : Acked(next, r) = Acked(ds, r) /\ \A d \in Acked(ds, r) : next[d] = ds[d]
  BY DEF Acked
<1>3. AckedRead(box, next)
  BY <1>2 DEF ReadingOf, AckedRead
<1>4. Disjoint(next)
  BY <1>1 DEF ReadingOf, Disjoint
<1>5. Prefix(box, next)
  BY <1>1 DEF ReadingOf, Prefix
<1>6. QED
  BY <1>3, <1>4, <1>5 DEF ReadingOf

\* Reading some messages of a run changes nothing else of the mailboxes.
LEMMA MarkReadFacts ==
    ASSUME MailType, NEW r \in Run, NEW held
    PROVE  \A o \in Run : /\ DOMAIN MarkRead(r, held)[o] = DOMAIN inbox[o]
                          /\ \A i \in DOMAIN inbox[o] :
                               /\ MarkRead(r, held)[o][i].type = inbox[o][i].type
                               /\ MarkRead(r, held)[o][i].read <=> inbox[o][i].read \/ (o = r /\ i \in held)
<1> DEFINE box == MarkRead(r, held)
<1>1. ASSUME NEW o \in Run, o # r
      PROVE  box[o] = inbox[o]
  BY <1>1 DEF MarkRead, MailType, Box
<1>2. box[r] = [i \in DOMAIN inbox[r] |-> [type |-> inbox[r][i].type,
                                           read |-> inbox[r][i].read \/ i \in held]]
  BY DEF MarkRead, MailType, Box
<1> HIDE DEF box
<1>3. DOMAIN box[r] = DOMAIN inbox[r]
  BY <1>2
<1>4. ASSUME NEW i \in DOMAIN inbox[r]
      PROVE  /\ box[r][i].type = inbox[r][i].type
             /\ box[r][i].read <=> inbox[r][i].read \/ i \in held
  <2> DEFINE b == inbox[r][i].read \/ i \in held
  <2>1. box[r][i] = [type |-> inbox[r][i].type, read |-> b]
    BY <1>2, Zenon
  <2> HIDE DEF b
  <2>2. box[r][i].read = b /\ box[r][i].type = inbox[r][i].type
    BY <2>1
  <2>3. QED
    BY <2>2, Zenon DEF b
<1>5. QED
  BY <1>1, <1>3, <1>4 DEF box

LEMMA MarkReadMore ==
    ASSUME MailType, NEW r \in Run, NEW held
    PROVE  ReadsMore(MarkRead(r, held))
BY MarkReadFacts DEF ReadsMore

\* An acknowledgement reads the messages of its delivery.
LEMMA AcknowledgeReading ==
    ASSUME MailType, Reading, NEW k \in DOMAIN deliveries, deliveries[k].status = "outstanding"
    PROVE  ReadingOf(MarkRead(deliveries[k].run, deliveries[k].messages),
                     [deliveries EXCEPT ![k].status = "acknowledged"])
<1> DEFINE r == deliveries[k].run
           held == deliveries[k].messages
           box == MarkRead(r, held)
           ds == [deliveries EXCEPT ![k].status = "acknowledged"]
<1>1. deliveries[k] \in Delivery /\ r \in Run
  BY DeliveryFields
<1>2. /\ DOMAIN ds = DOMAIN deliveries
      /\ \A d \in DOMAIN deliveries : d # k => ds[d] = deliveries[d]
      /\ ds[k].status = "acknowledged" /\ ds[k].run = r /\ ds[k].messages = held
  BY <1>1 DEF MailType, Delivery
<1>3. \A o \in Run : /\ DOMAIN box[o] = DOMAIN inbox[o]
                     /\ \A i \in DOMAIN inbox[o] :
                          box[o][i].read <=> inbox[o][i].read \/ (o = r /\ i \in held)
  BY <1>1, MarkReadFacts
<1> HIDE DEF box, ds
<1>4. Live(ds) = Live(deliveries)
  BY <1>2 DEF Live
<1>5. \A d \in Live(ds) : ds[d].run = deliveries[d].run /\ ds[d].messages = deliveries[d].messages
  BY <1>2 DEF Live
<1>6. \A o \in Run : Acked(ds, o) = Acked(deliveries, o) \cup (IF o = r THEN {k} ELSE {})
  <2>1. \A d \in DOMAIN deliveries : d # k => ds[d] = deliveries[d]
    BY <1>2
  <2>2. QED
    BY <1>2, <2>1 DEF Acked
<1>7. AckedRead(box, ds)
  <2>1. ASSUME NEW o \in Run, NEW d \in Acked(ds, o), NEW i \in ds[d].messages, i \in DOMAIN box[o]
        PROVE  box[o][i].read
    <3>1. CASE d \in Acked(deliveries, o) /\ d # k
      BY <1>2, <1>3, <2>1, <3>1 DEF Reading, ReadingOf, AckedRead, Acked
    <3>2. CASE d = k /\ o = r
      BY <1>2, <1>3, <2>1, <3>2
    <3>3. QED
      BY <1>2, <1>6, <3>1, <3>2 DEF Acked
  <2>2. QED
    BY <2>1 DEF AckedRead
<1>8. Disjoint(ds)
  BY <1>4, <1>5 DEF Reading, ReadingOf, Disjoint
<1>9. Prefix(box, ds)
  <2>1. ASSUME NEW d \in Live(ds)
        PROVE  /\ ds[d].messages \subseteq DOMAIN box[ds[d].run]
               /\ \A j \in ds[d].messages : \A i \in DOMAIN box[ds[d].run] :
                    i < j => i \in ds[d].messages \/ box[ds[d].run][i].read
    <3>1. deliveries[d].run \in Run
      BY <1>4, DeliveryFields DEF Live
    <3>2. QED
      BY <1>3, <1>4, <1>5, <3>1 DEF Reading, ReadingOf, Prefix
  <2>2. QED
    BY <2>1 DEF Prefix
<1>10. QED
  BY <1>7, <1>8, <1>9 DEF ReadingOf, box, ds, r, held

\* A new page holds what is unread, and nothing else is open.
LEMMA PageReading ==
    ASSUME NEW box \in Box, NEW ds \in Seq(Delivery), NEW r \in Run, ReadingOf(box, ds),
           NEW d \in Delivery, d.run = r, d.status = "outstanding", d.messages = Page(Unread(r, box)),
           \A e \in DOMAIN ds : ds[e].run # r \/ ds[e].status # "outstanding"
    PROVE  ReadingOf(box, Append(ds, d))
<1> DEFINE next == Append(ds, d)
           n == Len(ds) + 1
<1>1. /\ DOMAIN next = 1..n /\ DOMAIN ds = 1..Len(ds) /\ Len(ds) \in Nat
      /\ next[n] = d /\ \A e \in DOMAIN ds : next[e] = ds[e]
  OBVIOUS
<1> HIDE DEF next
<1>2. n \in DOMAIN next /\ n \notin DOMAIN ds /\ \A e \in DOMAIN next : e \in DOMAIN ds \/ e = n
  BY <1>1
<1> HIDE DEF n
<1>3. Live(next) = Live(ds) \cup {n}
  BY <1>1, <1>2 DEF Live
<1>4. \A o \in Run : Acked(next, o) = Acked(ds, o) /\ \A e \in Acked(ds, o) : next[e] = ds[e]
  BY <1>1, <1>2 DEF Acked
<1>5. \A e \in Live(ds) : (ds[e].run = r => e \in Acked(ds, r))
  BY DEF Live, Acked
<1>6. /\ d.messages \subseteq Unread(r, box) /\ Unread(r, box) \subseteq DOMAIN box[r]
      /\ \A j \in d.messages, i \in Unread(r, box) : i < j => i \in d.messages
  <2>1. box[r] \in Seq(Message)
    BY DEF Box
  <2>2. DOMAIN box[r] = 1..Len(box[r]) /\ Len(box[r]) \in Nat
    BY <2>1
  <2>3. Unread(r, box) \in SUBSET (1..Len(box[r]))
    BY <2>2 DEF Unread
  <2>4. /\ Page(Unread(r, box)) \subseteq Unread(r, box)
        /\ \A j \in Page(Unread(r, box)), i \in Unread(r, box) : i < j => i \in Page(Unread(r, box))
    BY <2>2, <2>3, PageFacts
  <2>5. QED
    BY <2>2, <2>3, <2>4
<1>7. AckedRead(box, next)
  BY <1>4 DEF ReadingOf, AckedRead
<1>8. ASSUME NEW e \in Live(ds), ds[e].run = r
      PROVE  ds[e].messages \cap d.messages = {}
  <2>1. e \in Acked(ds, r) /\ ds[e].messages \subseteq DOMAIN box[r]
    BY <1>5, <1>8 DEF ReadingOf, Prefix
  <2>2. \A i \in ds[e].messages : box[r][i].read
    BY <2>1 DEF ReadingOf, AckedRead
  <2>3. QED
    BY <1>6, <2>2 DEF Unread
<1>9. Disjoint(next)
  <2>1. \A e \in Live(ds) : next[e] = ds[e] /\ e # n
    BY <1>1, <1>2 DEF Live
  <2>2. QED
    BY <1>1, <1>3, <1>8, <2>1 DEF ReadingOf, Disjoint
<1>10. Prefix(box, next)
  <2>1. \A e \in Live(ds) : next[e] = ds[e]
    BY <1>1 DEF Live
  <2>2. \A j \in d.messages : \A i \in DOMAIN box[r] : i < j => i \in d.messages \/ box[r][i].read
    BY <1>6 DEF Unread
  <2>3. d.messages \subseteq DOMAIN box[r]
    BY <1>6
  <2>4. QED
    BY <1>1, <1>3, <2>1, <2>2, <2>3 DEF ReadingOf, Prefix
<1>11. QED
  BY <1>7, <1>9, <1>10 DEF ReadingOf, next

LEMMA ReadReading ==
    ASSUME MailType, NEW box \in Box, NEW ds \in Seq(Delivery), NEW r \in Run, ReadingOf(box, ds),
           NEW c, NEW types, NEW s, readDelivery(c, r, types, box, ds, s)
    PROVE  ReadingOf(box, deliveries')
<1> DEFINE d == [run |-> r, generation |-> generation[r], messages |-> Page(Unread(r, box)),
                 status |-> "outstanding"]
<1>1. CASE deliveries' = ds
  BY <1>1
<1>2. CASE /\ {i \in DOMAIN ds : ds[i].run = r /\ ds[i].status = "outstanding"} = {}
           /\ deliveries' = Append(ds, d)
  <2>1. d.run = r /\ d.status = "outstanding" /\ d.messages = Page(Unread(r, box))
    OBVIOUS
  <2>2. d \in Delivery
    <3>1. box[r] \in Seq(Message) /\ generation[r] \in Nat
      BY DEF Box, MailType
    <3>2. DOMAIN box[r] \subseteq Nat
      BY <3>1
    <3>3. Page(Unread(r, box)) \in SUBSET Nat
      BY <3>2 DEF Page, Unread
    <3>4. QED
      BY <3>1, <3>3 DEF Delivery
  <2>3. \A e \in DOMAIN ds : ds[e].run # r \/ ds[e].status # "outstanding"
    BY <1>2
  <2> HIDE DEF d
  <2>4. QED
    BY <1>2, <2>1, <2>2, <2>3, PageReading
<1>3. QED
  BY <1>1, <1>2, Zenon DEF readDelivery

-----------------------------------------------------------------------------
\* Pane p has delivery a, or is about to be told of it.
Holds(p, a) ==
    \/ a \in got[p]
    \/ \E q \in Request : caller[q] = p /\ receipt[q] = a
    \/ \E c \in Call : op[c].req \in Request /\ caller[op[c].req] = p /\ op[c].answer = a

DeliveryId == Nat \ {0}

HoldersInv ==
    /\ \A p \in Pane, a \in DeliveryId : Holds(p, a) => a \in DOMAIN deliveries
    /\ \A p, o \in Pane, a \in DeliveryId : Holds(p, a) /\ Holds(o, a) => p = o
    /\ \A p \in Pane, a \in DeliveryId :
          Holds(p, a) /\ deliveries[a].status = "outstanding" => bound[deliveries[a].run] = p

\* A check past its acknowledgement: its pane is the consumer of its run, as
\* long as the run is in the generation of the check.
WayInv ==
    \A c \in Call : UnderWay(c) =>
        /\ checking[c].generation > 0
        /\ caller[op[c].req] \in Pane
        /\ LET r == checking[c].run IN
           /\ generation[r] = 0 \/ checking[c].generation <= generation[r]
           /\ generation[r] = checking[c].generation => bound[r] = caller[op[c].req]

AnswerInv ==
    /\ caller \in [Request -> Pane \cup {NoPane}]
    /\ got \in [Pane -> SUBSET DeliveryId]
    /\ fresh \in [Run -> BOOLEAN]
    /\ Len(deliveries) <= MaxDeliveries
    /\ \A c \in Call : op[c].answer # 0 => op[c].at = "returned"
    /\ \A q \in Request : row[q] # "completed" => receipt[q] = 0

Holding == HoldersInv /\ WayInv /\ AnswerInv

LEMMA HoldingInit == MailboxInit => Reading /\ Holding
<1> SUFFICES ASSUME MailboxInit
             PROVE  Reading /\ Holding
    OBVIOUS
<1> USE ReceiptAssumption, MailboxAssumption DEF ReceiptAssumption, MailboxAssumption, MailboxInit, ReceiptsInit
<1>1. DOMAIN deliveries = {} /\ \A r \in Run : DOMAIN inbox[r] = {}
  OBVIOUS
<1>2. Reading
  BY <1>1 DEF Reading, ReadingOf, AckedRead, Disjoint, Prefix, Live, Acked
<1>3. \A p \in Pane, a \in DeliveryId : ~ Holds(p, a)
  BY DEF Holds, DeliveryId, IdleCall
<1>4. HoldersInv
  BY <1>3 DEF HoldersInv
<1>5. WayInv /\ AnswerInv
  BY DEF WayInv, UnderWay, AnswerInv, IdleCall
<1>6. QED
  BY <1>2, <1>4, <1>5 DEF Holding

\* Nobody gets to know a delivery.
Silent == \A p \in Pane, a \in DeliveryId : Holds(p, a)' => Holds(p, a)

\* Open deliveries stay those of the pane of their run.
Keeps == /\ DOMAIN deliveries' = DOMAIN deliveries
         /\ \A a \in DOMAIN deliveries : deliveries'[a].status = "outstanding" =>
                /\ deliveries[a].status = "outstanding" /\ deliveries'[a].run = deliveries[a].run
                /\ bound'[deliveries[a].run] = bound[deliveries[a].run]

LEMMA SilentHolders ==
    ASSUME HoldersInv, Silent, Keeps
    PROVE  HoldersInv'
<1>1. \A p \in Pane, a \in DeliveryId : Holds(p, a)' => Holds(p, a) /\ a \in DOMAIN deliveries
  BY DEF HoldersInv, Silent
<1>2. \A p \in Pane, a \in DeliveryId : Holds(p, a)' /\ deliveries'[a].status = "outstanding" =>
        bound'[deliveries'[a].run] = p
  BY <1>1 DEF HoldersInv, Keeps
<1>3. \A p \in Pane, a \in DeliveryId : Holds(p, a)' => a \in DOMAIN deliveries'
  BY <1>1 DEF Keeps
<1>4. \A p, o \in Pane, a \in DeliveryId : Holds(p, a)' /\ Holds(o, a)' => p = o
  BY <1>1 DEF HoldersInv
<1>5. QED
  BY <1>2, <1>3, <1>4 DEF HoldersInv

\* Checks under way stay so, with their caller and the generation of their run.
OnTheWay ==
    \A c \in Call : UnderWay(c)' =>
        /\ UnderWay(c) /\ checking'[c] = checking[c]
        /\ op'[c].req = op[c].req /\ caller'[op[c].req] = caller[op[c].req]
        /\ LET r == checking[c].run IN
           \/ generation'[r] = generation[r] /\ bound'[r] = bound[r]
           \/ generation'[r] = 0
           \/ generation'[r] = generation[r] + 1 /\ generation[r] >= checking[c].generation

LEMMA OnTheWayKeeps ==
    ASSUME MailType, WayInv, OnTheWay
    PROVE  WayInv'
<1>1. ASSUME NEW c \in Call, UnderWay(c)'
      PROVE  /\ checking'[c].generation > 0
             /\ caller'[op'[c].req] \in Pane
             /\ generation'[checking'[c].run] = 0 \/ checking'[c].generation <= generation'[checking'[c].run]
             /\ generation'[checking'[c].run] = checking'[c].generation =>
                    bound'[checking'[c].run] = caller'[op'[c].req]
  <2> DEFINE r == checking[c].run
  <2>1. r \in Run /\ generation[r] \in Nat /\ checking[c].generation \in Nat
    BY <1>1, CheckNamesRun DEF OnTheWay, WayInv, MailType
  <2>2. /\ checking'[c] = checking[c] /\ op'[c].req = op[c].req
        /\ caller'[op[c].req] = caller[op[c].req]
        /\ \/ generation'[r] = generation[r] /\ bound'[r] = bound[r]
           \/ generation'[r] = 0
           \/ generation'[r] = generation[r] + 1 /\ generation[r] >= checking[c].generation
    BY <1>1 DEF OnTheWay
  <2>3. /\ checking[c].generation > 0 /\ caller[op[c].req] \in Pane
        /\ generation[r] = 0 \/ checking[c].generation <= generation[r]
        /\ generation[r] = checking[c].generation => bound[r] = caller[op[c].req]
    BY <1>1 DEF OnTheWay, WayInv
  <2>4. QED
    BY <2>1, <2>2, <2>3
<1>2. QED
  BY <1>1 DEF WayInv

LEMMA GotGrows ==
    ASSUME got \in [Pane -> SUBSET DeliveryId], NEW x, NEW a \in Nat,
           got' = got \/ (a # 0 /\ got' = [got EXCEPT ![x] = @ \cup {a}])
    PROVE  /\ got' \in [Pane -> SUBSET DeliveryId]
           /\ \A p \in Pane : \A b \in got'[p] : b \in got[p] \/ (p = x /\ b = a)
<1>1. CASE got' = got
  BY <1>1
<1>2. CASE a # 0 /\ got' = [got EXCEPT ![x] = @ \cup {a}]
  <2>1. a \in DeliveryId
    BY <1>2 DEF DeliveryId
  <2>2. \A p \in Pane : got'[p] = IF p = x THEN got[p] \cup {a} ELSE got[p]
    BY <1>2
  <2>3. got' = [p \in Pane |-> got'[p]]
    BY <1>2
  <2>4. \A p \in Pane : got'[p] \in SUBSET DeliveryId
    BY <2>1, <2>2
  <2> HIDE DEF DeliveryId
  <2>5. got' \in [Pane -> SUBSET DeliveryId]
    BY <2>3, <2>4
  <2>6. QED
    BY <2>2, <2>5
<1>3. QED
  BY <1>1, <1>2

\* The steps of the executor, and the others that leave the runs alone.
LEMMA QuietHolding ==
    ASSUME MailInv, Holding,
           \/ \E c \in Call, q \in Request : CallRequest(c, q)
           \/ \E c \in Call : CallEnds(c) \/ WaitEnds(c)
           \/ \E q \in Request : Replay(q) \/ Forget(q)
           \/ \E p \in Pane : PaneReopens(p)
           \/ MailboxRestart
           \/ UNCHANGED mailVars
    PROVE  Holding'
<1> USE ReceiptAssumption, MailboxAssumption
    DEF ReceiptAssumption, MailboxAssumption, MailInv, ExecutorInv, ExecutorType, OpRecord, Holding, AnswerInv,
        Keeps, OnTheWay, UnderWay, storeVars
<1>0. SUFFICES Silent /\ Keeps /\ OnTheWay /\ AnswerInv'
  BY SilentHolders, OnTheWayKeeps
<1>1. ASSUME NEW c \in Call, NEW q \in Request, CallRequest(c, q)
      PROVE  Silent /\ Keeps /\ OnTheWay /\ AnswerInv'
  <2>1. /\ op' = [op EXCEPT ![c] = [req |-> q, at |-> "begun", answer |-> 0]]
        /\ row' = [row EXCEPT ![q] = "pending"] /\ row[q] = "none"
        /\ UNCHANGED <<receipt, caller, got, generation, bound, fresh, deliveries, checking>>
    BY <1>1 DEF CallRequest, run
  <2>2. Silent
    BY <2>1 DEF Silent, Holds, DeliveryId
  <2>3. QED
    BY <2>1, <2>2
<1>2. ASSUME NEW c \in Call, CallEnds(c)
      PROVE  Silent /\ Keeps /\ OnTheWay /\ AnswerInv'
  <2> DEFINE q == op[c].req
             a == op[c].answer
  <2>1. /\ q \in Request /\ row[q] = "pending" /\ receipt[q] = 0 /\ a \in Nat
        /\ op[c].at \in {"returned", "threw", "unknown"}
    BY <1>2 DEF CallEnds, Finish, Complete, Discard
  <2>2. /\ op' = [op EXCEPT ![c] = IdleCall]
        /\ \/ row' = [row EXCEPT ![q] = "completed"] /\ receipt' = [receipt EXCEPT ![q] = a]
           \/ row' = [row EXCEPT ![q] = "none"] /\ receipt' = receipt
           \/ row' = row /\ receipt' = receipt
        /\ caller' = IF a # 0 THEN caller ELSE [caller EXCEPT ![q] = NoPane]
        /\ got' = got \/ (a # 0 /\ got' = [got EXCEPT ![caller[q]] = @ \cup {a}])
        /\ UNCHANGED <<generation, bound, fresh, deliveries, checking>>
    BY <1>2, <2>1 DEF CallEnds, Finish, Complete, Discard, Receive
  <2>9. /\ got' \in [Pane -> SUBSET DeliveryId]
        /\ \A p \in Pane : \A b \in got'[p] : b \in got[p] \/ (p = caller[q] /\ b = a)
    <3>1. got \in [Pane -> SUBSET DeliveryId]
      OBVIOUS
    <3>2. /\ a \in Nat
          /\ got' = got \/ (a # 0 /\ got' = [got EXCEPT ![caller[q]] = @ \cup {a}])
      BY <2>1, <2>2
    <3> HIDE DEF q, a, DeliveryId
    <3>3. QED
      BY ONLY <3>1, <3>2, GotGrows
  <2>3. ASSUME NEW p \in Pane, NEW b \in DeliveryId, Holds(p, b)'
        PROVE  Holds(p, b)
    <3>1. CASE b \in got'[p]
      BY <2>1, <2>9, <3>1 DEF Holds
    <3>2. ASSUME NEW o \in Request, caller'[o] = p, receipt'[o] = b
          PROVE  Holds(p, b)
      BY <2>1, <2>2, <3>2 DEF Holds, DeliveryId
    <3>3. ASSUME NEW d \in Call, op'[d].req \in Request, caller'[op'[d].req] = p, op'[d].answer = b
          PROVE  Holds(p, b)
      BY <2>1, <2>2, <3>3 DEF Holds, DeliveryId, IdleCall
    <3>4. QED
      BY <2>3, <3>1, <3>2, <3>3 DEF Holds
  <2>4. Silent
    BY <2>3 DEF Silent
  <2>5. \A d \in Call : d # c /\ op[d].req = q => FALSE
    BY <2>1
  <2>6. Keeps /\ OnTheWay
    BY <2>1, <2>2, <2>5 DEF IdleCall
  <2>7. AnswerInv'
    <3>2. caller' \in [Request -> Pane \cup {NoPane}]
      BY <2>1, <2>2
    <3>3. \A d \in Call : op'[d].answer # 0 => op'[d].at = "returned"
      BY <2>1, <2>2 DEF IdleCall
    <3>4. \A o \in Request : row'[o] # "completed" => receipt'[o] = 0
      BY <2>1, <2>2
    <3>5. QED
      BY <2>2, <2>9, <3>2, <3>3, <3>4
  <2>8. QED
    BY <2>4, <2>6, <2>7
<1>3. ASSUME NEW q \in Request, Replay(q)
      PROVE  Silent /\ Keeps /\ OnTheWay /\ AnswerInv'
  <2>1. /\ UNCHANGED <<op, row, receipt, caller, generation, bound, fresh, deliveries, checking>>
        /\ got' = got \/ (receipt[q] # 0 /\ got' = [got EXCEPT ![caller[q]] = @ \cup {receipt[q]}])
    BY <1>3 DEF Replay, Receive, receiptVars
  <2>2. /\ got' \in [Pane -> SUBSET DeliveryId]
        /\ \A p \in Pane : \A b \in got'[p] : b \in got[p] \/ (p = caller[q] /\ b = receipt[q])
    <3> DEFINE a == receipt[q]
    <3>1. got \in [Pane -> SUBSET DeliveryId]
      OBVIOUS
    <3>2. /\ a \in Nat
          /\ got' = got \/ (a # 0 /\ got' = [got EXCEPT ![caller[q]] = @ \cup {a}])
      BY <2>1 DEF ReceiptTypeOK
    <3> HIDE DEF a, DeliveryId
    <3>3. /\ got' \in [Pane -> SUBSET DeliveryId]
          /\ \A p \in Pane : \A b \in got'[p] : b \in got[p] \/ (p = caller[q] /\ b = a)
      BY ONLY <3>1, <3>2, GotGrows
    <3>4. QED
      BY <3>3 DEF a
  <2>3. Silent
    BY <2>1, <2>2 DEF Silent, Holds
  <2>4. QED
    BY <2>1, <2>2, <2>3
<1>4. ASSUME NEW q \in Request, Forget(q)
      PROVE  Silent /\ Keeps /\ OnTheWay /\ AnswerInv'
  <2>1. /\ \A c \in Call : op[c].req # q
        /\ row' = [row EXCEPT ![q] = "none"] /\ receipt' = [receipt EXCEPT ![q] = 0]
        /\ caller' = [caller EXCEPT ![q] = NoPane]
        /\ UNCHANGED <<op, got, generation, bound, fresh, deliveries, checking>>
    BY <1>4 DEF Forget
  <2>2. Silent
    BY <2>1 DEF Silent, Holds, DeliveryId
  <2>3. QED
    BY <2>1, <2>2
<1>5. ASSUME NEW c \in Call, WaitEnds(c)
      PROVE  Silent /\ Keeps /\ OnTheWay /\ AnswerInv'
  <2>1. /\ op' = OpAt(c, "cancelled", 0) /\ op[c].at = "waiting"
        /\ UNCHANGED <<row, receipt, caller, got, generation, bound, fresh, deliveries, checking>>
    BY <1>5 DEF WaitEnds, HandlerLeaves
  <2>2. Silent
    BY <2>1 DEF Silent, Holds, DeliveryId, OpAt
  <2>3. QED
    BY <2>1, <2>2 DEF OpAt
<1>6. ASSUME NEW p \in Pane, PaneReopens(p)
      PROVE  Silent /\ Keeps /\ OnTheWay /\ AnswerInv'
  <2>1. /\ UNCHANGED <<op, row, receipt, caller, got, generation, bound, deliveries, checking>>
        /\ fresh' \in [Run -> BOOLEAN]
    BY <1>6 DEF PaneReopens, receiptVars
  <2>2. Silent
    BY <2>1 DEF Silent, Holds
  <2>3. QED
    BY <2>1, <2>2
<1>7. CASE MailboxRestart
  <2>1. /\ op' = [c \in Call |-> IdleCall] /\ fresh' = [r \in Run |-> FALSE]
        /\ caller' = [q \in Request |-> IF row[q] = "pending" THEN NoPane ELSE caller[q]]
        /\ UNCHANGED <<row, receipt, got, generation, bound, deliveries>>
    BY <1>7 DEF MailboxRestart, ReceiptsRestart
  <2>2. Silent
    BY <2>1 DEF Silent, Holds, DeliveryId, IdleCall
  <2>3. QED
    BY <2>1, <2>2 DEF IdleCall
<1>8. CASE UNCHANGED mailVars
  <2>1. Silent
    BY <1>8 DEF Silent, Holds, mailVars, receiptVars
  <2>2. QED
    BY <1>8, <2>1 DEF mailVars, receiptVars
<1>9. QED
  BY <1>1, <1>2, <1>3, <1>4, <1>5, <1>6, <1>7, <1>8

\* next has the calls of op, none of them with a new answer or newly under way.
Mute(next) ==
    /\ next \in [Call -> OpRecord]
    /\ \A d \in Call : /\ next[d].req = op[d].req
                       /\ next[d].answer \in {0, op[d].answer}
                       /\ next[d].answer # 0 => next[d].at = "returned"
                       /\ next[d].at \in {"waiting", "notified", "cancelled", "refused"} => UnderWay(d)

LEMMA MuteStays == ExecutorType /\ AnswerInv => Mute(op)
BY DEF ExecutorType, OpRecord, Mute, UnderWay, AnswerInv

LEMMA MuteOpAt ==
    ASSUME ExecutorType, AnswerInv, NEW c \in Call, NEW x \in {"returned", "threw"}
    PROVE  Mute(OpAt(c, x, 0))
BY DEF ExecutorType, OpRecord, Mute, UnderWay, AnswerInv, OpAt, Stage

LEMMA MuteNotify ==
    ASSUME ExecutorType, AnswerInv, NEW next, NEW r, NEW t, Mute(next)
    PROVE  Mute(notifyMessageArrived(r, t, next))
BY DEF ExecutorType, OpRecord, Mute, UnderWay, AnswerInv, notifyMessageArrived, Waiting, Stage

LEMMA MuteCancel ==
    ASSUME ExecutorType, AnswerInv, NEW next, NEW runs, Mute(next)
    PROVE  Mute(cancelMessageWaiters(runs, next))
<1> DEFINE new == cancelMessageWaiters(runs, next)
<1>1. \A d \in Call : new[d] = IF \E r \in runs : d \in Waiting(r)
                                THEN [next[d] EXCEPT !.at = "cancelled"] ELSE next[d]
  BY DEF cancelMessageWaiters
<1>2. new = [d \in Call |-> new[d]]
  BY DEF cancelMessageWaiters
<1>3. \A d \in Call : (\E r \in runs : d \in Waiting(r)) => op[d].at = "waiting" /\ op[d].answer = 0
  BY DEF Waiting, AnswerInv
<1> HIDE DEF new
<1>4. \A d \in Call : new[d] = next[d]
                   \/ (op[d].at = "waiting" /\ op[d].answer = 0 /\ new[d] = [next[d] EXCEPT !.at = "cancelled"])
  BY <1>1, <1>3, Zenon
<1>5. new \in [Call -> OpRecord]
  BY <1>2, <1>4 DEF Mute, OpRecord, Stage
<1>6. QED
  BY <1>4, <1>5 DEF Mute, OpRecord, UnderWay, new

\* A handler that hands out nothing.
LEMMA MuteHolding ==
    ASSUME MailType, Holding, Mute(op'), UNCHANGED <<row, receipt, got, caller, checking>>, Keeps,
           fresh' \in [Run -> BOOLEAN], Len(deliveries') = Len(deliveries),
           \A d \in Call : UnderWay(d) =>
                LET r == checking[d].run IN
                \/ generation'[r] = generation[r] /\ bound'[r] = bound[r]
                \/ generation'[r] = 0
                \/ generation'[r] = generation[r] + 1 /\ generation[r] >= checking[d].generation
    PROVE  Holding'
<1>1. Silent
  BY DEF Mute, Silent, Holds, DeliveryId
<1>2. OnTheWay
  BY DEF Mute, OnTheWay, UnderWay
<1>3. AnswerInv'
  BY DEF Mute, Holding, AnswerInv
<1>4. QED
  BY <1>1, <1>2, <1>3, SilentHolders, OnTheWayKeeps DEF Holding

LEMMA ArriveHolding ==
    ASSUME MailInv, Holding,
           \/ \E r \in Run, t \in Type : MessageArrives(r, t)
           \/ \E c \in Call, r \in Run, t \in Type : handleOrchestrationSend(c, r, t)
           \/ \E c \in Call, r \in Run, i \in 1 .. MaxMessages : handleOrchestrationReply(c, r, i)
    PROVE  Holding'
<1> USE DEF MailInv, ExecutorInv, Holding
<1>1. /\ Mute(op')
      /\ UNCHANGED <<row, receipt, got, caller, checking, generation, bound, fresh, deliveries>>
  <2>1. ASSUME NEW r \in Run, NEW t \in Type, MessageArrives(r, t)
        PROVE  /\ op' = notifyMessageArrived(r, t, op)
               /\ UNCHANGED <<row, receipt, got, caller, checking, generation, bound, fresh, deliveries>>
    BY <2>1 DEF MessageArrives
  <2>2. ASSUME NEW c \in Call, NEW r \in Run, NEW t \in Type, handleOrchestrationSend(c, r, t)
        PROVE  /\ \/ op' = OpAt(c, "threw", 0) \/ op' = OpAt(c, "returned", 0)
                  \/ op' = notifyMessageArrived(r, t, OpAt(c, "returned", 0))
               /\ UNCHANGED <<row, receipt, got, caller, checking, generation, bound, fresh, deliveries>>
    BY <2>2, Zenon DEF handleOrchestrationSend, HandlerLeaves
  <2>3. ASSUME NEW c \in Call, NEW r \in Run, NEW i \in 1 .. MaxMessages, handleOrchestrationReply(c, r, i)
        PROVE  /\ op' = OpAt(c, "threw", 0) \/ op' = OpAt(c, "returned", 0)
               /\ UNCHANGED <<row, receipt, got, caller, checking, generation, bound, fresh, deliveries>>
    BY <2>3, Zenon DEF handleOrchestrationReply, HandlerLeaves
  <2>4. \A c \in Call : Mute(OpAt(c, "threw", 0)) /\ Mute(OpAt(c, "returned", 0))
    BY MuteOpAt
  <2>5. /\ \A r, t : Mute(notifyMessageArrived(r, t, op))
        /\ \A c \in Call : \A r, t : Mute(notifyMessageArrived(r, t, OpAt(c, "returned", 0)))
    BY <2>4, MuteStays, MuteNotify
  <2>6. QED
    BY <2>1, <2>2, <2>3, <2>4, <2>5, Zenon
<1>2. Keeps
  BY <1>1 DEF Keeps
<1>3. QED
  BY <1>1, <1>2, MuteHolding DEF MailInv, Holding, AnswerInv

LEMMA ResetHolding ==
    ASSUME MailInv, Holding, NEW c \in Call, handleOrchestrationReset(c)
    PROVE  Holding'
<1> DEFINE gone(i) == [run |-> deliveries[i].run, generation |-> 0, messages |-> {}, status |-> "deleted"]
<1>1. /\ op' = OpAt(c, "returned", 0) /\ UNCHANGED <<row, receipt, got, caller, checking>>
      /\ deliveries' = [i \in DOMAIN deliveries |-> gone(i)]
      /\ \/ UNCHANGED <<generation, bound, fresh>>
         \/ /\ generation' = [r \in Run |-> 0] /\ bound' = [r \in Run |-> NoPane]
            /\ fresh' = [r \in Run |-> FALSE]
  BY DEF handleOrchestrationReset, resetAll, resetMessages, HandlerLeaves
<1>2. Mute(op')
  BY <1>1, MuteOpAt DEF MailInv, ExecutorInv, Holding, handleOrchestrationReset
<1>3. /\ DOMAIN deliveries' = DOMAIN deliveries
      /\ \A i \in DOMAIN deliveries' : deliveries'[i].status = "deleted"
  BY <1>1
<1>4. Len(deliveries') = Len(deliveries)
  <2>1. deliveries' \in Seq(Delivery) /\ deliveries \in Seq(Delivery)
    BY ResetStep DEF MailInv, MailType
  <2> HIDE DEF gone
  <2>2. QED
    BY <1>3, <2>1
<1>5. Keeps
  BY <1>3 DEF Keeps
<1>6. \A d \in Call : UnderWay(d) => checking[d].run \in Run
  BY CheckNamesRun DEF MailInv, Holding, WayInv
<1>7. fresh' \in [Run -> BOOLEAN]
  BY <1>1 DEF Holding, AnswerInv
<1>8. QED
  BY <1>1, <1>2, <1>4, <1>5, <1>6, <1>7, MuteHolding DEF MailInv

\* A run that changes hands closes its delivery, and leaves the generation of
\* the checks under way behind.
LEMMA RebindHolding ==
    ASSUME MailInv, Holding,
           NEW lost \in SUBSET Run, NEW won \in SUBSET Run, NEW p \in Pane, Rebind(lost, won, p),
           \A r \in lost \cup won : generation[r] > 0 \/ NewRun(r),
           NEW runs, NEW c \in Call, op' = cancelMessageWaiters(runs, OpAt(c, "returned", 0)),
           UNCHANGED <<row, receipt, got, caller, checking>>
    PROVE  Holding'
<1>1. Rebound(lost, won, p)
  BY RebindFacts DEF MailInv
<1>2. Mute(op')
  BY MuteOpAt, MuteCancel DEF MailInv, ExecutorInv, Holding
<1>3. Keeps
  <2>1. ASSUME NEW i \in DOMAIN deliveries, deliveries'[i].status = "outstanding"
        PROVE  deliveries'[i] = deliveries[i] /\ deliveries[i].run \in Run /\ deliveries[i].run \notin lost \cup won
    <3>1. deliveries[i] \in Delivery /\ deliveries[i].run \in Run
      BY DeliveryFields DEF MailInv
    <3>2. [deliveries[i] EXCEPT !.status = "fenced"].status = "fenced"
      BY <3>1 DEF Delivery
    <3>3. QED
      BY <1>1, <2>1, <3>1, <3>2 DEF Rebound
  <2>2. QED
    BY <1>1, <2>1 DEF Keeps, Rebound
<1>4. Len(deliveries') = Len(deliveries)
  BY <1>1 DEF Rebound, MailInv, MailType
<1>5. fresh' \in [Run -> BOOLEAN]
  BY DEF Rebind, Holding, AnswerInv
<1>6. ASSUME NEW d \in Call, UnderWay(d)
      PROVE  LET r == checking[d].run IN
             \/ generation'[r] = generation[r] /\ bound'[r] = bound[r]
             \/ generation'[r] = 0
             \/ generation'[r] = generation[r] + 1 /\ generation[r] >= checking[d].generation
  <2> DEFINE r == checking[d].run
  <2>1. r \in Run /\ generation[r] \in Nat /\ checking[d].generation \in Nat
    BY <1>6, CheckNamesRun DEF MailInv, MailType, Holding, WayInv
  <2>2. checking[d].generation > 0 /\ (generation[r] = 0 \/ checking[d].generation <= generation[r])
    BY <1>6 DEF Holding, WayInv
  <2>3. CASE r \in lost \cup won
    <3>1. generation[r] > 0
      BY <2>2, <2>3 DEF NewRun
    <3>2. QED
      BY <1>1, <2>1, <2>2, <2>3, <3>1 DEF Rebound
  <2>4. CASE r \notin lost \cup won
    BY <1>1, <2>1, <2>4 DEF Rebound
  <2>5. QED
    BY <2>3, <2>4
<1>7. QED
  BY <1>2, <1>3, <1>4, <1>5, <1>6, MuteHolding DEF MailInv

LEMMA RunHolding ==
    ASSUME MailInv, Holding, NEW c \in Call, NEW p \in Pane,
           handleOrchestrationRunCreate(c, p) \/ \E r \in Run : handleOrchestrationRunUse(c, p, r)
    PROVE  Holding'
<1>1. CurrentRuns(p) \in SUBSET Run /\ \A r \in CurrentRuns(p) : generation[r] > 0
  BY MailboxAssumption DEF MailboxAssumption, CurrentRuns, MailInv, ConsumerInv, BoundInv
<1>2. UNCHANGED <<row, receipt, got, caller, checking>>
  BY DEF handleOrchestrationRunCreate, handleOrchestrationRunUse, HandlerLeaves
<1>3. CASE handleOrchestrationRunCreate(c, p)
  <2>1. PICK r \in Run : NewRun(r) /\ Rebind(CurrentRuns(p), {r}, p)
    BY <1>3 DEF handleOrchestrationRunCreate
  <2>2. op' = cancelMessageWaiters(CurrentRuns(p), OpAt(c, "returned", 0))
    BY <1>3 DEF handleOrchestrationRunCreate
  <2>3. {r} \in SUBSET Run /\ \A o \in CurrentRuns(p) \cup {r} : generation[o] > 0 \/ NewRun(o)
    BY <1>1, <2>1
  <2>4. QED
    BY <1>1, <1>2, <2>1, <2>2, <2>3, RebindHolding
<1>4. ASSUME NEW r \in Run, handleOrchestrationRunUse(c, p, r)
      PROVE  Holding'
  <2>1. CASE op' = OpAt(c, "threw", 0) /\ UNCHANGED <<generation, bound, fresh, deliveries>>
    <3>1. Mute(op')
      BY <2>1, MuteOpAt DEF MailInv, ExecutorInv, Holding
    <3>2. Keeps
      BY <2>1 DEF Keeps
    <3>3. QED
      BY <1>2, <2>1, <3>1, <3>2, MuteHolding DEF MailInv, Holding, AnswerInv
  <2>2. ASSUME NEW won \in {{}, {r}}, Rebind(CurrentRuns(p) \ {r}, won, p), generation[r] > 0,
               op' = cancelMessageWaiters(CurrentRuns(p) \cup {r}, OpAt(c, "returned", 0))
        PROVE  Holding'
    <3>1. /\ CurrentRuns(p) \ {r} \in SUBSET Run /\ won \in SUBSET Run
          /\ \A o \in (CurrentRuns(p) \ {r}) \cup won : generation[o] > 0 \/ NewRun(o)
      BY <1>1, <2>2
    <3>2. QED
      BY <1>2, <2>2, <3>1, RebindHolding
  <2>3. QED
    BY <1>4, <2>1, <2>2 DEF handleOrchestrationRunUse
<1>5. QED
  BY <1>3, <1>4

-----------------------------------------------------------------------------
\* A call that answers, or goes to sleep, for the consumer of a run.
AnswersPane(c, p, x, a) ==
    /\ op' = OpAt(c, x, a)
    /\ x \in {"returned", "threw", "waiting", "refused"} /\ a \in Nat
    /\ a # 0 => /\ x = "returned" /\ a \in DOMAIN deliveries'
                /\ deliveries'[a].status = "outstanding" /\ bound[deliveries'[a].run] = p
    /\ x \in {"waiting", "refused"} =>
        /\ checking'[c].run \in Run /\ checking'[c].generation > 0
        /\ checking'[c].generation = generation[checking'[c].run]
        /\ bound[checking'[c].run] = p

\* The deliveries stay, some of them closed, and more may follow.
Extends ==
    /\ Len(deliveries') <= MaxDeliveries
    /\ DOMAIN deliveries \subseteq DOMAIN deliveries'
    /\ \A d \in DOMAIN deliveries :
        /\ deliveries'[d].run = deliveries[d].run
        /\ deliveries'[d].status = "outstanding" => deliveries[d].status = "outstanding"

LEMMA AnswerHolding ==
    ASSUME MailInv, Holding, NEW c \in Call, op[c].at \notin {"idle", "returned"}, NEW p \in Pane,
           NEW x, NEW a, AnswersPane(c, p, x, a), Extends,
           caller' = [caller EXCEPT ![op[c].req] = p],
           \A d \in Call : d # c => checking'[d] = checking[d],
           UNCHANGED <<row, receipt, got, generation, bound, fresh>>
    PROVE  Holding'
<1> DEFINE q == op[c].req
<1>1. /\ q \in Request /\ row[q] = "pending" /\ receipt[q] = 0 /\ op[c].answer = 0
      /\ \A d \in Call : d # c => op[d].req # q
  <2>1. q \in Request
    BY DEF MailInv, ExecutorInv, ExecutorType, OpRecord
  <2>2. q # NoRequest
    BY <2>1, ReceiptAssumption DEF ReceiptAssumption
  <2>3. QED
    BY <2>1, <2>2 DEF MailInv, ExecutorInv, Holding, AnswerInv
<1>2. /\ caller'[q] = p /\ caller' \in [Request -> Pane \cup {NoPane}]
      /\ \A o \in Request : o # q => caller'[o] = caller[o]
  BY <1>1 DEF Holding, AnswerInv
<1>3. /\ op'[c].req = q /\ op'[c].at = x /\ op'[c].answer = a
      /\ \A d \in Call : d # c => op'[d] = op[d]
  BY DEF AnswersPane, OpAt, MailInv, ExecutorInv, ExecutorType, OpRecord
<1>4. ASSUME NEW o \in Pane, NEW b \in DeliveryId, Holds(o, b)'
      PROVE  Holds(o, b) \/ (o = p /\ b = a)
  <2>1. CASE b \in got'[o]
    BY <2>1 DEF Holds
  <2>2. ASSUME NEW r \in Request, caller'[r] = o, receipt'[r] = b
        PROVE  Holds(o, b)
    BY <1>1, <1>2, <2>2 DEF Holds, DeliveryId
  <2>3. ASSUME NEW d \in Call, op'[d].req \in Request, caller'[op'[d].req] = o, op'[d].answer = b
        PROVE  Holds(o, b) \/ (o = p /\ b = a)
    BY <1>1, <1>2, <1>3, <2>3 DEF Holds
  <2>4. QED
    BY <1>4, <2>1, <2>2, <2>3 DEF Holds
<1>5. ASSUME NEW o \in Pane, a \in DeliveryId, Holds(o, a)
      PROVE  o = p
  <2>1. a \in DOMAIN deliveries /\ (deliveries[a].status = "outstanding" => bound[deliveries[a].run] = o)
    BY <1>5 DEF Holding, HoldersInv
  <2>2. QED
    BY <1>5, <2>1 DEF AnswersPane, Extends, DeliveryId
<1>6. HoldersInv'
  <2>1. ASSUME NEW o \in Pane, NEW b \in DeliveryId, Holds(o, b)'
        PROVE  b \in DOMAIN deliveries' /\ (deliveries'[b].status = "outstanding" => bound'[deliveries'[b].run] = o)
    <3>1. CASE Holds(o, b)
      BY <3>1 DEF Holding, HoldersInv, Extends
    <3>2. CASE o = p /\ b = a
      BY <3>2 DEF AnswersPane, DeliveryId
    <3>3. QED
      BY <1>4, <2>1, <3>1, <3>2
  <2>2. ASSUME NEW o \in Pane, NEW u \in Pane, NEW b \in DeliveryId, Holds(o, b)', Holds(u, b)'
        PROVE  o = u
    <3>1. (Holds(o, b) \/ (o = p /\ b = a)) /\ (Holds(u, b) \/ (u = p /\ b = a))
      BY <1>4, <2>2
    <3>2. CASE b = a
      BY <1>5, <3>1, <3>2
    <3>3. CASE b # a
      BY <3>1, <3>3 DEF Holding, HoldersInv
    <3>4. QED
      BY <3>2, <3>3
  <2>3. QED
    BY <2>1, <2>2 DEF HoldersInv
<1>7. WayInv'
  <2>1. ASSUME NEW d \in Call, UnderWay(d)'
        PROVE  /\ checking'[d].generation > 0
               /\ caller'[op'[d].req] \in Pane
               /\ generation'[checking'[d].run] = 0 \/ checking'[d].generation <= generation'[checking'[d].run]
               /\ generation'[checking'[d].run] = checking'[d].generation =>
                    bound'[checking'[d].run] = caller'[op'[d].req]
    <3>1. CASE d = c
      <4>1. x \in {"waiting", "refused"}
        BY <1>3, <2>1, <3>1 DEF UnderWay, AnswersPane
      <4>2. checking'[c].generation \in Nat
        BY <4>1 DEF AnswersPane, MailInv, MailType
      <4>3. QED
        BY <1>2, <1>3, <3>1, <4>1, <4>2 DEF AnswersPane
    <3>2. CASE d # c
      <4>1. UnderWay(d) /\ op'[d] = op[d] /\ op[d].req # q /\ checking'[d] = checking[d]
        BY <1>1, <1>3, <2>1, <3>2 DEF UnderWay
      <4>2. op[d].req \in Request
        BY <4>1 DEF UnderWay, MailInv, ExecutorInv, ExecutorType, OpRecord
      <4>3. caller'[op[d].req] = caller[op[d].req]
        BY <1>2, <4>1, <4>2
      <4>4. QED
        BY <4>1, <4>3 DEF Holding, WayInv
    <3>3. QED
      BY <3>1, <3>2
  <2>2. QED
    BY <2>1 DEF WayInv
<1>8. AnswerInv'
  <2>1. \A d \in Call : op'[d].answer # 0 => op'[d].at = "returned"
    BY <1>3 DEF Holding, AnswerInv, AnswersPane
  <2>2. QED
    BY <1>2, <2>1 DEF Holding, AnswerInv, Extends
<1>9. QED
  BY <1>6, <1>7, <1>8 DEF Holding

\* A read of the mailbox answers with an open delivery of the run, if any.
ReadAnswers(c, r, ds, s) ==
    \E x \in {"returned", "threw", s}, a \in Nat :
        /\ op' = OpAt(c, x, a)
        /\ a # 0 => /\ x = "returned" /\ a \in DOMAIN deliveries'
                    /\ deliveries'[a].status = "outstanding" /\ deliveries'[a].run = r
        /\ Len(deliveries') <= MaxDeliveries
        /\ DOMAIN ds \subseteq DOMAIN deliveries' /\ \A d \in DOMAIN ds : deliveries'[d] = ds[d]

LEMMA ReadIsAnswer ==
    ASSUME NEW c, NEW r \in Run, NEW types, NEW box,
           NEW ds \in Seq(Delivery), Len(ds) <= MaxDeliveries, NEW s, readDelivery(c, r, types, box, ds, s)
    PROVE  ReadAnswers(c, r, ds, s)
<1> DEFINE open == {i \in DOMAIN ds : ds[i].run = r /\ ds[i].status = "outstanding"}
           d == [run |-> r, generation |-> generation[r],
                 messages |-> Page(Unread(r, box)), status |-> "outstanding"]
           n == Len(ds)
<1>1. DOMAIN ds = 1..n /\ n \in Nat /\ MaxDeliveries \in Nat
  BY MailboxAssumption DEF MailboxAssumption
<1>2. ASSUME NEW i \in open, deliveries' = ds, op' = OpAt(c, "returned", i) \/ op' = OpAt(c, "threw", 0)
      PROVE  ReadAnswers(c, r, ds, s)
  BY <1>1, <1>2 DEF ReadAnswers
<1>3. CASE n < MaxDeliveries /\ deliveries' = Append(ds, d) /\ op' = OpAt(c, "returned", n + 1)
  <2>1. d.run = r /\ d.status = "outstanding"
    OBVIOUS
  <2> HIDE DEF d
  <2>2. /\ DOMAIN deliveries' = 1..(n + 1) /\ Len(deliveries') = n + 1
        /\ deliveries'[n + 1] = d /\ \A i \in DOMAIN ds : deliveries'[i] = ds[i]
    BY <1>1, <1>3
  <2>3. n + 1 \in DOMAIN deliveries' /\ n + 1 \in Nat /\ DOMAIN ds \subseteq DOMAIN deliveries' /\ n + 1 <= MaxDeliveries
    BY <1>1, <1>3, <2>2
  <2> HIDE DEF n
  <2>4. QED
    BY <1>3, <2>1, <2>2, <2>3 DEF ReadAnswers
<1>4. CASE deliveries' = ds /\ op' = OpAt(c, s, 0)
  BY <1>1, <1>4 DEF ReadAnswers
<1>5. QED
  BY <1>2, <1>3, <1>4 DEF readDelivery

LEMMA ResumeKeeps ==
    ASSUME MailInv, Reading, Holding, NEW c \in Call, ResumeCheck(c)
    PROVE  Reading' /\ Holding'
<1> DEFINE p == caller[op[c].req]
           r == checking[c].run
<1>1. /\ UNCHANGED <<row, receipt, got, generation, bound, fresh, inbox, caller>>
      /\ checking' = [checking EXCEPT ![c] = NoCheck] /\ op[c].at \notin {"idle", "returned"}
      /\ UnderWay(c)
  BY DEF ResumeCheck, HandlerLeaves, UnderWay
<1>2. /\ r \in Run /\ inbox \in Box /\ deliveries \in Seq(Delivery) /\ Len(deliveries) <= MaxDeliveries
      /\ \A d \in Call : d # c => checking'[d] = checking[d]
      /\ p \in Pane /\ (generation[r] = checking[c].generation => bound[r] = p)
  BY <1>1 DEF ResumeCheck, MailInv, MailType, Holding, AnswerInv, WayInv
<1>3. caller' = [caller EXCEPT ![op[c].req] = p]
  BY <1>1 DEF Holding, AnswerInv
<1> HIDE DEF p, r
<1>4. CASE (\E x \in {"threw", "returned"} : op' = OpAt(c, x, 0)) /\ UNCHANGED deliveries
  <2>1. PICK x \in {"threw", "returned"} : op' = OpAt(c, x, 0)
    BY <1>4
  <2>2. AnswersPane(c, p, x, 0) /\ Extends
    BY <1>2, <1>4, <2>1 DEF AnswersPane, Extends
  <2>3. Holding'
    BY <1>1, <1>2, <1>3, <2>2, AnswerHolding
  <2>4. QED
    BY <1>1, <1>4, <2>3 DEF Reading
<1>5. CASE generation[r] = checking[c].generation /\ readDelivery(c, r, Filter(c), inbox, deliveries, "returned")
  <2>1. ReadAnswers(c, r, deliveries, "returned")
    BY <1>2, <1>5, ReadIsAnswer
  <2>2. PICK x \in {"threw", "returned"}, a \in Nat : AnswersPane(c, p, x, a)
    BY <1>2, <1>5, <2>1 DEF ReadAnswers, AnswersPane
  <2>3. Extends
    BY <2>1 DEF ReadAnswers, Extends
  <2>4. Holding'
    BY <1>1, <1>2, <1>3, <2>2, <2>3, AnswerHolding
  <2>5. ReadingOf(inbox, deliveries')
    BY <1>2, <1>5, ReadReading DEF MailInv, Reading
  <2>6. QED
    BY <1>1, <2>4, <2>5 DEF Reading
<1>6. QED
  BY <1>4, <1>5, Zenon DEF ResumeCheck, r

\* What a check does after its acknowledgement, which left box and ds.
LEMMA AnswerKeeps ==
    ASSUME MailInv, Reading, Holding, NEW c \in Call, NEW p \in Pane, NEW r \in CurrentRuns(p), NEW a,
           NEW box \in Box, NEW ds \in Seq(Delivery), ReadingOf(box, ds), Closes(ds), Len(ds) = Len(deliveries),
           Answer(c, a, r, box, ds), op[c].at = "begun", caller' = [caller EXCEPT ![op[c].req] = p],
           UNCHANGED <<row, receipt, got, generation, bound, fresh>>
    PROVE  Reading' /\ Holding'
<1>1. /\ r \in Run /\ bound[r] = p /\ generation[r] > 0 /\ generation[r] \in Nat
      /\ Len(ds) <= MaxDeliveries /\ inbox' = box
  BY MailboxAssumption
     DEF MailboxAssumption, CurrentRuns, MailInv, ConsumerInv, BoundInv, MailType, Holding, AnswerInv, Answer
<1>2. /\ \A d \in Call : d # c => checking'[d] = checking[d]
      /\ op'[c].at \in {"waiting", "refused"} =>
            checking'[c].run = r /\ checking'[c].generation = generation[r]
  BY DEF Answer, MailInv, MailType
<1>3. ASSUME NEW s, s \in {"returned", "waiting", "refused"}, NEW x, NEW b \in Nat,
             x \in {"returned", "threw", s}, op' = OpAt(c, x, b),
             b # 0 => /\ x = "returned" /\ b \in DOMAIN deliveries'
                      /\ deliveries'[b].status = "outstanding" /\ deliveries'[b].run = r,
             Len(deliveries') <= MaxDeliveries,
             DOMAIN ds \subseteq DOMAIN deliveries', \A d \in DOMAIN ds : deliveries'[d] = ds[d]
      PROVE  Holding'
  <2>1. op'[c].at = x
    BY <1>3 DEF OpAt, MailInv, ExecutorInv, ExecutorType, OpRecord
  <2>2. AnswersPane(c, p, x, b)
    BY <1>1, <1>2, <1>3, <2>1 DEF AnswersPane
  <2>3. Extends
    BY <1>3 DEF Extends, Closes
  <2>4. QED
    BY <1>2, <2>2, <2>3, AnswerHolding
<1>4. CASE deliveries' = ds /\ op' = OpAt(c, "returned", 0)
  <2>1. Holding'
    BY <1>1, <1>3, <1>4
  <2>2. QED
    BY <1>1, <1>4, <2>1 DEF Reading
<1>5. ASSUME NEW s, s \in {"returned", "waiting", "refused"}, readDelivery(c, r, a.types, box, ds, s)
      PROVE  Reading' /\ Holding'
  <2>1. ReadAnswers(c, r, ds, s)
    BY <1>1, <1>5, ReadIsAnswer
  <2>2. Holding'
    BY <1>3, <1>5, <2>1 DEF ReadAnswers
  <2>3. ReadingOf(box, deliveries')
    BY <1>1, <1>5, ReadReading DEF MailInv
  <2>4. QED
    BY <1>1, <2>2, <2>3 DEF Reading
<1>6. QED
  <2>1. CASE a.mode = "peek"
    BY <1>4, <2>1 DEF Answer
  <2>2. CASE a.mode = "read"
    BY <1>5, <2>2, Zenon DEF Answer
  <2>3. CASE a.mode # "peek" /\ a.mode # "read" /\ Waiting(r) = {}
    BY <1>5, <2>3, Zenon DEF Answer
  <2>4. CASE a.mode # "peek" /\ a.mode # "read" /\ Waiting(r) # {}
    BY <1>5, <2>4, Zenon DEF Answer
  <2>5. QED
    BY <2>1, <2>2, <2>3, <2>4

LEMMA CheckKeeps ==
    ASSUME MailInv, Reading, Holding, NEW c \in Call, NEW p \in Pane, handleOrchestrationCheck(c, p)
    PROVE  Reading' /\ Holding'
<1>1. /\ op[c].at = "begun" /\ caller' = [caller EXCEPT ![op[c].req] = p]
      /\ UNCHANGED <<row, receipt, got, generation, bound, fresh>>
  BY DEF handleOrchestrationCheck, HandlerLeaves
<1>2. /\ inbox \in Box /\ deliveries \in Seq(Delivery) /\ Closes(deliveries)
      /\ ReadingOf(inbox, deliveries)
  BY DEF MailInv, MailType, Closes, Reading
<1>3. CASE (\E x \in {"threw", "returned"} : op' = OpAt(c, x, 0)) /\ UNCHANGED <<inbox, deliveries, checking>>
  <2>1. PICK x \in {"threw", "returned"} : op' = OpAt(c, x, 0)
    BY <1>3
  <2>2. AnswersPane(c, p, x, 0) /\ Extends
    BY <1>3, <2>1 DEF AnswersPane, Extends, Holding, AnswerInv
  <2>3. Holding'
    BY <1>1, <1>3, <2>2, AnswerHolding
  <2>4. QED
    BY <1>3, <2>3 DEF Reading
<1>4. ASSUME NEW r \in CurrentRuns(p), NEW a, Answer(c, a, r, inbox, deliveries)
      PROVE  Reading' /\ Holding'
  BY <1>1, <1>2, <1>4, AnswerKeeps
<1>5. ASSUME NEW r \in CurrentRuns(p), NEW a \in ChecksOf(p), a.ack # 0, acknowledgeRunDelivery(c, a, r)
      PROVE  Reading' /\ Holding'
  <2> DEFINE k == a.ack
             given == deliveries[k]
             box == MarkRead(r, given.messages)
             ds == [deliveries EXCEPT ![k].status = "acknowledged"]
  <2>1. k \in DeliveryId /\ k \in got[p]
    BY <1>5 DEF ChecksOf, Holding, AnswerInv
  <2>2. k \in DOMAIN deliveries
    BY <2>1 DEF Holding, HoldersInv, Holds
  <2>3. CASE op' = OpAt(c, "threw", 0) /\ UNCHANGED <<inbox, deliveries, checking>>
    BY <1>3, <2>3
  <2>4. CASE Answer(c, a, r, inbox, deliveries)
    BY <1>4, <2>4
  <2>5. CASE given.run = r /\ given.status = "outstanding" /\ Answer(c, a, r, box, ds)
    <3>1. r \in Run
      BY DEF CurrentRuns
    <3>2. ReadingOf(box, ds)
      BY <2>2, <2>5, AcknowledgeReading DEF MailInv
    <3>3. box \in Box /\ ds \in Seq(Delivery) /\ Closes(ds)
      BY <3>1, MarkReadType, AcknowledgedType DEF MailInv
    <3>4. Len(ds) = Len(deliveries)
      <4> HIDE DEF ds
      <4>1. QED
        BY <1>2, <3>3 DEF Closes
    <3>5. QED
      BY <1>1, <2>5, <3>2, <3>3, <3>4, AnswerKeeps
  <2>6. given.status \in {"outstanding", "acknowledged", "fenced", "deleted"}
    <3>1. given \in Delivery
      BY <2>2, DeliveryFields DEF MailInv
    <3> HIDE DEF given
    <3>2. QED
      BY <3>1 DEF Delivery
  <2>7. \/ op' = OpAt(c, "threw", 0) /\ UNCHANGED <<inbox, deliveries, checking>>
        \/ given.status = "acknowledged" /\ Answer(c, a, r, inbox, deliveries)
        \/ /\ given.run = r /\ given.status \notin {"fenced", "deleted", "acknowledged"}
           /\ Answer(c, a, r, box, ds)
    BY <1>5, Zenon DEF acknowledgeRunDelivery
  <2> HIDE DEF box, ds, given
  <2>8. QED
    BY <2>3, <2>4, <2>5, <2>6, <2>7
<1>6. QED
  <2>1. CASE CurrentRuns(p) = {}
    BY <1>3, <2>1 DEF handleOrchestrationCheck
  <2>2. CASE CurrentRuns(p) # {}
    <3>1. PICK r \in CurrentRuns(p), a \in ChecksOf(p) :
            IF a.ack = 0 THEN Answer(c, a, r, inbox, deliveries) ELSE acknowledgeRunDelivery(c, a, r)
      BY <2>2, Zenon DEF handleOrchestrationCheck
    <3>2. QED
      BY <1>4, <1>5, <3>1
  <2>3. QED
    BY <2>1, <2>2

-----------------------------------------------------------------------------
\* The steps without a check.
LEMMA OtherReading ==
    ASSUME MailInv, Reading,
           \/ \E c \in Call, q \in Request : CallRequest(c, q)
           \/ \E c \in Call : CallEnds(c) \/ WaitEnds(c)
           \/ \E q \in Request : Replay(q) \/ Forget(q)
           \/ \E p \in Pane : PaneReopens(p)
           \/ MailboxRestart
           \/ UNCHANGED mailVars
    PROVE  Reading'
<1>1. UNCHANGED <<inbox, deliveries>>
  BY DEF CallRequest, CallEnds, WaitEnds, Replay, Forget, PaneReopens, MailboxRestart, mailVars, storeVars
<1>2. QED
  BY <1>1 DEF Reading

LEMMA ArriveReading ==
    ASSUME MailInv, Reading,
           \/ \E r \in Run, t \in Type : MessageArrives(r, t)
           \/ \E c \in Call, r \in Run, t \in Type : handleOrchestrationSend(c, r, t)
           \/ \E c \in Call, r \in Run, i \in 1 .. MaxMessages : handleOrchestrationReply(c, r, i)
    PROVE  Reading'
<1>1. deliveries' = deliveries
  BY DEF MessageArrives, handleOrchestrationSend, handleOrchestrationReply
<1>2. MailType /\ inbox \in Box /\ ReadingOf(inbox, deliveries)
  BY DEF MailInv, MailType, Reading
<1>3. ASSUME NEW r \in Run, NEW held
      PROVE  MarkRead(r, held) \in Box /\ ReadingOf(MarkRead(r, held), deliveries)
  BY <1>2, MarkReadType, MarkReadMore, ReadsMoreReading
<1>4. ASSUME NEW r \in Run, NEW t \in Type, NEW settled \in BOOLEAN, NEW box \in Box,
             ReadingOf(box, deliveries), Store(r, t, settled, box)
      PROVE  Reading'
  BY <1>1, <1>2, <1>4, StoreReading
<1>5. CASE \E r \in Run : \E held : inbox' = MarkRead(r, held)
  BY <1>1, <1>3, <1>5 DEF Reading
<1>6. CASE inbox' = inbox
  BY <1>1, <1>6 DEF Reading
<1>7. QED
  BY <1>2, <1>3, <1>4, <1>5, <1>6, Zenon DEF MessageArrives, handleOrchestrationSend, handleOrchestrationReply

LEMMA ResetReading ==
    ASSUME MailInv, NEW c \in Call, handleOrchestrationReset(c)
    PROVE  Reading'
<1>1. /\ inbox' = [r \in Run |-> <<>>]
      /\ deliveries' = [i \in DOMAIN deliveries |->
            [run |-> deliveries[i].run, generation |-> 0, messages |-> {}, status |-> "deleted"]]
  BY DEF handleOrchestrationReset, resetAll, resetMessages
<1>2. \A i \in DOMAIN deliveries' : deliveries'[i].status = "deleted"
  BY <1>1
<1>3. \A r \in Run : inbox'[r] = <<>>
  BY <1>1
<1>4. \A r \in Run : DOMAIN inbox'[r] = {}
  BY <1>3
<1>5. QED
  BY <1>2, <1>4 DEF Reading, ReadingOf, AckedRead, Disjoint, Prefix, Live, Acked

LEMMA RunReading ==
    ASSUME MailInv, Reading, NEW c \in Call, NEW p \in Pane,
           handleOrchestrationRunCreate(c, p) \/ \E r \in Run : handleOrchestrationRunUse(c, p, r)
    PROVE  Reading'
<1>1. CurrentRuns(p) \in SUBSET Run /\ inbox' = inbox
  BY DEF CurrentRuns, handleOrchestrationRunCreate, handleOrchestrationRunUse
<1>2. ASSUME NEW lost \in SUBSET Run, NEW won \in SUBSET Run, Rebind(lost, won, p)
      PROVE  Reading'
  <2>1. Rebound(lost, won, p)
    BY <1>2, RebindFacts DEF MailInv
  <2>2. ASSUME NEW d \in DOMAIN deliveries
        PROVE  \/ deliveries'[d] = deliveries[d]
               \/ /\ deliveries[d].status = "outstanding"
                  /\ deliveries'[d].status \notin {"acknowledged", "outstanding"}
    <3>1. [deliveries[d] EXCEPT !.status = "fenced"].status = "fenced"
      BY DeliveryFields DEF MailInv, Delivery
    <3>2. QED
      BY <2>1, <3>1 DEF Rebound
  <2>3. ReadingOf(inbox, deliveries')
    BY <2>1, <2>2, ClosingReading DEF Rebound, Reading
  <2>4. QED
    BY <1>1, <2>3 DEF Reading
<1>3. CASE handleOrchestrationRunCreate(c, p)
  <2>1. PICK r \in Run : Rebind(CurrentRuns(p), {r}, p)
    BY <1>3 DEF handleOrchestrationRunCreate
  <2>2. {r} \in SUBSET Run
    OBVIOUS
  <2>3. QED
    BY <1>1, <1>2, <2>1, <2>2
<1>4. ASSUME NEW r \in Run, handleOrchestrationRunUse(c, p, r)
      PROVE  Reading'
  <2>1. CASE UNCHANGED deliveries
    BY <1>1, <2>1 DEF Reading
  <2>2. ASSUME NEW won \in {{}, {r}}, Rebind(CurrentRuns(p) \ {r}, won, p)
        PROVE  Reading'
    <3>1. CurrentRuns(p) \ {r} \in SUBSET Run /\ won \in SUBSET Run
      BY <1>1
    <3>2. QED
      BY <1>2, <2>2, <3>1
  <2>3. QED
    BY <1>4, <2>1, <2>2 DEF handleOrchestrationRunUse
<1>5. QED
  BY <1>3, <1>4

-----------------------------------------------------------------------------
DeliveryInv == MailInv /\ Reading /\ Holding

\* Pages are beginnings of what was unread and share nothing, and an open
\* delivery is known to nobody but the consumer of its run.
THEOREM DeliveryInvariant == MailboxSpec => []DeliveryInv
<1>1. MailboxInit => DeliveryInv
  BY ExecutorInit, MailInit, ConsumerInit, HoldingInit DEF DeliveryInv, MailInv
<1>2. DeliveryInv /\ [MailboxNext]_mailVars => DeliveryInv'
  <2> SUFFICES ASSUME MailInv, Reading, Holding, [MailboxNext]_mailVars
               PROVE  Reading' /\ Holding'
    BY MailStep DEF DeliveryInv
  <2>1. CASE \/ \E r \in Run, t \in Type : MessageArrives(r, t)
             \/ \E c \in Call, r \in Run, t \in Type : handleOrchestrationSend(c, r, t)
             \/ \E c \in Call, r \in Run, i \in 1 .. MaxMessages : handleOrchestrationReply(c, r, i)
    BY <2>1, ArriveReading, ArriveHolding
  <2>2. CASE \/ \E c \in Call, q \in Request : CallRequest(c, q)
             \/ \E c \in Call : CallEnds(c) \/ WaitEnds(c)
             \/ \E q \in Request : Replay(q) \/ Forget(q)
             \/ \E p \in Pane : PaneReopens(p)
             \/ MailboxRestart
             \/ UNCHANGED mailVars
    BY <2>2, OtherReading, QuietHolding
  <2>3. ASSUME NEW c \in Call, ResumeCheck(c) \/ handleOrchestrationReset(c)
        PROVE  Reading' /\ Holding'
    BY <2>3, ResumeKeeps, ResetReading, ResetHolding
  <2>4. ASSUME NEW c \in Call, NEW p \in Pane,
               \/ handleOrchestrationCheck(c, p)
               \/ handleOrchestrationRunCreate(c, p) \/ \E r \in Run : handleOrchestrationRunUse(c, p, r)
        PROVE  Reading' /\ Holding'
    BY <2>4, CheckKeeps, RunReading, RunHolding
  <2>5. QED
    BY <2>1, <2>2, <2>3, <2>4 DEF MailboxNext
<1>3. QED
  BY <1>1, <1>2, PTL DEF MailboxSpec

\* Every variable has its type.
THEOREM MailboxTypeTheorem == MailboxSpec => []MailboxTypeOK
<1>1. DeliveryInv => MailboxTypeOK
  <2> SUFFICES ASSUME DeliveryInv
               PROVE  MailboxTypeOK
      OBVIOUS
  <2> USE DEF DeliveryInv, MailInv, ExecutorInv, Holding
  <2>1. ReceiptTypeOK
    BY DEF ExecutorType, OpRecord, ReceiptTypeOK
  <2>2. got \in [Pane -> SUBSET (1 .. MaxDeliveries)]
    <3>1. \A p \in Pane : \A a \in got[p] : a \in DOMAIN deliveries
      BY DEF AnswerInv, HoldersInv, Holds
    <3>2. DOMAIN deliveries = 1..Len(deliveries) /\ Len(deliveries) \in Nat /\ MaxDeliveries \in Nat
      BY MailboxAssumption DEF MailType, MailboxAssumption
    <3>3. DOMAIN deliveries \subseteq 1..MaxDeliveries
      BY <3>2 DEF AnswerInv
    <3>4. \A p \in Pane : got[p] \in SUBSET (1..MaxDeliveries)
      BY <3>1, <3>3
    <3>5. QED
      BY <3>4 DEF AnswerInv
  <2>3. QED
    <3>1. \A c \in Call : UnderWay(c) => checking[c].run \in Run
      BY CheckNamesRun DEF WayInv
    <3>2. QED
      BY <2>1, <2>2, <3>1 DEF MailboxTypeOK, AnswerInv, SentInv, MailType, Box, Message, Delivery, Check
<1>2. QED
  BY <1>1, DeliveryInvariant, PTL

\* What was acknowledged is read, and is handed out by no other delivery.
THEOREM AcknowledgedIsReadTheorem == MailboxSpec => []AcknowledgedIsRead
<1>1. DeliveryInv => AcknowledgedIsRead
  <2> SUFFICES ASSUME DeliveryInv, NEW r \in Run
               PROVE  /\ \A d \in Acked(deliveries, r) : deliveries[d].messages \cap Unread(r, inbox) = {}
                      /\ \A d, e \in {k \in Live(deliveries) : deliveries[k].run = r} :
                            d # e => deliveries[d].messages \cap deliveries[e].messages = {}
      BY DEF AcknowledgedIsRead, Acked, Live
  <2>1. AckedRead(inbox, deliveries) /\ Disjoint(deliveries)
    BY DEF DeliveryInv, Reading, ReadingOf
  <2>2. QED
    BY <2>1 DEF AckedRead, Disjoint, Unread
<1>2. QED
  BY <1>1, DeliveryInvariant, PTL

\* Nothing that was stored before an acknowledged message is unread.
THEOREM AcknowledgedInOrderTheorem == MailboxSpec => []AcknowledgedInOrder
<1>1. DeliveryInv => AcknowledgedInOrder
  <2> SUFFICES ASSUME DeliveryInv, NEW d \in DOMAIN deliveries, deliveries[d].status = "acknowledged",
                      NEW j \in deliveries[d].messages, NEW i \in Unread(deliveries[d].run, inbox)
               PROVE  j < i
      BY DEF AcknowledgedInOrder
  <2> DEFINE r == deliveries[d].run
  <2>1. r \in Run /\ d \in Acked(deliveries, r) /\ d \in Live(deliveries)
    BY DeliveryFields DEF DeliveryInv, MailInv, Acked, Live
  <2>2. i \in DOMAIN inbox[r] /\ ~ inbox[r][i].read
    BY DEF Unread
  <2>3. j \in DOMAIN inbox[r] /\ (i < j => i \in deliveries[d].messages)
    BY <2>1, <2>2 DEF DeliveryInv, Reading, ReadingOf, Prefix
  <2>4. i \notin deliveries[d].messages
    BY <2>1, <2>2 DEF DeliveryInv, Reading, ReadingOf, AckedRead
  <2>5. inbox[r] \in Seq(Message)
    BY <2>1 DEF DeliveryInv, MailInv, MailType, Box
  <2> HIDE DEF r
  <2>6. i \in Nat /\ j \in Nat
    BY <2>2, <2>3, <2>5
  <2>7. QED
    BY <2>3, <2>4, <2>6
<1>2. QED
  BY <1>1, DeliveryInvariant, PTL

\* A delivery reaches one pane, whoever repeats which request.
THEOREM OneReceiverTheorem == MailboxSpec => []OneReceiver
<1>1. DeliveryInv => OneReceiver
  BY DEF DeliveryInv, Holding, HoldersInv, AnswerInv, Holds, OneReceiver
<1>2. QED
  BY <1>1, DeliveryInvariant, PTL

-----------------------------------------------------------------------------
\* The queues that the mailbox implements: their logs, what is read of them, and
\* the pages that are open or acknowledged.
LogOf(box) == [r \in Run |-> [i \in DOMAIN box[r] |-> box[r][i].type]]
SeenOf(box) == [r \in Run |-> {i \in DOMAIN box[r] : box[r][i].read}]
OpenIn(ds, r) == {d \in DOMAIN ds : ds[d].run = r /\ ds[d].status = "outstanding"}
PagesOf(ds) == [r \in Run |-> UNION {ds[d].messages : d \in OpenIn(ds, r)}]
DonesOf(ds) == [r \in Run |-> UNION {ds[d].messages : d \in Acked(ds, r)}]

LEMMA QueuesCount == \A S : Queues!Cardinality(S) = Cardinality(S)
BY Zenon DEF Queues!Cardinality, Cardinality

\* What is unread of a queue is given as the mailbox pages it.
LEMMA NextPageIsPage ==
    ASSUME NEW r \in Run, NEW box, NEW seen, DOMAIN box[r] = DOMAIN inbox[r],
           seen = {i \in DOMAIN box[r] : box[r][i].read}
    PROVE  Queues!NextPage(r, seen) = Page(Unread(r, box))
<1> DEFINE log == [o \in Run |-> [i \in DOMAIN inbox[o] |-> inbox[o][i].type]]
           left == DOMAIN log[r] \ seen
<1>1. DOMAIN log[r] = DOMAIN inbox[r]
  OBVIOUS
<1>2. left = Unread(r, box)
  BY <1>1 DEF Unread
<1>3. Queues!NextPage(r, seen) = {i \in left : Cardinality({j \in left : j < i}) < PageLimit}
  BY QueuesCount DEF Queues!NextPage
<1> HIDE DEF left
<1>4. QED
  BY <1>2, <1>3 DEF Page

LEMMA QueueGives ==
    ASSUME NEW r \in Run, bound[r] # NoPane, UNCHANGED bound,
           LogOf(inbox') = LogOf(inbox), SeenOf(inbox') = SeenOf(inbox), PagesOf(deliveries)[r] = {},
           DonesOf(deliveries') = DonesOf(deliveries),
           PagesOf(deliveries') = [PagesOf(deliveries) EXCEPT ![r] = Page(Unread(r, inbox))]
    PROVE  Queues!Give(r)
<1>1. Queues!NextPage(r, SeenOf(inbox)[r]) = Page(Unread(r, inbox))
  BY NextPageIsPage DEF SeenOf
<1>2. PagesOf(deliveries') = [PagesOf(deliveries) EXCEPT ![r] = Queues!NextPage(r, SeenOf(inbox)[r])]
  BY <1>1
<1>3. QED
  BY <1>2 DEF Queues!Give, PagesOf, SeenOf, LogOf, OpenIn, Outstanding, DonesOf, Acked, Acknowledged

LEMMA QueueAcknowledges ==
    ASSUME NEW r \in Run, bound[r] # NoPane, UNCHANGED bound, PagesOf(deliveries)[r] # {},
           DOMAIN inbox'[r] = DOMAIN inbox[r], LogOf(inbox') = LogOf(inbox),
           SeenOf(inbox') = [SeenOf(inbox) EXCEPT ![r] = @ \cup PagesOf(deliveries)[r]],
           DonesOf(deliveries') = [DonesOf(deliveries) EXCEPT ![r] = @ \cup PagesOf(deliveries)[r]],
           \/ PagesOf(deliveries') = [PagesOf(deliveries) EXCEPT ![r] = {}]
           \/ PagesOf(deliveries') = [PagesOf(deliveries) EXCEPT ![r] = Page(Unread(r, inbox'))]
    PROVE  \E more \in BOOLEAN : Queues!Acknowledge(r, more)
<1> DEFINE seen == SeenOf(inbox)[r] \cup PagesOf(deliveries)[r]
<1>1. seen = {i \in DOMAIN inbox'[r] : inbox'[r][i].read}
  BY DEF SeenOf
<1>2. Queues!NextPage(r, seen) = Page(Unread(r, inbox'))
  <2> HIDE DEF seen
  <2>1. QED
    BY <1>1, NextPageIsPage
<1>3. /\ LogOf(inbox') = LogOf(inbox) /\ bound' = bound
      /\ SeenOf(inbox') = [SeenOf(inbox) EXCEPT ![r] = seen]
  OBVIOUS
<1>4. CASE PagesOf(deliveries') = [PagesOf(deliveries) EXCEPT ![r] = {}]
  <2>1. Queues!Acknowledge(r, FALSE)
    BY <1>3, <1>4 DEF Queues!Acknowledge, PagesOf, SeenOf, LogOf, OpenIn, Outstanding, DonesOf, Acked, Acknowledged
  <2>2. QED
    BY <2>1
<1>5. CASE PagesOf(deliveries') = [PagesOf(deliveries) EXCEPT ![r] = Page(Unread(r, inbox'))]
  <2>1. PagesOf(deliveries') = [PagesOf(deliveries) EXCEPT ![r] = Queues!NextPage(r, seen)]
    BY <1>2, <1>5
  <2>2. Queues!Acknowledge(r, TRUE)
    BY <1>3, <2>1 DEF Queues!Acknowledge, PagesOf, SeenOf, LogOf, OpenIn, Outstanding, DonesOf, Acked, Acknowledged
  <2>3. QED
    BY <2>2
<1>6. QED
  BY <1>4, <1>5

\* A message that is stored is the last of its queue, and others of the queue may
\* be read with it.
LEMMA StoreQueues ==
    ASSUME MailType, NEW r \in Run, NEW t \in Type, NEW settled \in BOOLEAN, NEW box \in Box,
           ReadsMore(box), \A o \in Run : o # r => box[o] = inbox[o],
           Store(r, t, settled, box), UNCHANGED <<bound, deliveries>>
    PROVE  Queues!Post(r, t)
<1> DEFINE m == [type |-> t, read |-> settled]
           n == Len(inbox[r])
           log == [i \in DOMAIN inbox[r] |-> inbox[r][i].type]
<1>1. /\ inbox' = [box EXCEPT ![r] = Append(box[r], m)]
      /\ box[r] \in Seq(Message) /\ inbox[r] \in Seq(Message)
  BY DEF Store, MailType, Box
<1>2. inbox'[r] = Append(box[r], m) /\ \A o \in Run : o # r => inbox'[o] = inbox[o]
  BY <1>1 DEF Box
<1>3. m.type = t
  OBVIOUS
<1> HIDE DEF m
<1>4. /\ DOMAIN inbox'[r] = 1..(n + 1) /\ DOMAIN inbox[r] = 1..n /\ n \in Nat
      /\ \A i \in 1..n : /\ inbox'[r][i].type = inbox[r][i].type
                         /\ inbox[r][i].read => inbox'[r][i].read
      /\ inbox'[r][n + 1] = m
  <2>1. DOMAIN box[r] = DOMAIN inbox[r]
    BY DEF ReadsMore
  <2>2. DOMAIN inbox[r] = 1..n /\ n \in Nat /\ Len(box[r]) = n
    BY <1>1, <2>1
  <2>3. /\ DOMAIN inbox'[r] = 1..(n + 1) /\ inbox'[r][n + 1] = m
        /\ \A i \in 1..n : inbox'[r][i] = box[r][i]
    BY <1>1, <1>2, <2>2
  <2>4. QED
    BY <2>2, <2>3 DEF ReadsMore
<1>5. log \in Seq(Type) /\ Len(log) = n
  <2>0. \A i \in DOMAIN inbox[r] : inbox[r][i] \in Message
    BY <1>1
  <2>1. \A i \in 1..n : inbox[r][i].type \in Type
    BY <1>4, <2>0 DEF Message
  <2>2. log \in [1..n -> Type]
    BY <1>4, <2>1
  <2>3. QED
    BY <1>4, <2>2
<1>6. Append(log, t) = [i \in DOMAIN inbox'[r] |-> inbox'[r][i].type]
  <2>1. \A i \in 1..n : log[i] = inbox[r][i].type
    BY <1>4
  <2> HIDE DEF log
  <2> DEFINE longer == Append(log, t)
  <2>2. /\ longer \in Seq(Type) /\ Len(longer) = n + 1
        /\ \A i \in 1..n : longer[i] = log[i]
        /\ longer[n + 1] = t
    BY <1>4, <1>5
  <2> HIDE DEF longer
  <2>3. longer \in [1..(n + 1) -> Type]
    BY <1>4, <2>2
  <2>4. \A i \in 1..(n + 1) : longer[i] = inbox'[r][i].type
    BY <1>3, <1>4, <2>1, <2>2
  <2>5. longer = [i \in DOMAIN inbox'[r] |-> inbox'[r][i].type]
    BY <1>4, <2>3, <2>4
  <2>6. QED
    BY <2>5 DEF longer
<1>7. LogOf(inbox') = [LogOf(inbox) EXCEPT ![r] = Append(@, t)]
  BY <1>2, <1>6 DEF LogOf
<1> DEFINE seen == {i \in DOMAIN inbox'[r] : inbox'[r][i].read}
<1>8. SeenOf(inbox') = [SeenOf(inbox) EXCEPT ![r] = @ \cup seen]
  <2>1. {i \in DOMAIN inbox[r] : inbox[r][i].read} \subseteq seen
    BY <1>4
  <2>2. \A o \in Run : o # r =>
            {i \in DOMAIN inbox'[o] : inbox'[o][i].read} = {i \in DOMAIN inbox[o] : inbox[o][i].read}
    BY <1>2
  <2>3. QED
    BY <2>1, <2>2 DEF SeenOf
<1>9. seen \in SUBSET DOMAIN LogOf(inbox')[r]
  BY DEF LogOf
<1>10. /\ PagesOf(deliveries') = PagesOf(deliveries) /\ DonesOf(deliveries') = DonesOf(deliveries)
       /\ bound' = bound
  OBVIOUS
<1> HIDE DEF seen
<1>11. QED
  BY <1>7, <1>8, <1>9, <1>10
     DEF Queues!Post, PagesOf, SeenOf, LogOf, OpenIn, Outstanding, DonesOf, Acked, Acknowledged

\* Messages of a run that are read aside.
LEMMA MarkReadQueues ==
    ASSUME MailType, NEW r \in Run, NEW held
    PROVE  /\ LogOf(MarkRead(r, held)) = LogOf(inbox)
           /\ held \subseteq DOMAIN inbox[r] =>
                SeenOf(MarkRead(r, held)) = [SeenOf(inbox) EXCEPT ![r] = @ \cup held]
<1> DEFINE box == MarkRead(r, held)
<1>1. \A o \in Run : /\ DOMAIN box[o] = DOMAIN inbox[o]
                     /\ \A i \in DOMAIN inbox[o] :
                          /\ box[o][i].type = inbox[o][i].type
                          /\ box[o][i].read <=> inbox[o][i].read \/ (o = r /\ i \in held)
  BY MarkReadFacts
<1> HIDE DEF box
<1>2. LogOf(box) = LogOf(inbox)
  BY <1>1 DEF LogOf
<1>3. ASSUME held \subseteq DOMAIN inbox[r]
      PROVE  SeenOf(box) = [SeenOf(inbox) EXCEPT ![r] = @ \cup held]
  <2>1. {i \in DOMAIN box[r] : box[r][i].read} = {i \in DOMAIN inbox[r] : inbox[r][i].read} \cup held
    BY <1>1, <1>3
  <2>2. \A o \in Run : o # r => {i \in DOMAIN box[o] : box[o][i].read} = {i \in DOMAIN inbox[o] : inbox[o][i].read}
    BY <1>1
  <2>3. QED
    BY <2>1, <2>2 DEF SeenOf
<1>4. QED
  BY <1>2, <1>3 DEF box

\* A read of the mailbox gives the open page again, or opens the next one.
LEMMA ReadOpens ==
    ASSUME NEW ds \in Seq(Delivery), NEW r \in Run, NEW c, NEW types, NEW box, NEW s,
           readDelivery(c, r, types, box, ds, s)
    PROVE  \/ deliveries' = ds
           \/ /\ OpenIn(ds, r) = {}
              /\ PagesOf(deliveries') = [PagesOf(ds) EXCEPT ![r] = Page(Unread(r, box))]
              /\ DonesOf(deliveries') = DonesOf(ds)
<1> DEFINE d == [run |-> r, generation |-> generation[r], messages |-> Page(Unread(r, box)),
                 status |-> "outstanding"]
<1>1. CASE OpenIn(ds, r) = {} /\ deliveries' = Append(ds, d)
  <2> DEFINE n == Len(ds) + 1
  <2>1. d.run = r /\ d.status = "outstanding" /\ d.messages = Page(Unread(r, box))
    OBVIOUS
  <2> HIDE DEF d
  <2>2. /\ DOMAIN deliveries' = 1..n /\ DOMAIN ds = 1..Len(ds) /\ Len(ds) \in Nat
        /\ deliveries'[n] = d /\ \A e \in DOMAIN ds : deliveries'[e] = ds[e]
    BY <1>1
  <2> HIDE DEF n
  <2>3. n \in DOMAIN deliveries' /\ \A e \in DOMAIN deliveries' : e \in DOMAIN ds \/ e = n
    BY <2>2 DEF n
  <2>4. DOMAIN ds \subseteq DOMAIN deliveries' /\ n \notin DOMAIN ds
    BY <2>2 DEF n
  <2>5. OpenIn(deliveries', r) = {n}
    BY <1>1, <2>1, <2>2, <2>3, <2>4 DEF OpenIn
  <2>6. \A o \in Run : o # r => OpenIn(deliveries', o) = OpenIn(ds, o)
    BY <2>1, <2>2, <2>3, <2>4 DEF OpenIn
  <2>7. UNION {deliveries'[e].messages : e \in OpenIn(deliveries', r)} = Page(Unread(r, box))
    BY <2>1, <2>2, <2>5
  <2>8. \A o \in Run : o # r => UNION {deliveries'[e].messages : e \in OpenIn(deliveries', o)}
                               = UNION {ds[e].messages : e \in OpenIn(ds, o)}
    BY <2>2, <2>6 DEF OpenIn
  <2>9. PagesOf(deliveries') = [PagesOf(ds) EXCEPT ![r] = Page(Unread(r, box))]
    BY <2>7, <2>8 DEF PagesOf
  <2>10. \A o \in Run : Acked(deliveries', o) = Acked(ds, o)
    BY <2>1, <2>2, <2>3, <2>4 DEF Acked
  <2>11. \A o \in Run : UNION {deliveries'[e].messages : e \in Acked(deliveries', o)}
                            = UNION {ds[e].messages : e \in Acked(ds, o)}
    BY <2>2, <2>10 DEF Acked
  <2>12. DonesOf(deliveries') = DonesOf(ds)
    BY <2>11 DEF DonesOf
  <2>13. QED
    BY <1>1, <2>9, <2>12
<1>2. QED
  BY <1>1, Zenon DEF readDelivery, OpenIn

\* An acknowledgement closes the page of its run.
LEMMA AcknowledgedPage ==
    ASSUME MailType, OneOutstanding(deliveries, generation), NEW k \in DOMAIN deliveries,
           deliveries[k].status = "outstanding"
    PROVE  LET r == deliveries[k].run
               ds == [deliveries EXCEPT ![k].status = "acknowledged"]
           IN  /\ PagesOf(deliveries)[r] = deliveries[k].messages
               /\ PagesOf(ds) = [PagesOf(deliveries) EXCEPT ![r] = {}]
               /\ DonesOf(ds) = [DonesOf(deliveries) EXCEPT ![r] = @ \cup deliveries[k].messages]
<1> DEFINE r == deliveries[k].run
           ds == [deliveries EXCEPT ![k].status = "acknowledged"]
<1>1. deliveries[k] \in Delivery /\ r \in Run
  BY DeliveryFields
<1>2. /\ DOMAIN ds = DOMAIN deliveries
      /\ \A d \in DOMAIN deliveries : d # k => ds[d] = deliveries[d]
      /\ ds[k].status = "acknowledged" /\ ds[k].run = r /\ ds[k].messages = deliveries[k].messages
  BY <1>1 DEF MailType, Delivery
<1>3. OpenIn(deliveries, r) = {k}
  BY DEF OpenIn, OneOutstanding
<1> HIDE DEF ds
<1>4. OpenIn(ds, r) = {}
  BY <1>2, <1>3 DEF OpenIn
<1>5. \A o \in Run : o # r => OpenIn(ds, o) = OpenIn(deliveries, o)
  BY <1>2 DEF OpenIn
<1>6. UNION {deliveries[d].messages : d \in OpenIn(deliveries, r)} = deliveries[k].messages
  BY <1>3
<1>7. UNION {ds[d].messages : d \in OpenIn(ds, r)} = {}
  BY <1>4
<1>8. \A o \in Run : o # r => UNION {ds[d].messages : d \in OpenIn(ds, o)}
                             = UNION {deliveries[d].messages : d \in OpenIn(deliveries, o)}
  BY <1>2, <1>5 DEF OpenIn
<1>9. /\ Acked(ds, r) = Acked(deliveries, r) \cup {k} /\ k \notin Acked(deliveries, r)
      /\ \A o \in Run : o # r => Acked(ds, o) = Acked(deliveries, o) /\ k \notin Acked(ds, o)
  BY <1>2 DEF Acked
<1>10. UNION {ds[d].messages : d \in Acked(ds, r)}
          = (UNION {deliveries[d].messages : d \in Acked(deliveries, r)}) \cup deliveries[k].messages
  <2>1. \A d \in Acked(deliveries, r) : ds[d].messages = deliveries[d].messages
    BY <1>2, <1>9 DEF Acked
  <2>2. {ds[d].messages : d \in Acked(ds, r)}
          = {deliveries[d].messages : d \in Acked(deliveries, r)} \cup {deliveries[k].messages}
    BY <1>2, <1>9, <2>1
  <2>3. QED
    BY <2>2
<1>11. ASSUME NEW o \in Run, o # r
       PROVE  UNION {ds[d].messages : d \in Acked(ds, o)}
                = UNION {deliveries[d].messages : d \in Acked(deliveries, o)}
  <2>1. Acked(ds, o) = Acked(deliveries, o) /\ \A d \in Acked(deliveries, o) : ds[d] = deliveries[d]
    BY <1>2, <1>9, <1>11 DEF Acked
  <2>2. QED
    BY <2>1
<1>12. DonesOf(ds) = [DonesOf(deliveries) EXCEPT ![r] = @ \cup deliveries[k].messages]
  BY <1>10, <1>11 DEF DonesOf
<1>13. QED
  BY <1>1, <1>6, <1>7, <1>8, <1>12 DEF PagesOf, ds

\* What the queues see of a step.
QueueStep == \/ Queues!QueuesNext
             \/ /\ LogOf(inbox') = LogOf(inbox) /\ SeenOf(inbox') = SeenOf(inbox)
                /\ bound' = bound /\ PagesOf(deliveries') = PagesOf(deliveries)
                /\ DonesOf(deliveries') = DonesOf(deliveries)

LEMMA GivesNext == \A r \in Run : Queues!Give(r) => QueueStep
BY DEF QueueStep, Queues!QueuesNext

\* A check that acknowledges nothing gives the page of its run.
LEMMA ReadQueues ==
    ASSUME MailType, NEW r \in Run, bound[r] # NoPane, UNCHANGED <<inbox, bound>>,
           NEW c, NEW types, NEW s, readDelivery(c, r, types, inbox, deliveries, s)
    PROVE  QueueStep
<1>1. CASE deliveries' = deliveries
  BY <1>1 DEF QueueStep
<1>2. CASE /\ OpenIn(deliveries, r) = {}
           /\ PagesOf(deliveries') = [PagesOf(deliveries) EXCEPT ![r] = Page(Unread(r, inbox))]
           /\ DonesOf(deliveries') = DonesOf(deliveries)
  <2>1. PagesOf(deliveries)[r] = {}
    BY <1>2 DEF PagesOf
  <2>2. QED
    BY <1>2, <2>1, QueueGives, GivesNext
<1>3. QED
  BY <1>1, <1>2, ReadOpens DEF MailType

LEMMA AnswerReads ==
    ASSUME NEW c, NEW a, NEW r, NEW box, NEW ds, Answer(c, a, r, box, ds)
    PROVE  /\ inbox' = box
           /\ deliveries' = ds \/ \E s : readDelivery(c, r, a.types, box, ds, s)
BY Zenon DEF Answer

\* One that acknowledges the open page reads it, and may be given the next one.
LEMMA AcknowledgeQueues ==
    ASSUME MailInv, Reading, NEW k \in DOMAIN deliveries, deliveries[k].status = "outstanding",
           NEW r \in Run, deliveries[k].run = r, bound[r] # NoPane, UNCHANGED bound, NEW c, NEW a,
           Answer(c, a, r, MarkRead(r, deliveries[k].messages), [deliveries EXCEPT ![k].status = "acknowledged"])
    PROVE  QueueStep
<1> DEFINE held == deliveries[k].messages
           box == MarkRead(r, held)
           ds == [deliveries EXCEPT ![k].status = "acknowledged"]
<1>1. /\ inbox' = box
      /\ deliveries' = ds \/ \E s : readDelivery(c, r, a.types, box, ds, s)
  BY AnswerReads
<1>2. /\ PagesOf(deliveries)[r] = held
      /\ PagesOf(ds) = [PagesOf(deliveries) EXCEPT ![r] = {}]
      /\ DonesOf(ds) = [DonesOf(deliveries) EXCEPT ![r] = @ \cup held]
  BY AcknowledgedPage DEF MailInv, ConsumerInv
<1>3. ds \in Seq(Delivery)
  BY AcknowledgedType DEF MailInv
<1>4. \A o \in Run : /\ DOMAIN box[o] = DOMAIN inbox[o]
                     /\ \A i \in DOMAIN inbox[o] :
                          /\ box[o][i].type = inbox[o][i].type
                          /\ box[o][i].read <=> inbox[o][i].read \/ (o = r /\ i \in held)
  BY MarkReadFacts DEF MailInv
<1>5. held \subseteq DOMAIN inbox[r]
  BY DEF Reading, ReadingOf, Prefix, Live
<1>6. LogOf(box) = LogOf(inbox) /\ SeenOf(box) = [SeenOf(inbox) EXCEPT ![r] = @ \cup held]
  BY <1>5, MarkReadQueues DEF MailInv
<1> HIDE DEF box, ds, held
<1>7. \/ deliveries' = ds
      \/ /\ PagesOf(deliveries') = [PagesOf(ds) EXCEPT ![r] = Page(Unread(r, box))]
         /\ DonesOf(deliveries') = DonesOf(ds)
  BY <1>1, <1>3, ReadOpens
<1>8. DonesOf(deliveries') = [DonesOf(deliveries) EXCEPT ![r] = @ \cup held]
  BY <1>2, <1>7
<1>9. \/ PagesOf(deliveries') = [PagesOf(deliveries) EXCEPT ![r] = {}]
      \/ PagesOf(deliveries') = [PagesOf(deliveries) EXCEPT ![r] = Page(Unread(r, box))]
  <2>1. CASE deliveries' = ds
    BY <1>2, <2>1
  <2>2. CASE PagesOf(deliveries') = [PagesOf(ds) EXCEPT ![r] = Page(Unread(r, box))]
    BY <1>2, <2>2 DEF PagesOf
  <2>3. QED
    BY <1>7, <2>1, <2>2
<1>10. CASE held # {}
  <2>1. DOMAIN inbox'[r] = DOMAIN inbox[r] /\ LogOf(inbox') = LogOf(inbox)
    BY <1>1, <1>4, <1>6
  <2>2. SeenOf(inbox') = [SeenOf(inbox) EXCEPT ![r] = @ \cup PagesOf(deliveries)[r]]
    BY <1>1, <1>2, <1>6
  <2>3. DonesOf(deliveries') = [DonesOf(deliveries) EXCEPT ![r] = @ \cup PagesOf(deliveries)[r]]
    BY <1>2, <1>8
  <2>4. \E more \in BOOLEAN : Queues!Acknowledge(r, more)
    BY <1>1, <1>2, <1>9, <1>10, <2>1, <2>2, <2>3, QueueAcknowledges
  <2>5. QED
    BY <2>4 DEF QueueStep, Queues!QueuesNext
<1>11. CASE held = {}
  <2>1. LogOf(inbox') = LogOf(inbox) /\ SeenOf(inbox') = SeenOf(inbox)
    <3>1. \A o \in Run : {i \in DOMAIN box[o] : box[o][i].read} = {i \in DOMAIN inbox[o] : inbox[o][i].read}
      BY <1>4, <1>11
    <3>2. SeenOf(box) = SeenOf(inbox)
      BY <3>1 DEF SeenOf
    <3>3. QED
      BY <1>1, <1>6, <3>2
  <2>2. Unread(r, box) = Unread(r, inbox) /\ DonesOf(deliveries') = DonesOf(deliveries)
    <3>1. Unread(r, box) = Unread(r, inbox)
      BY <1>4, <1>11 DEF Unread
    <3>2. DonesOf(deliveries)[r] \cup held = DonesOf(deliveries)[r]
      BY <1>11
    <3>3. DonesOf(deliveries') = DonesOf(deliveries)
      BY <1>8, <3>2 DEF DonesOf
    <3>4. QED
      BY <3>1, <3>3
  <2>3. CASE PagesOf(deliveries') = [PagesOf(deliveries) EXCEPT ![r] = {}]
    <3>1. PagesOf(deliveries') = PagesOf(deliveries)
      BY <1>2, <1>11, <2>3 DEF PagesOf
    <3>2. QED
      BY <2>1, <2>2, <3>1 DEF QueueStep
  <2>4. CASE PagesOf(deliveries') = [PagesOf(deliveries) EXCEPT ![r] = Page(Unread(r, box))]
    BY <1>2, <1>11, <2>1, <2>2, <2>4, QueueGives, GivesNext
  <2>5. QED
    BY <1>9, <2>3, <2>4
<1>12. QED
  BY <1>10, <1>11

LEMMA CheckQueues ==
    ASSUME MailInv, Reading, Holding, NEW c \in Call, NEW p \in Pane, handleOrchestrationCheck(c, p)
    PROVE  QueueStep
<1>1. UNCHANGED bound
  BY DEF handleOrchestrationCheck
<1>2. CASE UNCHANGED <<inbox, deliveries>>
  BY <1>1, <1>2 DEF QueueStep
<1>3. ASSUME NEW r \in CurrentRuns(p), NEW a, Answer(c, a, r, inbox, deliveries)
      PROVE  QueueStep
  <2>1. r \in Run /\ bound[r] # NoPane
    BY MailboxAssumption DEF MailboxAssumption, CurrentRuns
  <2>2. inbox' = inbox /\ (deliveries' = deliveries \/ \E s : readDelivery(c, r, a.types, inbox, deliveries, s))
    BY <1>3, AnswerReads
  <2>3. QED
    BY <1>1, <1>2, <2>1, <2>2, ReadQueues DEF MailInv
<1>4. ASSUME NEW r \in CurrentRuns(p), NEW a \in ChecksOf(p), a.ack # 0, acknowledgeRunDelivery(c, a, r)
      PROVE  QueueStep
  <2> DEFINE k == a.ack
             given == deliveries[k]
             box == MarkRead(r, given.messages)
             ds == [deliveries EXCEPT ![k].status = "acknowledged"]
  <2>1. k \in DeliveryId /\ k \in got[p]
    BY <1>4 DEF ChecksOf, Holding, AnswerInv
  <2>2. k \in DOMAIN deliveries
    BY <2>1 DEF Holding, HoldersInv, Holds
  <2>3. given.status \in {"outstanding", "acknowledged", "fenced", "deleted"}
    <3>1. given \in Delivery
      BY <2>2, DeliveryFields DEF MailInv
    <3> HIDE DEF given
    <3>2. QED
      BY <3>1 DEF Delivery
  <2>4. CASE given.run = r /\ given.status = "outstanding" /\ Answer(c, a, r, box, ds)
    <3>1. r \in Run /\ bound[r] # NoPane
      BY MailboxAssumption DEF MailboxAssumption, CurrentRuns
    <3>2. QED
      BY <1>1, <2>2, <2>4, <3>1, AcknowledgeQueues
  <2>5. \/ UNCHANGED <<inbox, deliveries>>
        \/ Answer(c, a, r, inbox, deliveries)
        \/ /\ given.run = r /\ given.status \notin {"fenced", "deleted", "acknowledged"}
           /\ Answer(c, a, r, box, ds)
    BY <1>4, Zenon DEF acknowledgeRunDelivery
  <2> HIDE DEF box, ds, given
  <2>6. QED
    BY <1>2, <1>3, <2>3, <2>4, <2>5
<1>5. QED
  <2>1. CASE CurrentRuns(p) = {}
    BY <1>2, <2>1 DEF handleOrchestrationCheck
  <2>2. CASE CurrentRuns(p) # {}
    <3>1. PICK r \in CurrentRuns(p), a \in ChecksOf(p) :
            IF a.ack = 0 THEN Answer(c, a, r, inbox, deliveries) ELSE acknowledgeRunDelivery(c, a, r)
      BY <2>2, Zenon DEF handleOrchestrationCheck
    <3>2. QED
      BY <1>3, <1>4, <3>1
  <2>3. QED
    BY <2>1, <2>2

\* A check that wakes up for the generation of its run does so for its consumer.
LEMMA ResumeQueues ==
    ASSUME MailInv, Holding, NEW c \in Call, ResumeCheck(c)
    PROVE  QueueStep
<1> DEFINE r == checking[c].run
<1>1. UNCHANGED <<inbox, bound>> /\ op[c].at \in {"notified", "cancelled", "refused"} /\ r \in Run
  BY DEF ResumeCheck
<1>2. CASE UNCHANGED deliveries
  BY <1>1, <1>2 DEF QueueStep
<1>3. CASE generation[r] = checking[c].generation /\ readDelivery(c, r, Filter(c), inbox, deliveries, "returned")
  <2>1. bound[r] \in Pane
    BY <1>1, <1>3 DEF Holding, WayInv, UnderWay
  <2>2. bound[r] # NoPane
    BY <2>1, MailboxAssumption DEF MailboxAssumption
  <2>3. QED
    BY <1>1, <1>3, <2>2, ReadQueues DEF MailInv
<1>4. QED
  BY <1>2, <1>3, Zenon DEF ResumeCheck

\* A run changes hands with its page.
LEMMA RebindQueues ==
    ASSUME MailInv, NEW lost \in SUBSET Run, NEW won \in SUBSET Run, NEW p \in Pane,
           Rebind(lost, won, p), UNCHANGED inbox
    PROVE  QueueStep
<1> DEFINE moved == lost \cup won
<1>1. Rebound(lost, won, p)
  BY RebindFacts DEF MailInv
<1>2. ASSUME NEW d \in DOMAIN deliveries
      PROVE  IF deliveries[d].run \in moved /\ deliveries[d].status = "outstanding"
             THEN deliveries'[d].status # "outstanding" ELSE deliveries'[d] = deliveries[d]
  <2>1. [deliveries[d] EXCEPT !.status = "fenced"].status = "fenced"
    BY DeliveryFields DEF MailInv, Delivery
  <2>2. QED
    BY <1>1, <2>1 DEF Rebound
<1>3. ASSUME NEW r \in Run
      PROVE  UNION {deliveries'[d].messages : d \in OpenIn(deliveries', r)}
                = IF r \in moved THEN {} ELSE UNION {deliveries[d].messages : d \in OpenIn(deliveries, r)}
  <2>1. DOMAIN deliveries' = DOMAIN deliveries
    BY <1>1 DEF Rebound
  <2>2. \A d \in DOMAIN deliveries : deliveries'[d].run = deliveries[d].run
    BY <1>1, DeliveryFields DEF Rebound, MailInv, Delivery
  <2> HIDE DEF moved
  <2>3. CASE r \in moved
    <3>1. OpenIn(deliveries', r) = {}
      BY <1>2, <2>1, <2>2, <2>3 DEF OpenIn
    <3>2. QED
      BY <2>3, <3>1
  <2>4. CASE r \notin moved
    <3>1. \A d \in DOMAIN deliveries : deliveries[d].run = r => deliveries'[d] = deliveries[d]
      BY <1>2, <2>4
    <3>2. OpenIn(deliveries', r) = OpenIn(deliveries, r)
      BY <2>1, <2>2, <3>1 DEF OpenIn
    <3>3. \A d \in OpenIn(deliveries, r) : deliveries'[d].messages = deliveries[d].messages
      BY <3>1 DEF OpenIn
    <3>4. QED
      BY <2>4, <3>2, <3>3
  <2>5. QED
    BY <2>3, <2>4
<1>4. PagesOf(deliveries') = [r \in Run |-> IF r \in moved THEN {} ELSE PagesOf(deliveries)[r]]
  BY <1>3 DEF PagesOf
<1>5. DonesOf(deliveries') = DonesOf(deliveries)
  <2>1. DOMAIN deliveries' = DOMAIN deliveries
    BY <1>1 DEF Rebound
  <2>2. ASSUME NEW d \in DOMAIN deliveries
        PROVE  \/ deliveries'[d] = deliveries[d]
               \/ deliveries[d].status = "outstanding" /\ deliveries'[d].status = "fenced"
    <3>1. [deliveries[d] EXCEPT !.status = "fenced"].status = "fenced"
      BY DeliveryFields DEF MailInv, Delivery
    <3>2. QED
      BY <1>1, <3>1 DEF Rebound
  <2>3. \A r \in Run : /\ Acked(deliveries', r) = Acked(deliveries, r)
                      /\ \A d \in Acked(deliveries, r) : deliveries'[d].messages = deliveries[d].messages
    BY <2>1, <2>2 DEF Acked
  <2>4. \A r \in Run : UNION {deliveries'[d].messages : d \in Acked(deliveries', r)}
                         = UNION {deliveries[d].messages : d \in Acked(deliveries, r)}
    BY <2>3
  <2>5. QED
    BY <2>4 DEF DonesOf
<1>6. /\ bound' \in [Run -> Pane \cup {NoPane}]
      /\ \A r \in Run : IF r \in moved THEN bound'[r] \in {p, NoPane} ELSE bound'[r] = bound[r]
  BY <1>1 DEF Rebound
<1>7. moved \in SUBSET Run
  OBVIOUS
<1> HIDE DEF moved
<1>8. Queues!HandOver(moved, p)
  BY <1>4, <1>6, <1>5 DEF Queues!HandOver, PagesOf, OpenIn, Outstanding, DonesOf, Acked, Acknowledged
<1>9. QED
  BY <1>7, <1>8 DEF QueueStep, Queues!QueuesNext

LEMMA RunQueues ==
    ASSUME MailInv, NEW c \in Call, NEW p \in Pane,
           handleOrchestrationRunCreate(c, p) \/ \E r \in Run : handleOrchestrationRunUse(c, p, r)
    PROVE  QueueStep
<1>1. CurrentRuns(p) \in SUBSET Run /\ inbox' = inbox
  BY DEF CurrentRuns, handleOrchestrationRunCreate, handleOrchestrationRunUse
<1>2. CASE handleOrchestrationRunCreate(c, p)
  <2>1. PICK r \in Run : Rebind(CurrentRuns(p), {r}, p)
    BY <1>2 DEF handleOrchestrationRunCreate
  <2>2. {r} \in SUBSET Run
    OBVIOUS
  <2>3. QED
    BY <1>1, <2>1, <2>2, RebindQueues
<1>3. ASSUME NEW r \in Run, handleOrchestrationRunUse(c, p, r)
      PROVE  QueueStep
  <2>1. CASE UNCHANGED <<bound, deliveries>>
    BY <1>1, <2>1 DEF QueueStep
  <2>2. ASSUME NEW won \in {{}, {r}}, Rebind(CurrentRuns(p) \ {r}, won, p)
        PROVE  QueueStep
    <3>1. CurrentRuns(p) \ {r} \in SUBSET Run /\ won \in SUBSET Run
      BY <1>1
    <3>2. QED
      BY <1>1, <2>2, <3>1, RebindQueues
  <2>3. QED
    BY <1>3, <2>1, <2>2 DEF handleOrchestrationRunUse
<1>4. QED
  BY <1>2, <1>3

LEMMA ResetQueues ==
    ASSUME NEW c \in Call, handleOrchestrationReset(c)
    PROVE  QueueStep
<1>1. /\ inbox' = [r \in Run |-> <<>>]
      /\ deliveries' = [i \in DOMAIN deliveries |->
            [run |-> deliveries[i].run, generation |-> 0, messages |-> {}, status |-> "deleted"]]
      /\ bound' \in {bound, [r \in Run |-> NoPane]}
  BY DEF handleOrchestrationReset, resetAll, resetMessages
<1>2. \A r \in Run : inbox'[r] = <<>> /\ DOMAIN inbox'[r] = {}
  BY <1>1
<1>3. LogOf(inbox') = [r \in Run |-> <<>>] /\ SeenOf(inbox') = [r \in Run |-> {}]
  <2>1. \A r \in Run : [i \in DOMAIN inbox'[r] |-> inbox'[r][i].type] = <<>>
    BY <1>2
  <2>2. \A r \in Run : {i \in DOMAIN inbox'[r] : inbox'[r][i].read} = {}
    BY <1>2
  <2>3. QED
    BY <2>1, <2>2 DEF LogOf, SeenOf
<1>4. PagesOf(deliveries') = [r \in Run |-> {}] /\ DonesOf(deliveries') = [r \in Run |-> {}]
  <2>1. \A i \in DOMAIN deliveries' : deliveries'[i].status = "deleted"
    BY <1>1
  <2>2. \A r \in Run : OpenIn(deliveries', r) = {} /\ Acked(deliveries', r) = {}
    BY <2>1 DEF OpenIn, Acked
  <2>3. QED
    BY <2>2 DEF PagesOf, DonesOf
<1>5. Queues!Clear
  BY <1>1, <1>3, <1>4 DEF Queues!Clear, LogOf, SeenOf, PagesOf, OpenIn, Outstanding, DonesOf, Acked, Acknowledged
<1>6. QED
  BY <1>5 DEF QueueStep, Queues!QueuesNext

\* A reply settles its message, a report the heartbeats before it.
LEMMA ArriveQueues ==
    ASSUME MailInv,
           \/ \E r \in Run, t \in Type : MessageArrives(r, t)
           \/ \E c \in Call, r \in Run, t \in Type : handleOrchestrationSend(c, r, t)
           \/ \E c \in Call, r \in Run, i \in 1 .. MaxMessages : handleOrchestrationReply(c, r, i)
    PROVE  QueueStep
<1>1. UNCHANGED <<bound, deliveries>>
  BY DEF MessageArrives, handleOrchestrationSend, handleOrchestrationReply
<1>2. MailType /\ inbox \in Box /\ ReadsMore(inbox)
  BY DEF MailInv, MailType, ReadsMore
<1>3. ASSUME NEW r \in Run, NEW held
      PROVE  /\ MarkRead(r, held) \in Box /\ ReadsMore(MarkRead(r, held))
             /\ \A o \in Run : o # r => MarkRead(r, held)[o] = inbox[o]
  <2>1. \A o \in Run : o # r => MarkRead(r, held)[o] = inbox[o]
    BY <1>2 DEF MarkRead, Box
  <2>2. QED
    BY <1>2, <2>1, MarkReadType, MarkReadMore
<1>4. ASSUME NEW r \in Run, NEW t \in Type, NEW settled \in BOOLEAN, NEW box \in Box, ReadsMore(box),
             \A o \in Run : o # r => box[o] = inbox[o], Store(r, t, settled, box)
      PROVE  QueueStep
  <2>1. Queues!Post(r, t)
    BY <1>1, <1>2, <1>4, StoreQueues
  <2>2. QED
    BY <2>1 DEF QueueStep, Queues!QueuesNext
<1>5. ASSUME NEW r \in Run, NEW i \in DOMAIN inbox[r], inbox' = MarkRead(r, {i})
      PROVE  QueueStep
  <2>1. LogOf(inbox') = LogOf(inbox) /\ SeenOf(inbox') = [SeenOf(inbox) EXCEPT ![r] = @ \cup {i}]
    BY <1>2, <1>5, MarkReadQueues
  <2>2. i \in DOMAIN LogOf(inbox)[r]
    BY DEF LogOf
  <2>3. PagesOf(deliveries') = PagesOf(deliveries) /\ DonesOf(deliveries') = DonesOf(deliveries)
    BY <1>1
  <2>4. Queues!Settle(r, i)
    BY <1>1, <2>1, <2>2, <2>3
       DEF Queues!Settle, LogOf, SeenOf, PagesOf, OpenIn, Outstanding, DonesOf, Acked, Acknowledged
  <2>5. \E k \in DOMAIN LogOf(inbox)[r] : Queues!Settle(r, k)
    BY <2>2, <2>4
  <2>6. QED
    BY <2>5 DEF QueueStep, Queues!QueuesNext, LogOf
<1>6. CASE inbox' = inbox
  BY <1>1, <1>6 DEF QueueStep
<1>7. ASSUME NEW c \in Call, NEW r \in Run, NEW t \in Type, handleOrchestrationSend(c, r, t)
      PROVE  QueueStep
  <2>1. \/ inbox' = inbox
        \/ \E old : Store(r, t, FALSE, MarkRead(r, old))
        \/ Store(r, t, TRUE, inbox)
    BY <1>7, Zenon DEF handleOrchestrationSend
  <2>2. QED
    BY <1>2, <1>3, <1>4, <1>6, <2>1
<1>8. ASSUME NEW c \in Call, NEW r \in Run, NEW i \in 1 .. MaxMessages, handleOrchestrationReply(c, r, i)
      PROVE  QueueStep
  <2>1. inbox' = inbox \/ (i \in DOMAIN inbox[r] /\ inbox' = MarkRead(r, {i}))
    BY <1>8, Zenon DEF handleOrchestrationReply
  <2>2. QED
    BY <1>5, <1>6, <2>1
<1>9. ASSUME NEW r \in Run, NEW t \in Type, MessageArrives(r, t)
      PROVE  QueueStep
  <2>1. Store(r, t, FALSE, inbox)
    BY <1>9 DEF MessageArrives
  <2>2. QED
    BY <1>2, <1>4, <2>1
<1>10. QED
  BY <1>7, <1>8, <1>9

LEMMA OtherQueues ==
    ASSUME \/ \E c \in Call, q \in Request : CallRequest(c, q)
           \/ \E c \in Call : CallEnds(c) \/ WaitEnds(c)
           \/ \E q \in Request : Replay(q) \/ Forget(q)
           \/ \E p \in Pane : PaneReopens(p)
           \/ MailboxRestart
           \/ UNCHANGED mailVars
    PROVE  QueueStep
<1>1. UNCHANGED <<inbox, bound, deliveries>>
  BY DEF CallRequest, CallEnds, WaitEnds, Replay, Forget, PaneReopens, MailboxRestart, mailVars, storeVars
<1>2. QED
  BY <1>1 DEF QueueStep

\* The mailbox is what MessageQueues says: the consumer of a run is given a page at
\* a time, the first messages that are not read, and what it acknowledges stays
\* read, whatever replies and reports read besides.
THEOREM QueuesTheorem == MailboxSpec => ImplementsQueues
<1>1. MailboxInit => Queues!QueuesInit
  <2> SUFFICES ASSUME MailboxInit
               PROVE  Queues!QueuesInit
      OBVIOUS
  <2>1. inbox = [r \in Run |-> <<>>] /\ deliveries = <<>> /\ bound = [r \in Run |-> NoPane]
    BY DEF MailboxInit
  <2>2. \A r \in Run : inbox[r] = <<>> /\ DOMAIN inbox[r] = {} /\ DOMAIN deliveries = {}
    BY <2>1
  <2>3. \A r \in Run : /\ [i \in DOMAIN inbox[r] |-> inbox[r][i].type] = <<>>
                       /\ {i \in DOMAIN inbox[r] : inbox[r][i].read} = {}
                       /\ UNION {deliveries[d].messages : d \in Outstanding(r)} = {}
                       /\ UNION {deliveries[d].messages : d \in Acknowledged(r)} = {}
    BY <2>2 DEF Outstanding, Acknowledged
  <2>4. QED
    BY <2>1, <2>3 DEF Queues!QueuesInit
<1>2. DeliveryInv /\ [MailboxNext]_mailVars => [Queues!QueuesNext]_Queues!queueVars
  <2> SUFFICES ASSUME MailInv, Reading, Holding, [MailboxNext]_mailVars
               PROVE  QueueStep
    BY DEF DeliveryInv, QueueStep, Queues!queueVars, LogOf, SeenOf, PagesOf, OpenIn, Outstanding,
           DonesOf, Acked, Acknowledged
  <2>1. CASE \/ \E r \in Run, t \in Type : MessageArrives(r, t)
             \/ \E c \in Call, r \in Run, t \in Type : handleOrchestrationSend(c, r, t)
             \/ \E c \in Call, r \in Run, i \in 1 .. MaxMessages : handleOrchestrationReply(c, r, i)
    BY <2>1, ArriveQueues
  <2>2. CASE \/ \E c \in Call, q \in Request : CallRequest(c, q)
             \/ \E c \in Call : CallEnds(c) \/ WaitEnds(c)
             \/ \E q \in Request : Replay(q) \/ Forget(q)
             \/ \E p \in Pane : PaneReopens(p)
             \/ MailboxRestart
             \/ UNCHANGED mailVars
    BY <2>2, OtherQueues
  <2>3. ASSUME NEW c \in Call, ResumeCheck(c) \/ handleOrchestrationReset(c)
        PROVE  QueueStep
    BY <2>3, ResumeQueues, ResetQueues
  <2>4. ASSUME NEW c \in Call, NEW p \in Pane,
               \/ handleOrchestrationCheck(c, p)
               \/ handleOrchestrationRunCreate(c, p) \/ \E r \in Run : handleOrchestrationRunUse(c, p, r)
        PROVE  QueueStep
    BY <2>4, CheckQueues, RunQueues
  <2>5. QED
    BY <2>1, <2>2, <2>3, <2>4 DEF MailboxNext
<1>3. QED
  BY <1>1, <1>2, DeliveryInvariant, PTL DEF MailboxSpec, ImplementsQueues, Queues!QueuesSpec
=============================================================================
