---------------------------- MODULE YahooRunProofs ----------------------------
(***************************************************************************)
(* The safety of YahooRun for any messages, limits, destinations, number   *)
(* of events and namespace of the quarantine folder: a name of Inbox means *)
(* one message for ever, and what is moved is a row the scan recorded, so  *)
(* it is what was judged; and the cursor passes no restore that is not     *)
(* learned, of a message it can identify.                                  *)
(***************************************************************************)
EXTENDS YahooRun, FiniteSetTheorems, WellFoundedInduction, TLAPS

AnyName == Nat \X Nat

Folders == {"inbox", "quarantine", "trash"}

Boxes == [folder : {"none", "inbox", "elsewhere", "quarantine", "trash"}, uid : Nat,
          unread : BOOLEAN, flagged : BOOLEAN]

Rows == [message : Messages, decision : {"keep", "threat", "quarantine", "linked"},
         unread : BOOLEAN, complete : BOOLEAN,
         execution : {"none", "moved", "protected", "not_inbox"}, restored : BOOLEAN,
         answer : {"none", "keep"}]

Runs == [pc : {"idle", "collect", "identify", "scan", "select", "mark", "act", "move", "record"},
         session : Nat, to : {"quarantine", "trash"}, found : SUBSET Nat, latest : Nat,
         identities : SUBSET Messages, markers : SUBSET AnyName, todo : SUBSET AnyName,
         name : AnyName, outcome : {"none", "move", "moved", "protected", "not_inbox"}]

\* The mailbox: what has come into Inbox or been filed was an event each time, so
\* numbers are bounded; and a name of Inbox, once given, is of one message.
MailTyped ==
    /\ box \in [Messages -> Boxes]
    /\ server \in [validity : Nat, uid : Nat, filed : Nat]
    /\ events \in 0..MaxEvents
    /\ named \subseteq Folders \X AnyName \X Messages

Counted ==
    /\ server.validity >= 1 /\ server.validity + events <= MaxEvents + 1
    /\ server.uid >= 1 /\ server.uid + events <= MaxEvents + 1
    /\ server.filed >= 1 /\ server.filed + Cardinality(Inbox) + events <= MaxEvents + 1

NamedOnce ==
    \A x, y \in named : x[1] = "inbox" /\ y[1] = "inbox" /\ x[2] = y[2] => x[3] = y[3]

\* Names still to be given are beyond those given.
NamedBefore ==
    \A x \in named :
        IF x[1] = "inbox"
        THEN \/ x[2][1] < server.validity
             \/ x[2][1] = server.validity /\ x[2][2] < server.uid
        ELSE x[2][1] = QuarantineValidity /\ x[2][2] < server.filed

PresentNamed ==
    /\ \A m \in Inbox : <<"inbox", NameOf(m), m>> \in named /\ box[m].uid >= 1
    /\ \A m \in Messages : box[m].folder = "quarantine" =>
         <<"quarantine", FiledName(m), m>> \in named /\ box[m].uid >= 1

MailOK == MailTyped /\ Counted /\ NamedOnce /\ NamedBefore /\ PresentNamed

\* The ledger: every name in it is true, and a link is never scanned again.
LedgerOK ==
    /\ ledger \in [DOMAIN ledger -> Rows]
    /\ DOMAIN ledger \subseteq Names
    /\ NamesAreTrue
    /\ \A n \in DOMAIN ledger : ledger[n].decision = "linked" => ledger[n].complete

\* A row the scan recorded: of a message of Inbox, not of one linked elsewhere.
Judged(n) == n \in DOMAIN ledger /\ ledger[n].decision # "linked"

\* Every move was of a message under its name in Inbox, which had been judged.
MovesNamed ==
    \A move \in moves : <<"inbox", move[1], move[2]>> \in named /\ Judged(move[1])

RunOK ==
    /\ run \in Runs
    /\ run.session <= server.validity
    /\ \A n \in run.todo \cup run.markers : Judged(n)
    /\ Cardinality(run.todo) <= Limit
    /\ run.pc \in {"move", "record"} => Judged(run.name)
    /\ run.pc = "move" => run.name[1] = run.session
    /\ run.pc = "record" => run.outcome # "move" /\ run.outcome # "none"

\* The cursor, and what is behind it.
CursorOK ==
    /\ cursor \in Nat \X Nat
    /\ cursor[1] <= server.validity
    /\ cursor[1] = server.validity => cursor[2] < server.uid

AllRestored(m) ==
    \A n \in DOMAIN ledger :
        ledger[n].message = m /\ ledger[n].execution = "moved" => ledger[n].restored

\* A collection has every new message up to the last it found still to identify, to
\* learn, or learned, but for those that cannot be identified.
Collected ==
    run.pc = "identify" =>
        /\ cursor[1] = run.session
        /\ run.session = server.validity =>
            /\ run.latest < server.uid
            /\ \A m \in Inbox \ Nameless :
                 box[m].uid > cursor[2] /\ box[m].uid <= run.latest =>
                 box[m].uid \in run.found \/ m \in run.identities \/ AllRestored(m)

\* A message being moved is in Inbox under the name it was judged by, or is not in
\* Inbox, or has come back behind no cursor.
Beyond(m) == m \in Inbox /\ cursor[1] = server.validity => box[m].uid > cursor[2]

CallStands ==
    /\ run.pc = "move" =>
         LET m == ledger[run.name].message IN
         (m \in Inbox /\ NameOf(m) = run.name) \/ Beyond(m)
    /\ run.pc = "record" /\ run.outcome = "moved" => Beyond(ledger[run.name].message)

IInv == /\ MailOK /\ LedgerOK /\ MovesNamed /\ RunOK
        /\ CursorOK /\ Collected /\ CallStands /\ LearnedBehindCursor

-----------------------------------------------------------------------------
(***************************************************************************)
(* The mailbox.                                                            *)
(***************************************************************************)
\* What a change of the mailbox means to a run: names stay given, and a message in
\* Inbox that was not there before has a number not given before.
MailNext ==
    /\ named \subseteq named'
    /\ server.validity <= server'.validity
    /\ server'.validity = server.validity =>
        /\ server.uid <= server'.uid
        /\ \A m \in Inbox' : \/ m \in Inbox /\ box'[m].uid = box[m].uid
                            \/ box'[m].uid >= server.uid

LEMMA Numbers ==
    ASSUME MailOK
    PROVE  /\ {server.validity, server.uid, server.filed, events} \subseteq Nat
           /\ server.validity \in 1..(MaxEvents + 1)
           /\ {MaxEvents, QuarantineValidity} \subseteq Nat
           /\ IsFiniteSet(Inbox) /\ Cardinality(Inbox) \in Nat
           /\ \A m \in Messages : box[m] \in Boxes /\ box[m].uid \in Nat
           /\ server = [validity |-> server.validity, uid |-> server.uid, filed |-> server.filed]
<1>1. IsFiniteSet(Inbox)
  BY YahooAssumption, FS_Subset DEF Inbox
<1>2. Cardinality(Inbox) \in Nat
  BY <1>1, FS_CardinalityType
<1> QED
  BY <1>1, <1>2, YahooAssumption DEF MailOK, MailTyped, Counted, Boxes

\* A message in Inbox has one number there, and the number one message.
LEMMA OneAName ==
    ASSUME MailOK
    PROVE  /\ \A m, k \in Inbox : box[m].uid = box[k].uid => m = k
           /\ \A m \in Inbox : box[m].uid \in 1..(server.uid - 1)
<1>1. \A m \in Inbox : <<"inbox", NameOf(m), m>> \in named /\ box[m].uid >= 1
  BY DEF MailOK, PresentNamed
<1>2. ASSUME NEW m \in Inbox, NEW k \in Inbox, box[m].uid = box[k].uid
      PROVE  m = k
  <2>1. NameOf(m) = NameOf(k)
    BY <1>2 DEF NameOf
  <2>2. \A x, y \in named : x[1] = "inbox" /\ y[1] = "inbox" /\ x[2] = y[2] => x[3] = y[3]
    BY DEF MailOK, NamedOnce
  <2>3. <<"inbox", NameOf(m), m>>[3] = <<"inbox", NameOf(k), k>>[3]
    BY <1>1, <2>1, <2>2
  <2> QED
    BY <2>3
<1>3. ASSUME NEW m \in Inbox
      PROVE  box[m].uid \in 1..(server.uid - 1)
  <2>1. server.validity < server.validity \/ box[m].uid < server.uid
    BY <1>1, NameOf(m)[1] = server.validity, NameOf(m)[2] = box[m].uid
       DEF MailOK, NamedBefore, NameOf
  <2>2. m \in Messages /\ box[m].uid \in Nat /\ box[m].uid >= 1
    BY <1>1, Numbers DEF Inbox
  <2>3. server.uid \in Nat /\ server.validity \in Nat
    BY Numbers
  <2> QED
    BY <2>1, <2>2, <2>3
<1> QED
  BY <1>2, <1>3

\* Flags change, or nothing; an event may have happened.
LEMMA FlagsStep ==
    ASSUME MailOK, box' \in [Messages -> Boxes],
           \A m \in Messages : box'[m].folder = box[m].folder /\ box'[m].uid = box[m].uid,
           UNCHANGED <<server, named>>, events' \in 0..events
    PROVE  MailOK' /\ MailNext
<1>1. Inbox' = Inbox /\ \A m \in Messages : NameOf(m)' = NameOf(m)
  BY DEF Inbox, NameOf
<1>2. MailTyped'
  BY Numbers DEF MailOK, MailTyped
<1>3. Counted'
  BY <1>1, Numbers DEF MailOK, Counted
<1>4. NamedOnce' /\ NamedBefore' /\ PresentNamed'
  BY <1>1 DEF MailOK, NamedOnce, NamedBefore, PresentNamed, Inbox, FiledName
<1>5. MailNext
  BY <1>1, Numbers DEF MailNext, Inbox
<1> QED
  BY <1>2, <1>3, <1>4, <1>5 DEF MailOK

LEMMA ToInboxStep ==
    ASSUME MailOK, NEW m \in Messages, ToInbox(m)
    PROVE  MailOK' /\ MailNext
<1> USE DEF ToInbox, Event
<1> DEFINE new == <<"inbox", <<server.validity, server.uid>>, m>>
<1>1. /\ box' = [box EXCEPT ![m] = [box[m] EXCEPT !.folder = "inbox", !.uid = server.uid]]
      /\ server' = [server EXCEPT !.uid = server.uid + 1]
      /\ named' = named \cup {new} /\ events' = events - 1 /\ m \notin Inbox /\ events > 0
  OBVIOUS
<1>2. /\ box'[m].folder = "inbox" /\ box'[m].uid = server.uid /\ box'[m] \in Boxes
      /\ \A k \in Messages \ {m} : box'[k] = box[k]
      /\ box' \in [Messages -> Boxes]
  BY <1>1, Numbers DEF MailOK, MailTyped, Boxes
<1>3. /\ server'.validity = server.validity /\ server'.uid = server.uid + 1
      /\ server'.filed = server.filed
      /\ server' \in [validity : Nat, uid : Nat, filed : Nat]
  BY <1>1, Numbers
<1>4. Inbox' = Inbox \cup {m}
  BY <1>2 DEF Inbox
<1>5. Cardinality(Inbox') = Cardinality(Inbox) + 1
  BY <1>1, <1>4, Numbers, FS_AddElement
<1>6. MailTyped'
  BY <1>1, <1>2, <1>3, Numbers DEF MailOK, MailTyped, AnyName, Folders
<1>7. Counted'
  BY <1>1, <1>3, <1>5, Numbers DEF MailOK, Counted
<1>8. NamedOnce'
  <2>1. \A x \in named : x[1] = "inbox" => x[2] # new[2]
    BY Numbers DEF MailOK, NamedBefore
  <2> QED
    BY <1>1, <2>1 DEF MailOK, NamedOnce
<1>9. NamedBefore'
  <2>1. \A x \in named : x[2][1] \in Nat /\ x[2][2] \in Nat
    BY DEF MailOK, MailTyped, AnyName
  <2> QED
    BY <1>1, <1>3, <2>1, Numbers DEF MailOK, NamedBefore
<1>10. PresentNamed'
  <2>1. \A k \in Messages : NameOf(k)' = <<server.validity, box'[k].uid>>
    BY <1>3 DEF NameOf
  <2> QED
    BY <1>1, <1>2, <1>4, <2>1 DEF MailOK, PresentNamed, NameOf, FiledName, Inbox, Counted
<1>11. MailNext
  BY <1>1, <1>2, <1>3, <1>4, Numbers DEF MailNext, Inbox
<1> QED
  BY <1>6, <1>7, <1>8, <1>9, <1>10, <1>11 DEF MailOK

LEMMA FiledStep ==
    ASSUME MailOK, NEW m \in Inbox, NEW folder \in {"quarantine", "trash"},
           Filed(m, folder), events' \in 0..events
    PROVE  MailOK' /\ MailNext /\ m \notin Inbox'
<1> USE DEF Filed
<1> DEFINE new == <<folder, <<QuarantineValidity, server.filed>>, m>>
<1>0. m \in Messages
  BY DEF Inbox
<1>1. /\ box' = [box EXCEPT ![m] = [box[m] EXCEPT !.folder = folder, !.uid = server.filed]]
      /\ server' = [server EXCEPT !.filed = server.filed + 1]
      /\ named' = named \cup {new}
  OBVIOUS
<1>2. /\ box'[m].folder = folder /\ box'[m].uid = server.filed /\ box'[m] \in Boxes
      /\ \A k \in Messages \ {m} : box'[k] = box[k]
      /\ box' \in [Messages -> Boxes]
  BY <1>0, <1>1, Numbers DEF MailOK, MailTyped, Boxes
<1>3. /\ server'.validity = server.validity /\ server'.uid = server.uid
      /\ server'.filed = server.filed + 1
      /\ server' \in [validity : Nat, uid : Nat, filed : Nat]
  BY <1>1, Numbers
<1>4. Inbox' = Inbox \ {m}
  BY <1>2 DEF Inbox
<1>5. Cardinality(Inbox') = Cardinality(Inbox) - 1
  BY <1>4, Numbers, FS_RemoveElement
<1>6. MailTyped'
  BY <1>0, <1>1, <1>2, <1>3, Numbers DEF MailOK, MailTyped, AnyName, Folders
<1>7. Counted'
  BY <1>3, <1>5, Numbers DEF MailOK, Counted
<1>8. NamedOnce'
  BY <1>1 DEF MailOK, NamedOnce
<1>9. NamedBefore'
  <2>1. \A x \in named : x[2][1] \in Nat /\ x[2][2] \in Nat
    BY DEF MailOK, MailTyped, AnyName
  <2> QED
    BY <1>1, <1>3, <2>1, Numbers DEF MailOK, NamedBefore
<1>10. PresentNamed'
  <2>1. \A k \in Messages : NameOf(k)' = <<server.validity, box'[k].uid>>
    BY <1>3 DEF NameOf
  <2> QED
    BY <1>0, <1>1, <1>2, <1>4, <2>1 DEF MailOK, PresentNamed, NameOf, FiledName, Inbox, Counted
<1>11. MailNext
  BY <1>1, <1>2, <1>3, <1>4, Numbers DEF MailNext, Inbox
<1> QED
  BY <1>4, <1>6, <1>7, <1>8, <1>9, <1>10, <1>11 DEF MailOK

\* The user files a message elsewhere.
LEMMA LeaveStep ==
    ASSUME MailOK, NEW m \in Inbox, events' \in 0..events, UNCHANGED <<server, named>>,
           box' = [box EXCEPT ![m].folder = "elsewhere", ![m].uid = 0]
    PROVE  MailOK' /\ MailNext
<1>0. m \in Messages
  BY DEF Inbox
<1>1. box' = [box EXCEPT ![m] = [box[m] EXCEPT !.folder = "elsewhere", !.uid = 0]]
  BY <1>0, Numbers DEF Boxes
<1>2. /\ box'[m].folder = "elsewhere" /\ box'[m] \in Boxes
      /\ \A k \in Messages \ {m} : box'[k] = box[k]
      /\ box' \in [Messages -> Boxes]
  BY <1>0, <1>1, Numbers DEF MailOK, MailTyped, Boxes
<1>3. Inbox' = Inbox \ {m}
  BY <1>2 DEF Inbox
<1>4. Cardinality(Inbox') = Cardinality(Inbox) - 1
  BY <1>3, Numbers, FS_RemoveElement
<1>5. MailTyped'
  BY <1>2, Numbers DEF MailOK, MailTyped
<1>6. Counted'
  BY <1>4, Numbers DEF MailOK, Counted
<1>7. NamedOnce' /\ NamedBefore'
  BY DEF MailOK, NamedOnce, NamedBefore
<1>8. PresentNamed'
  BY <1>0, <1>2, <1>3 DEF MailOK, PresentNamed, NameOf, FiledName, Inbox
<1>9. MailNext
  BY <1>2, <1>3, Numbers DEF MailNext, Inbox
<1> QED
  BY <1>5, <1>6, <1>7, <1>8, <1>9 DEF MailOK

\* In a new namespace the messages of Inbox are numbered anew in their order.
LEMMA ValidityStep ==
    ASSUME MailOK, ChangeValidity
    PROVE  MailOK' /\ MailNext
<1> DEFINE rank(m) == Cardinality({k \in Inbox : box[k].uid <= box[m].uid})
           new == server.validity + 1
<1>1. /\ box' = [m \in Messages |-> IF m \in Inbox THEN [box[m] EXCEPT !.uid = rank(m)] ELSE box[m]]
      /\ server' = [server EXCEPT !.validity = new, !.uid = Cardinality(Inbox) + 1]
      /\ named' = named \cup {<<"inbox", <<new, box'[m].uid>>, m>> : m \in Inbox}
      /\ events > 0 /\ events' = events - 1
  BY DEF ChangeValidity, Event
<1> HIDE DEF new
<1>0. new \in Nat /\ new > server.validity /\ new <= MaxEvents + 1
  <2>1. server.validity + events <= MaxEvents + 1
    BY DEF MailOK, Counted
  <2> QED
    BY <1>1, <2>1, Numbers DEF new
<1>2. ASSUME NEW m \in Inbox
      PROVE  rank(m) \in 1..Cardinality(Inbox)
  <2> DEFINE upto == {k \in Inbox : box[k].uid <= box[m].uid}
  <2>1. IsFiniteSet(upto) /\ Cardinality(upto) <= Cardinality(Inbox)
    BY Numbers, FS_Subset
  <2>2. Cardinality(upto) \in Nat
    BY <2>1, FS_CardinalityType
  <2>3. m \in upto
    BY Numbers DEF Inbox
  <2>4. Cardinality(upto) # 0
    BY <2>1, <2>3, FS_EmptySet
  <2> QED
    BY <2>1, <2>2, <2>4, Numbers
<1>3. ASSUME NEW m \in Inbox, NEW k \in Inbox, rank(m) = rank(k)
      PROVE  m = k
  <2> DEFINE upto(j) == {i \in Inbox : box[i].uid <= box[j].uid}
  <2>1. \A i, j \in Inbox : box[i].uid <= box[j].uid => upto(i) \subseteq upto(j)
    BY Numbers DEF Inbox
  <2>2. \A j \in Inbox : IsFiniteSet(upto(j)) /\ j \in upto(j)
    BY Numbers, FS_Subset DEF Inbox
  <2>3. \A i, j \in Inbox : upto(i) \subseteq upto(j) /\ rank(i) = rank(j) => upto(i) = upto(j)
    BY <2>2, FS_Subset
  <2>4. upto(m) = upto(k)
    <3>1. box[m].uid <= box[k].uid \/ box[k].uid <= box[m].uid
      BY Numbers DEF Inbox
    <3> QED
      BY <1>3, <2>1, <2>3, <3>1
  <2>5. box[m].uid <= box[k].uid /\ box[k].uid <= box[m].uid
    BY <2>2, <2>4
  <2>6. box[m].uid \in Nat /\ box[k].uid \in Nat
    BY Numbers DEF Inbox
  <2>7. box[m].uid = box[k].uid
    BY <2>5, <2>6
  <2> QED
    BY <2>7, OneAName
<1> HIDE DEF rank
<1>4. /\ server'.validity = new /\ server'.uid = Cardinality(Inbox) + 1
      /\ server'.filed = server.filed
      /\ server' \in [validity : Nat, uid : Nat, filed : Nat]
  <2>1. Cardinality(Inbox) + 1 \in Nat /\ server.filed \in Nat
    BY Numbers
  <2>2. server = [validity |-> server.validity, uid |-> server.uid, filed |-> server.filed]
    BY Numbers
  <2>3. server' = [validity |-> new, uid |-> Cardinality(Inbox) + 1, filed |-> server.filed]
    BY <1>1, <2>2
  <2> QED
    BY <1>0, <2>1, <2>3
<1>5. /\ \A m \in Messages \ Inbox : box'[m] = box[m]
      /\ \A m \in Inbox : box'[m].folder = "inbox" /\ box'[m].uid = rank(m) /\ box'[m] \in Boxes
  BY <1>1, <1>2, Numbers DEF Boxes, Inbox
<1>6. box' \in [Messages -> Boxes]
  BY <1>1, <1>5, Numbers DEF Inbox
<1>7. Inbox' = Inbox
  BY <1>5 DEF Inbox
<1>8. \A x \in named' : x \in named \/ \E m \in Inbox : x = <<"inbox", <<new, rank(m)>>, m>>
  BY <1>1, <1>5
<1>9. \A x \in named : x[1] = "inbox" => x[2][1] # new
  <2>1. \A x \in named : x[2][1] \in Nat
    BY DEF MailOK, MailTyped, AnyName
  <2>2. server.validity \in Nat
    BY Numbers
  <2> QED
    BY <1>0, <2>1, <2>2 DEF MailOK, NamedBefore
<1>10. MailTyped'
  <2>1. named' \subseteq Folders \X AnyName \X Messages
    <3>1. \A m \in Inbox : rank(m) \in Nat /\ m \in Messages
      BY <1>2, Numbers DEF Inbox
    <3> QED
      BY <1>0, <1>8, <3>1 DEF MailOK, MailTyped, AnyName, Folders
  <2>2. events' \in 0..MaxEvents
    BY <1>1, Numbers DEF MailOK, MailTyped
  <2> QED
    BY <1>4, <1>6, <2>1, <2>2 DEF MailTyped
<1>11. Counted'
  <2>1. /\ server.validity + events <= MaxEvents + 1
        /\ server.filed >= 1 /\ server.filed + Cardinality(Inbox) + events <= MaxEvents + 1
    BY DEF MailOK, Counted
  <2>2. /\ server.validity \in Nat /\ server.filed \in Nat /\ events \in Nat
        /\ Cardinality(Inbox) \in Nat /\ MaxEvents \in Nat
    BY Numbers
  <2>3. new + events' <= MaxEvents + 1 /\ new >= 1
    BY <1>1, <2>1, <2>2 DEF new
  <2>4. /\ Cardinality(Inbox) + 1 + events' <= MaxEvents + 1
        /\ server.filed + Cardinality(Inbox) + events' <= MaxEvents + 1
    BY <1>1, <2>1, <2>2
  <2> QED
    BY <1>4, <1>7, <2>1, <2>2, <2>3, <2>4 DEF Counted
<1>12. NamedOnce'
  <2> SUFFICES ASSUME NEW x \in named', NEW y \in named',
                      x[1] = "inbox", y[1] = "inbox", x[2] = y[2]
               PROVE  x[3] = y[3]
    BY DEF NamedOnce
  <2>1. CASE x \in named /\ y \in named
    BY <2>1 DEF MailOK, NamedOnce
  <2>2. CASE x \notin named \/ y \notin named
    <3>1. x[2][1] = new /\ y[2][1] = new
      BY <1>8, <2>2
    <3>2. PICK m \in Inbox : x = <<"inbox", <<new, rank(m)>>, m>>
      BY <1>8, <1>9, <3>1
    <3>3. PICK k \in Inbox : y = <<"inbox", <<new, rank(k)>>, k>>
      BY <1>8, <1>9, <3>1
    <3>4. rank(m) = rank(k)
      BY <3>2, <3>3
    <3> QED
      BY <1>3, <3>2, <3>3, <3>4
  <2> QED
    BY <2>1, <2>2
<1>13. NamedBefore'
  <2> SUFFICES ASSUME NEW x \in named'
               PROVE  IF x[1] = "inbox"
                      THEN x[2][1] < new \/ (x[2][1] = new /\ x[2][2] < server'.uid)
                      ELSE x[2][1] = QuarantineValidity /\ x[2][2] < server.filed
    BY <1>4 DEF NamedBefore
  <2>1. CASE x \in named
    <3>1. x[2][1] \in Nat /\ server.validity \in Nat
      BY <2>1, Numbers DEF MailOK, MailTyped, AnyName
    <3> QED
      BY <1>0, <2>1, <3>1 DEF MailOK, NamedBefore
  <2>2. ASSUME NEW m \in Inbox, x = <<"inbox", <<new, rank(m)>>, m>>
        PROVE  x[1] = "inbox" /\ x[2][1] = new /\ x[2][2] < server'.uid
    BY <1>2, <1>4, <2>2, Numbers
  <2> QED
    BY <1>8, <2>1, <2>2
<1>14. PresentNamed'
  <2>1. \A m \in Messages : NameOf(m)' = <<new, box'[m].uid>>
    BY <1>4 DEF NameOf
  <2>2. \A m \in Messages : box'[m].folder = "quarantine" => box'[m] = box[m] /\ m \notin Inbox
    BY <1>5 DEF Inbox
  <2>3. \A m \in Inbox : <<"inbox", NameOf(m)', m>> \in named' /\ box'[m].uid >= 1
    BY <1>1, <1>2, <1>5, <2>1, Numbers DEF Inbox
  <2>4. named \subseteq named'
    BY <1>1
  <2> QED
    BY <1>7, <2>2, <2>3, <2>4 DEF MailOK, PresentNamed, FiledName
<1>15. MailNext
  BY <1>0, <1>1, <1>4, Numbers DEF MailNext
<1> QED
  BY <1>10, <1>11, <1>12, <1>13, <1>14, <1>15 DEF MailOK

-----------------------------------------------------------------------------
(***************************************************************************)
(* The ledger.                                                             *)
(***************************************************************************)
\* Every step of the system leaves the mailbox numbered.
LEMMA MailSteps ==
    ASSUME MailOK, RunOK, [Next]_vars
    PROVE  MailOK' /\ MailNext
<1>0. events \in 0..events /\ (events > 0 => events - 1 \in 0..events)
  BY Numbers
<1>1. ASSUME UNCHANGED <<box, server, named>>, events' \in 0..events
      PROVE  MailOK' /\ MailNext
  BY <1>1, FlagsStep DEF MailOK, MailTyped
<1>2. CASE Mark \/ MarkFails
  <2>1. UNCHANGED <<server, named>> /\ events' \in 0..events
    BY <1>0, <1>2 DEF Mark, MarkFails, Event
  <2>2. CASE box' = box
    BY <1>1, <2>1, <2>2
  <2>3. ASSUME NEW n, box' = [m \in Messages |->
                 IF m \in Inbox /\ NameOf(m) = n THEN [box[m] EXCEPT !.flagged = TRUE]
                 ELSE box[m]]
        PROVE  MailOK' /\ MailNext
    <3>1. \A m \in Messages : /\ box'[m] \in Boxes
                              /\ box'[m].folder = box[m].folder /\ box'[m].uid = box[m].uid
      BY <2>3, Numbers DEF Boxes
    <3>2. box' \in [Messages -> Boxes]
      BY <2>3, <3>1
    <3> QED
      BY <2>1, <3>1, <3>2, FlagsStep
  <2> QED
    BY <1>2, <2>2, <2>3 DEF Mark, MarkFails
<1>3. CASE Move
  <2>1. events' \in 0..events
    BY <1>0, <1>3 DEF Move, Event
  <2>2. CASE At(run.name[2]) = {}
    BY <1>1, <1>3, <2>1, <2>2 DEF Move
  <2>3. CASE At(run.name[2]) # {}
    <3>1. PICK m \in At(run.name[2]) : Filed(m, run.to)
      BY <1>3, <2>3 DEF Move
    <3>2. m \in Inbox /\ run.to \in {"quarantine", "trash"}
      BY DEF At, RunOK, Runs
    <3> QED
      BY <2>1, <3>1, <3>2, FiledStep
  <2> QED
    BY <2>2, <2>3
<1>4. ASSUME NEW m \in Messages,
             \/ Arrive(m) \/ PutBack(m) \/ UserActs(m) \/ FileInQuarantine(m)
             \/ LinkInQuarantine(m) \/ AnswerInQuarantine(m)
      PROVE  MailOK' /\ MailNext
  <2>1. CASE Arrive(m) \/ PutBack(m)
    BY <2>1, ToInboxStep DEF Arrive, PutBack
  <2>2. CASE UserActs(m)
    <3>1. UNCHANGED <<server, named>> /\ events' \in 0..events /\ m \in Inbox
      BY <1>0, <2>2 DEF UserActs, Event
    <3>2. CASE box' = [box EXCEPT ![m].folder = "elsewhere", ![m].uid = 0]
      BY <3>1, <3>2, LeaveStep
    <3>3. ASSUME \/ box' = [box EXCEPT ![m].unread = ~@]
                 \/ box' = [box EXCEPT ![m].flagged = ~@]
          PROVE  MailOK' /\ MailNext
      <4>1. /\ box' \in [Messages -> Boxes]
            /\ \A k \in Messages : box'[k].folder = box[k].folder /\ box'[k].uid = box[k].uid
        <5>1. \E v \in Boxes : /\ v.folder = box[m].folder /\ v.uid = box[m].uid
                              /\ box' = [box EXCEPT ![m] = v]
          <6>1. box[m] \in Boxes
            BY Numbers
          <6>2. (~box[m].unread) \in BOOLEAN /\ (~box[m].flagged) \in BOOLEAN
            OBVIOUS
          <6> DEFINE seen == [box[m] EXCEPT !.unread = ~box[m].unread]
                     starred == [box[m] EXCEPT !.flagged = ~box[m].flagged]
          <6>3. seen \in Boxes /\ seen.folder = box[m].folder /\ seen.uid = box[m].uid
            BY <6>1, <6>2 DEF Boxes
          <6>4. starred \in Boxes /\ starred.folder = box[m].folder /\ starred.uid = box[m].uid
            BY <6>1, <6>2 DEF Boxes
          <6>5. box' = [box EXCEPT ![m] = seen] \/ box' = [box EXCEPT ![m] = starred]
            BY <3>3
          <6> QED
            BY <6>3, <6>4, <6>5
        <5> QED
          BY <5>1 DEF MailOK, MailTyped
      <4> QED
        BY <3>1, <4>1, FlagsStep
    <3> QED
      BY <2>2, <3>2, <3>3 DEF UserActs
  <2>3. CASE FileInQuarantine(m)
    <3>1. m \in Inbox /\ Filed(m, "quarantine") /\ events' \in 0..events
      BY <1>0, <2>3 DEF FileInQuarantine, Event
    <3> QED
      BY <3>1, FiledStep
  <2>4. CASE LinkInQuarantine(m) \/ AnswerInQuarantine(m)
    BY <1>0, <1>1, <2>4 DEF LinkInQuarantine, AnswerInQuarantine, Event
  <2> QED
    BY <1>4, <2>1, <2>2, <2>3, <2>4
<1>5. CASE ChangeValidity
  BY <1>5, ValidityStep
<1>6. CASE \/ OpenReader \/ ResetCursor \/ SearchNew \/ FetchIdentity
           \/ LearnRestored \/ SetCursor \/ Scan \/ Select \/ OpenExecutor
           \/ SkipCandidate \/ Examine \/ RecordOutcome \/ EndRun \/ SessionLost
           \/ Crash \/ (\E n \in DOMAIN ledger : AnswerInInbox(n)) \/ UNCHANGED vars
  <2>1. UNCHANGED <<box, server, named>> /\ (UNCHANGED events \/ Event)
    BY <1>6 DEF OpenReader, ResetCursor, SearchNew, FetchIdentity, LearnRestored, SetCursor,
                Scan, Select, OpenExecutor, SkipCandidate, Examine, RecordOutcome, EndRun,
                SessionLost, Crash, AnswerInInbox, vars
  <2> QED
    BY <1>0, <1>1, <2>1 DEF Event
<1> QED
  BY <1>2, <1>3, <1>4, <1>5, <1>6 DEF Next, RunStep

\* Rows are never dropped, given to another message or made links; and unless a step records an
\* outcome, no message gets an execution, or loses a restore that was learned.
LedgerNext ==
    /\ DOMAIN ledger \subseteq DOMAIN ledger'
    /\ \A n \in DOMAIN ledger : ledger'[n].message = ledger[n].message
    /\ \A n : Judged(n) => Judged(n)'

LedgerKept ==
    \A n \in DOMAIN ledger' : ledger'[n].execution = "moved" =>
        /\ n \in DOMAIN ledger /\ ledger[n].execution = "moved"
        /\ ledger[n].restored => ledger'[n].restored

\* The names the server has given so far are those the ledger can hold: a finite set.
LEMMA NamesFinite == IsFiniteSet(Names) /\ Names \subseteq AnyName
<1>1. MaxEvents + 1 \in Nat /\ QuarantineValidity \in Nat
  BY YahooAssumption
<1>2. IsFiniteSet(1..(MaxEvents + 1))
  BY <1>1, FS_Interval
<1>3. IsFiniteSet((1..(MaxEvents + 1)) \cup {QuarantineValidity})
  BY <1>2, FS_AddElement
<1> QED
  BY <1>1, <1>2, <1>3, FS_Product DEF Names, AnyName

LEMMA RowTyped ==
    ASSUME MailOK, LedgerOK, NEW m \in Messages, NEW name
    PROVE  /\ Row(m, name) \in Rows
           /\ Row(m, name).message = m /\ Row(m, name).complete
           /\ Row(m, name).decision # "linked"
           /\ name \in DOMAIN ledger => /\ Row(m, name).execution = ledger[name].execution
                                        /\ Row(m, name).restored = ledger[name].restored
           /\ name \notin DOMAIN ledger => Row(m, name).execution = "none"
<1>1. box[m] \in Boxes /\ Decision(m) \in {"keep", "threat", "quarantine"}
  BY Numbers DEF Decision
<1>2. name \in DOMAIN ledger => ledger[name] \in Rows
  BY DEF LedgerOK
<1> QED
  BY <1>1, <1>2 DEF Row, Rows, Boxes

\* A name the ledger may hold for that row.
TrueRow(n, row) ==
    /\ row \in Rows
    /\ <<IF row.decision = "linked" THEN "quarantine" ELSE "inbox", n, row.message>> \in named
    /\ row.decision = "linked" => row.complete

\* What an upsert leaves, if its rows are of the messages the names were given to.
LEMMA UpsertStep ==
    ASSUME LedgerOK, named' = named, NEW rows, ledger' = Upserted(rows),
           DOMAIN rows \subseteq Names,
           \A n \in DOMAIN rows : TrueRow(n, rows[n]),
           \A n \in DOMAIN rows : n \in DOMAIN ledger =>
               /\ rows[n].message = ledger[n].message /\ rows[n].decision # "linked"
               /\ rows[n].execution = ledger[n].execution /\ rows[n].restored = ledger[n].restored,
           \A n \in DOMAIN rows : n \notin DOMAIN ledger => rows[n].execution = "none"
    PROVE  LedgerOK' /\ LedgerNext /\ LedgerKept
<1>1. /\ DOMAIN ledger' = DOMAIN ledger \cup DOMAIN rows
      /\ \A n \in DOMAIN ledger' : ledger'[n] = IF n \in DOMAIN rows THEN rows[n] ELSE ledger[n]
      /\ ledger' = [n \in DOMAIN ledger' |-> ledger'[n]]
  BY DEF Upserted
<1>2. /\ ledger \in [DOMAIN ledger -> Rows] /\ DOMAIN ledger \subseteq Names
      /\ \A n \in DOMAIN ledger : TrueRow(n, ledger[n])
  BY DEF LedgerOK, NamesAreTrue, TrueRow
<1>3. \A n \in DOMAIN ledger' : TrueRow(n, ledger'[n])
  BY <1>1, <1>2
<1>4. LedgerOK'
  BY <1>1, <1>2, <1>3 DEF LedgerOK, NamesAreTrue, TrueRow
<1>5. /\ \A n \in DOMAIN ledger : ledger'[n].message = ledger[n].message
      /\ \A n : Judged(n) => Judged(n)'
  BY <1>1 DEF Judged
<1>6. LedgerKept
  BY <1>1 DEF LedgerKept
<1> QED
  BY <1>1, <1>4, <1>5, <1>6 DEF LedgerNext

\* A row that is edited under its name.
LEMMA EditStep ==
    ASSUME LedgerOK, named \subseteq named', DOMAIN ledger' = DOMAIN ledger,
           ledger' \in [DOMAIN ledger -> Rows],
           \A n \in DOMAIN ledger :
               /\ ledger'[n].message = ledger[n].message
               /\ ledger'[n].decision = ledger[n].decision
               /\ ledger[n].decision = "linked" => ledger'[n].complete
    PROVE  LedgerOK' /\ LedgerNext
  BY DEF LedgerOK, LedgerNext, NamesAreTrue, Judged

\* A message of Inbox under the name of a row the scan recorded is the row's.
LEMMA RowAt ==
    ASSUME MailOK, LedgerOK, NEW m \in Inbox, Judged(NameOf(m))
    PROVE  ledger[NameOf(m)].message = m
<1>1. /\ <<"inbox", NameOf(m), m>> \in named
      /\ <<"inbox", NameOf(m), ledger[NameOf(m)].message>> \in named
  BY DEF MailOK, PresentNamed, LedgerOK, NamesAreTrue, Judged
<1>2. <<"inbox", NameOf(m), m>>[3] = <<"inbox", NameOf(m), ledger[NameOf(m)].message>>[3]
  BY <1>1 DEF MailOK, NamedOnce
<1> QED
  BY <1>2

LEMMA ScanStep ==
    ASSUME MailOK, LedgerOK, RunOK, Scan
    PROVE  LedgerOK' /\ LedgerNext /\ LedgerKept /\ \A n \in run'.markers : Judged(n)'
<1>1. PICK batch \in SUBSET Unscanned :
        LET rows == [n \in {<<run.session, box[m].uid>> : m \in batch} |->
                       LET m == CHOOSE b \in batch : box[b].uid = n[2] IN Row(m, n)]
        IN /\ ledger' = Upserted(rows)
           /\ run' = [run EXCEPT !.pc = "select",
                        !.markers = {n \in DOMAIN rows : rows[n].decision = "threat"}]
  BY DEF Scan
<1> DEFINE rows == [n \in {<<run.session, box[m].uid>> : m \in batch} |->
                      LET m == CHOOSE b \in batch : box[b].uid = n[2] IN Row(m, n)]
<1>2. batch \subseteq Inbox /\ run.session = server.validity /\ UNCHANGED named
  BY DEF Unscanned, Scan, SameNamespace
<1>3. ASSUME NEW n \in DOMAIN rows
      PROVE  \E m \in Unscanned : n = NameOf(m) /\ rows[n] = Row(m, n)
  <2>1. PICK m \in batch : n = <<run.session, box[m].uid>>
    BY <1>3
  <2>2. (CHOOSE b \in batch : box[b].uid = n[2]) = m
    <3>1. m \in batch /\ box[m].uid = n[2]
      BY <2>1
    <3>2. \A b \in batch : box[b].uid = n[2] => b = m
      BY <1>2, <3>1, OneAName
    <3> QED
      BY <3>1, <3>2
  <2>3. rows[n] = Row(m, n)
    BY <1>3, <2>2
  <2> QED
    BY <1>2, <2>1, <2>3 DEF NameOf
<1> HIDE DEF rows
<1>4. ASSUME NEW n \in DOMAIN rows
      PROVE  /\ n \in Names /\ TrueRow(n, rows[n]) /\ rows[n].decision # "linked"
             /\ n \in DOMAIN ledger => /\ rows[n].message = ledger[n].message
                                       /\ rows[n].execution = ledger[n].execution
                                       /\ rows[n].restored = ledger[n].restored
             /\ n \notin DOMAIN ledger => rows[n].execution = "none"
  <2>1. PICK m \in Unscanned : n = NameOf(m) /\ rows[n] = Row(m, n)
    BY <1>3
  <2>2. m \in Messages /\ m \in Inbox
    BY DEF Inbox, Unscanned
  <2>3. n \in Names
    <3>1. server.validity \in 1..(MaxEvents + 1) /\ box[m].uid \in 1..(server.uid - 1)
      BY <2>2, Numbers, OneAName
    <3>2. server.uid <= MaxEvents + 1 /\ server.uid \in Nat /\ MaxEvents \in Nat
      BY Numbers DEF MailOK, Counted
    <3> QED
      BY <2>1, <3>1, <3>2 DEF Names, NameOf
  <2>4. <<"inbox", n, m>> \in named
    BY <2>1, <2>2 DEF MailOK, PresentNamed
  <2>5. TrueRow(n, rows[n]) /\ rows[n].decision # "linked" /\ rows[n].message = m
    BY <2>1, <2>2, <2>4, RowTyped DEF TrueRow
  <2>6. ASSUME n \in DOMAIN ledger
        PROVE  ledger[n].message = m
    <3>1. Judged(n)
      BY <2>1, <2>6 DEF Unscanned, LedgerOK, Judged
    <3> QED
      BY <2>1, <2>2, <3>1, RowAt
  <2> QED
    BY <2>1, <2>2, <2>3, <2>5, <2>6, RowTyped
<1>5. ledger' = Upserted(rows) /\ run'.markers = {n \in DOMAIN rows : rows[n].decision = "threat"}
  BY <1>1 DEF rows, RunOK, Runs
<1>6. LedgerOK' /\ LedgerNext /\ LedgerKept
  BY <1>2, <1>4, <1>5, UpsertStep
<1>7. \A n \in run'.markers : Judged(n)'
  <2>1. DOMAIN ledger' = DOMAIN ledger \cup DOMAIN rows
    BY <1>5 DEF Upserted
  <2>2. \A n \in DOMAIN rows : ledger'[n] = rows[n]
    BY <1>5 DEF Upserted
  <2> QED
    BY <1>4, <1>5, <2>1, <2>2 DEF Judged
<1> QED
  BY <1>6, <1>7

LEMMA LinkStep ==
    ASSUME MailOK, LedgerOK, NEW m \in Messages, LinkInQuarantine(m)
    PROVE  LedgerOK' /\ LedgerNext /\ LedgerKept
<1> DEFINE name == FiledName(m)
           rows == [n \in {name} |-> [Row(m, n) EXCEPT !.decision = "linked"]]
<1>1. ledger' = Upserted(rows) /\ name \notin DOMAIN ledger /\ UNCHANGED named
  BY DEF LinkInQuarantine
<1>2. <<"quarantine", name, m>> \in named /\ box[m].uid >= 1
  BY DEF LinkInQuarantine, MailOK, PresentNamed
<1>3. name \in Names
  <2>1. box[m].uid < server.filed
    BY <1>2, name[2] = box[m].uid DEF MailOK, NamedBefore, FiledName
  <2>2. box[m].uid \in Nat /\ server.filed \in Nat /\ MaxEvents \in Nat
    BY Numbers
  <2>3. server.filed <= MaxEvents + 1
    BY Numbers DEF MailOK, Counted
  <2> QED
    BY <1>2, <2>1, <2>2, <2>3 DEF Names, FiledName
<1>4. /\ rows[name] = [Row(m, name) EXCEPT !.decision = "linked"]
      /\ DOMAIN rows = {name}
  OBVIOUS
<1>5. /\ rows[name] \in Rows /\ rows[name].message = m /\ rows[name].execution = "none"
      /\ rows[name].decision = "linked" /\ rows[name].complete
  BY <1>1, <1>4, RowTyped DEF Rows
<1> HIDE DEF rows, name
<1>6. /\ DOMAIN rows \subseteq Names
      /\ \A n \in DOMAIN rows : TrueRow(n, rows[n])
      /\ \A n \in DOMAIN rows : n \notin DOMAIN ledger /\ rows[n].execution = "none"
  BY <1>1, <1>2, <1>3, <1>4, <1>5 DEF TrueRow
<1> QED
  BY <1>1, <1>6, UpsertStep

LEMMA LedgerSteps ==
    ASSUME MailOK, LedgerOK, RunOK, [Next]_vars
    PROVE  LedgerOK' /\ LedgerNext /\ (RecordOutcome \/ LedgerKept)
<1>0. named \subseteq named'
  BY MailSteps DEF MailNext
<1>1. ledger \in [DOMAIN ledger -> Rows] /\ \A n \in DOMAIN ledger : ledger[n] \in Rows
  BY DEF LedgerOK
<1>2. CASE Scan
  BY <1>2, ScanStep
<1>3. CASE LearnRestored
  <2>1. PICK m : ledger' = [n \in DOMAIN ledger |->
            IF n \in Restorable(m) THEN [ledger[n] EXCEPT !.restored = TRUE] ELSE ledger[n]]
    BY <1>3 DEF LearnRestored
  <2>2. \A n \in DOMAIN ledger :
            /\ ledger'[n] \in Rows /\ ledger'[n].message = ledger[n].message
            /\ ledger'[n].decision = ledger[n].decision
            /\ ledger'[n].complete = ledger[n].complete
            /\ ledger'[n].execution = ledger[n].execution
            /\ ledger[n].restored => ledger'[n].restored
    BY <1>1, <2>1 DEF Rows
  <2>3. DOMAIN ledger' = DOMAIN ledger /\ ledger' \in [DOMAIN ledger -> Rows]
    BY <2>1, <2>2
  <2> QED
    BY <1>0, <2>2, <2>3, EditStep DEF LedgerKept, LedgerOK
<1>4. ASSUME NEW n \in DOMAIN ledger,
             \/ Judged(n) /\ ledger' = [ledger EXCEPT ![n].complete = FALSE]
             \/ ledger' = [ledger EXCEPT ![n].answer = "keep"]
      PROVE  LedgerOK' /\ LedgerNext /\ LedgerKept
  <2> DEFINE open == [ledger[n] EXCEPT !.complete = FALSE]
             kept == [ledger[n] EXCEPT !.answer = "keep"]
  <2>1. \/ Judged(n) /\ ledger' = [ledger EXCEPT ![n] = open]
        \/ ledger' = [ledger EXCEPT ![n] = kept]
    BY <1>4
  <2>2. \A row \in {open, kept} :
            /\ row \in Rows /\ row.message = ledger[n].message
            /\ row.decision = ledger[n].decision
            /\ row.execution = ledger[n].execution /\ row.restored = ledger[n].restored
    BY <1>1 DEF Rows
  <2>0. kept.complete = ledger[n].complete
    BY <1>1 DEF Rows
  <2>3. \A k \in DOMAIN ledger :
            /\ ledger'[k] \in Rows /\ ledger'[k].message = ledger[k].message
            /\ ledger'[k].decision = ledger[k].decision
            /\ ledger[k].decision = "linked" => ledger'[k].complete
            /\ ledger'[k].execution = ledger[k].execution
            /\ ledger[k].restored => ledger'[k].restored
    <3> HIDE DEF open, kept
    <3> QED
      BY <1>1, <2>0, <2>1, <2>2 DEF LedgerOK, Judged
  <2>4. DOMAIN ledger' = DOMAIN ledger /\ ledger' \in [DOMAIN ledger -> Rows]
    BY <1>1, <1>4, <2>3
  <2> QED
    BY <1>0, <2>3, <2>4, EditStep DEF LedgerKept
<1>5. CASE MarkFails
  <2>1. PICK n \in run.markers : ledger' = Reopened(n)
    BY <1>5 DEF MarkFails
  <2> QED
    BY <1>4, <2>1 DEF Reopened, RunOK, Judged
<1>6. CASE RecordOutcome
  <2>1. run.pc = "record" /\ ledger' = [ledger EXCEPT ![run.name].execution = run.outcome]
    BY <1>6 DEF RecordOutcome
  <2>2. run.name \in DOMAIN ledger /\ run.outcome \in {"moved", "protected", "not_inbox"}
    BY <2>1 DEF RunOK, Runs, Judged
  <2>3. \A k \in DOMAIN ledger :
            /\ ledger'[k] \in Rows /\ ledger'[k].message = ledger[k].message
            /\ ledger'[k].decision = ledger[k].decision
            /\ ledger'[k].complete = ledger[k].complete
    BY <1>1, <2>1, <2>2 DEF Rows
  <2>4. DOMAIN ledger' = DOMAIN ledger /\ ledger' \in [DOMAIN ledger -> Rows]
    BY <1>1, <2>1, <2>3
  <2> QED
    BY <1>0, <1>6, <2>1, <2>3, <2>4, EditStep DEF LedgerOK
<1>7. ASSUME NEW m \in Messages, AnswerInQuarantine(m)
      PROVE  LedgerOK' /\ LedgerNext /\ LedgerKept
  BY <1>4, <1>7 DEF AnswerInQuarantine
<1>8. ASSUME NEW n \in DOMAIN ledger, AnswerInInbox(n)
      PROVE  LedgerOK' /\ LedgerNext /\ LedgerKept
  BY <1>4, <1>8 DEF AnswerInInbox
<1>9. ASSUME NEW m \in Messages, LinkInQuarantine(m)
      PROVE  LedgerOK' /\ LedgerNext /\ LedgerKept
  BY <1>9, LinkStep
<1>10. CASE UNCHANGED ledger
  BY <1>0, <1>1, <1>10, EditStep DEF LedgerKept, LedgerOK
<1>11. \/ Scan \/ LearnRestored \/ MarkFails \/ RecordOutcome \/ UNCHANGED ledger
       \/ \E m \in Messages : AnswerInQuarantine(m) \/ LinkInQuarantine(m)
       \/ \E n \in DOMAIN ledger : AnswerInInbox(n)
  BY DEF Next, RunStep, vars, OpenReader, ResetCursor, SearchNew, FetchIdentity, SetCursor,
         Select, Mark, OpenExecutor, SkipCandidate, Examine, Move, EndRun, SessionLost, Crash,
         Arrive, PutBack, UserActs, FileInQuarantine, ChangeValidity
<1> QED
  BY <1>2, <1>3, <1>5, <1>6, <1>7, <1>8, <1>9, <1>10, <1>11

-----------------------------------------------------------------------------
(***************************************************************************)
(* The run.                                                                *)
(***************************************************************************)
\* Fewer candidates are within the limit too.
LEMMA FewerTodo ==
    ASSUME LedgerOK, RunOK, NEW n
    PROVE  Cardinality(run.todo \ {n}) <= Limit
<1>1. IsFiniteSet(run.todo)
  <2>1. run.todo \subseteq DOMAIN ledger
    BY DEF RunOK, Judged
  <2> QED
    BY <2>1, NamesFinite, FS_Subset DEF LedgerOK
<1>2. Cardinality(run.todo \ {n}) \in Nat /\ Cardinality(run.todo) \in Nat
  BY <1>1, FS_CardinalityType, FS_RemoveElement
<1>3. Cardinality(run.todo \ {n}) <= Cardinality(run.todo)
  BY <1>1, FS_Subset
<1> QED
  BY <1>2, <1>3, YahooAssumption DEF RunOK

\* The highest of some bounded numbers is one of them.
LEMMA MaxIn ==
    ASSUME NEW b \in Nat, NEW S \in SUBSET (0..b), S # {}
    PROVE  Max(S) \in S /\ \A n \in S : n <= Max(S)
<1> DEFINE T == {b - n : n \in S}
<1>1. T \subseteq Nat /\ T # {}
  <2>1. \A n \in S : n \in Nat /\ n <= b
    OBVIOUS
  <2>2. \A n \in S : b - n \in Nat
    BY <2>1
  <2> QED
    BY <2>2
<1> HIDE DEF T
<1>2. PICK x \in T : \A y \in T : <<y, x>> \notin OpToRel(<, Nat)
  <2> DEFINE R == OpToRel(<, Nat)
  <2>1. IsWellFoundedOn(R, Nat)
    BY NatLessThanWellFounded
  <2> HIDE DEF R
  <2>2. \E x \in T : \A y \in T : <<y, x>> \notin R
    BY <1>1, <2>1, WFMin
  <2> QED
    BY <2>2 DEF R
<1>3. \A y \in T : ~(y < x)
  BY <1>1, <1>2 DEF OpToRel
<1>4. PICK m \in S : x = b - m
  BY <1>2 DEF T
<1>5. \A n \in S : m >= n
  BY <1>3, <1>4 DEF T
<1> QED
  BY <1>4, <1>5 DEF Max

\* Inbox is numbered below the next number; its numbers are within the bound.
LEMMA UidsBounded ==
    ASSUME MailOK
    PROVE  InboxUids \subseteq 1..(server.uid - 1) /\ IsFiniteSet(InboxUids)
<1>1. \A m \in Inbox : box[m].uid \in 1..(server.uid - 1)
  BY OneAName
<1>2. InboxUids \subseteq 1..(server.uid - 1)
  BY <1>1 DEF InboxUids
<1>3. server.uid - 1 \in Int
  <2>1. server.uid \in Nat
    BY Numbers
  <2> QED
    BY <2>1
<1>4. IsFiniteSet(1..(server.uid - 1))
  BY <1>3, FS_Interval
<1> QED
  BY <1>2, <1>4, FS_Subset

LEMMA LastBelowNext ==
    ASSUME MailOK
    PROVE  LastUid \in Nat /\ LastUid < server.uid
<1>1. server.uid \in Nat /\ server.uid >= 1
  BY Numbers DEF MailOK, Counted
<1>2. InboxUids \subseteq 1..(server.uid - 1) /\ InboxUids \subseteq 0..server.uid
  BY <1>1, UidsBounded
<1>3. CASE Inbox = {}
  BY <1>1, <1>3 DEF LastUid
<1>4. CASE Inbox # {}
  <2>1. InboxUids # {}
    BY <1>4 DEF InboxUids
  <2>2. Max(InboxUids) \in InboxUids
    BY <1>1, <1>2, <2>1, MaxIn
  <2>3. LastUid \in 1..(server.uid - 1)
    BY <1>2, <1>4, <2>2 DEF LastUid
  <2> QED
    BY <1>1, <2>3
<1> QED
  BY <1>3, <1>4

\* A batch of new numbers leaves none below its highest behind.
LEMMA LowestFirst ==
    ASSUME NEW uids \in SUBSET Nat, IsFiniteSet(uids),
           NEW u \in Lowest(uids), NEW v \in uids, v <= u
    PROVE  v \in Lowest(uids)
<1> DEFINE upto(n) == {w \in uids : w <= n}
<1>1. u \in uids /\ Cardinality(upto(u)) <= SyncLimit
  BY DEF Lowest
<1>2. upto(v) \subseteq upto(u) /\ upto(u) \subseteq uids
  <2>1. \A w \in uids : w <= v => w <= u
    <3>1. u \in Nat /\ v \in Nat /\ uids \subseteq Nat
      BY <1>1
    <3> QED
      BY <3>1
  <2> QED
    BY <2>1
<1> HIDE DEF upto
<1>3. IsFiniteSet(upto(u)) /\ IsFiniteSet(upto(v))
  BY <1>2, FS_Subset
<1>4. Cardinality(upto(v)) <= Cardinality(upto(u))
  BY <1>2, <1>3, FS_Subset
<1>5. Cardinality(upto(v)) \in Nat /\ Cardinality(upto(u)) \in Nat
  BY <1>3, FS_CardinalityType
<1>6. Cardinality(upto(v)) <= SyncLimit
  BY <1>1, <1>4, <1>5, YahooAssumption
<1> QED
  BY <1>6 DEF Lowest, upto

LEMMA NoRunOK == NoRun \in Runs /\ NoRun.todo = {} /\ NoRun.markers = {} /\ NoRun.pc = "idle"
  BY DEF NoRun, Runs, AnyName

LEMMA RunSteps ==
    ASSUME MailOK, MailNext, LedgerOK, LedgerOK', LedgerNext, RunOK, CursorOK, [Next]_vars
    PROVE  RunOK'
<1>0. /\ server.validity \in Nat /\ server'.validity >= server.validity /\ Limit \in Nat
      /\ DOMAIN ledger \subseteq DOMAIN ledger' /\ DOMAIN ledger \subseteq AnyName
      /\ server'.validity \in Nat /\ run \in Runs
      /\ run.session \in Nat /\ run.session <= server'.validity
      /\ \A n : Judged(n) => Judged(n)' /\ n \in DOMAIN ledger
  <2>1. MailOK'
    BY MailSteps
  <2>2. server'.validity \in Nat
    BY <2>1 DEF MailOK, MailTyped
  <2>3. run \in Runs /\ run.session \in Nat
    BY DEF RunOK, Runs
  <2>4. /\ run.session <= server.validity /\ server.validity <= server'.validity
        /\ server.validity \in Nat
    BY Numbers DEF RunOK, MailNext
  <2>5. run.session <= server'.validity
    BY <2>2, <2>3, <2>4
  <2> QED
    BY <2>2, <2>3, <2>5, Numbers, NamesFinite, YahooAssumption
       DEF MailNext, LedgerNext, LedgerOK, Judged
<1> USE <1>0
<1>1. CASE run' = NoRun
  <2>1. Cardinality({}) = 0
    BY FS_EmptySet
  <2> QED
    BY <1>1, <2>1, NoRunOK DEF RunOK, NoRun
<1>2. CASE run' = run
  BY <1>2 DEF RunOK, Runs
<1>3. CASE OpenReader
  <2>1. PICK to \in Destinations :
          run' = [NoRun EXCEPT !.pc = "collect", !.session = server.validity, !.to = to]
    BY <1>3 DEF OpenReader
  <2>2. Cardinality({}) = 0 /\ to \in {"quarantine", "trash"} /\ UNCHANGED server
    BY <1>3, FS_EmptySet, YahooAssumption DEF OpenReader
  <2>3. run' \in Runs
    BY <2>1, <2>2, NoRunOK DEF Runs
  <2>4. /\ run'.session = server.validity /\ run'.pc = "collect"
        /\ run'.todo = {} /\ run'.markers = {}
    BY <2>1 DEF NoRun
  <2> QED
    BY <2>2, <2>3, <2>4 DEF RunOK
<1>4. CASE ResetCursor \/ SetCursor
  BY <1>4 DEF ResetCursor, SetCursor, RunOK, Runs
<1>5. CASE SearchNew
  <2> DEFINE batch == Lowest({u \in InboxUids : u > cursor[2]})
  <2>1. run' = [run EXCEPT !.pc = "identify", !.found = batch,
                  !.latest = IF batch = {} THEN cursor[2] ELSE Max(batch)]
    BY <1>5 DEF SearchNew
  <2>2. server.uid \in Nat /\ InboxUids \subseteq 1..(server.uid - 1)
    BY Numbers, UidsBounded
  <2>3. batch \subseteq 0..server.uid /\ batch \subseteq Nat
    <3>1. batch \subseteq InboxUids
      BY DEF Lowest
    <3>2. 1..(server.uid - 1) \subseteq 0..server.uid /\ 0..server.uid \subseteq Nat
      BY <2>2
    <3> HIDE DEF batch
    <3> QED
      BY <2>2, <3>1, <3>2
  <2>4. cursor[2] \in Nat
    BY DEF CursorOK
  <2> HIDE DEF batch
  <2>5. batch # {} => Max(batch) \in Nat
    BY <2>2, <2>3, MaxIn
  <2>6. PICK latest \in Nat : run' = [run EXCEPT !.pc = "identify", !.found = batch, !.latest = latest]
    BY <2>1, <2>4, <2>5
  <2>7. run' \in Runs
    BY <2>3, <2>6 DEF Runs
  <2>8. /\ run'.session = run.session /\ run'.pc = "identify"
        /\ run'.todo = run.todo /\ run'.markers = run.markers
    BY <2>6 DEF Runs
  <2> QED
    BY <2>7, <2>8 DEF RunOK
<1>6. CASE FetchIdentity
  <2> DEFINE uid == Min(run.found)
             fetched == At(uid) \ Unreadable
  <2>1. run' = IF fetched # {}
               THEN [run EXCEPT !.found = run.found \ {uid},
                                !.identities = run.identities \cup (fetched \ Nameless)]
               ELSE [run EXCEPT !.pc = "scan", !.found = {}, !.identities = {}]
    BY <1>6 DEF FetchIdentity
  <2>2. fetched \subseteq Messages
    BY DEF At, Inbox
  <2> HIDE DEF fetched, uid
  <2>3. run' \in Runs
    BY <2>1, <2>2 DEF Runs
  <2>4. /\ run'.session = run.session /\ run'.pc \in {run.pc, "scan"}
        /\ run'.todo = run.todo /\ run'.markers = run.markers
        /\ run'.name = run.name /\ run'.outcome = run.outcome
    BY <2>1 DEF Runs
  <2> QED
    BY <2>3, <2>4 DEF RunOK
<1>7. CASE LearnRestored
  BY <1>7 DEF LearnRestored, RunOK, Runs
<1>8. CASE Scan
  <2>1. PICK markers : run' = [run EXCEPT !.pc = "select", !.markers = markers]
    BY <1>8 DEF Scan
  <2>2. \A n \in markers : Judged(n)'
    BY <1>8, <2>1, ScanStep DEF RunOK, Runs
  <2>3. markers \subseteq AnyName
    BY <2>2, NamesFinite DEF LedgerOK, Judged
  <2>4. run' \in Runs
    BY <2>1, <2>3 DEF Runs
  <2>5. /\ run'.session = run.session /\ run'.pc = "select"
        /\ run'.todo = run.todo /\ run'.markers = markers
    BY <2>1 DEF Runs
  <2> QED
    BY <2>2, <2>4, <2>5 DEF RunOK
<1>9. CASE Select
  <2>1. PICK pending \in SUBSET {n \in DOMAIN ledger : Judged(n)} : \E todo \in SUBSET pending :
          /\ Cardinality(todo) = IF Cardinality(pending) < Limit
                                 THEN Cardinality(pending) ELSE Limit
          /\ run' = [run EXCEPT !.pc = "mark", !.todo = todo]
    <3> DEFINE here == {n \in DOMAIN ledger :
                 /\ Permitted(n)
                 /\ \E m \in Inbox : NameOf(m) = n /\ box[m].unread = ledger[n].unread}
    <3>1. here \subseteq {n \in DOMAIN ledger : Judged(n)}
      BY DEF Permitted, Judged
    <3>2. \E todo \in SUBSET here :
            /\ Cardinality(todo) = IF Cardinality(here) < Limit THEN Cardinality(here) ELSE Limit
            /\ run' = [run EXCEPT !.pc = "mark", !.todo = todo]
      BY <1>9 DEF Select
    <3> HIDE DEF here
    <3> QED
      BY <3>1, <3>2
  <2>2. PICK todo \in SUBSET pending :
          /\ Cardinality(todo) = IF Cardinality(pending) < Limit
                                 THEN Cardinality(pending) ELSE Limit
          /\ run' = [run EXCEPT !.pc = "mark", !.todo = todo]
    BY <2>1
  <2>3. IsFiniteSet(pending)
    BY NamesFinite, FS_Subset DEF LedgerOK
  <2>4. Cardinality(pending) \in Nat
    BY <2>3, FS_CardinalityType
  <2>5. Cardinality(todo) <= Limit
    BY <2>2, <2>4
  <2>6. run' = [run EXCEPT !.pc = "mark", !.todo = todo]
    BY <2>2
  <2>7. run' \in Runs
    BY <2>6 DEF Runs
  <2>8. /\ run'.session = run.session /\ run'.pc = "mark"
        /\ run'.todo = todo /\ run'.markers = run.markers
    BY <2>6 DEF Runs
  <2> QED
    BY <2>5, <2>7, <2>8 DEF RunOK
<1>10. CASE Mark \/ MarkFails
  <2>1. PICK n : run' = [run EXCEPT !.markers = run.markers \ {n}]
    BY <1>10 DEF Mark, MarkFails
  <2> QED
    BY <2>1 DEF RunOK, Runs
<1>11. CASE OpenExecutor
  <2>1. run' = [run EXCEPT !.pc = "act", !.session = server.validity] \/ run' = NoRun
    BY <1>11 DEF OpenExecutor
  <2> QED
    BY <1>1, <1>11, <2>1 DEF OpenExecutor, RunOK, Runs
<1>12. CASE SkipCandidate
  <2>1. PICK n : run.pc = "act" /\ run' = [run EXCEPT !.todo = run.todo \ {n}]
    BY <1>12 DEF SkipCandidate
  <2>2. Cardinality(run.todo \ {n}) <= Limit
    BY FewerTodo
  <2> QED
    BY <2>1, <2>2 DEF RunOK, Runs
<1>13. CASE Examine
  <2>1. PICK n \in run.todo :
          run' = [run EXCEPT !.todo = run.todo \ {n}, !.name = n, !.outcome = Verdict(n),
                    !.pc = IF Verdict(n) = "move" THEN "move" ELSE "record"]
    BY <1>13 DEF Examine
  <2>2. Cardinality(run.todo \ {n}) <= Limit
    BY FewerTodo
  <2>3. /\ Verdict(n) \in {"not_inbox", "protected", "move"}
        /\ Verdict(n) = "move" => n[1] = run.session
    BY DEF Verdict
  <2>4. n \in AnyName /\ Judged(n)
    BY DEF RunOK, Runs
  <2>5. run' \in Runs
    BY <2>1, <2>3, <2>4 DEF Runs
  <2>6. /\ run'.session = run.session /\ run'.name = n /\ run'.outcome = Verdict(n)
        /\ run'.pc = IF Verdict(n) = "move" THEN "move" ELSE "record"
        /\ run'.todo = run.todo \ {n} /\ run'.markers = run.markers
    BY <2>1 DEF Runs
  <2> QED
    BY <2>2, <2>3, <2>4, <2>5, <2>6 DEF RunOK
<1>14. CASE Move
  <2>1. run' = [run EXCEPT !.pc = "record", !.outcome = "moved"] \/ run' = NoRun
    BY <1>14 DEF Move
  <2>2. run.pc = "move"
    BY <1>14 DEF Move
  <2>3. ASSUME run' = [run EXCEPT !.pc = "record", !.outcome = "moved"]
        PROVE  RunOK'
    <3>1. run' \in Runs
      BY <2>3 DEF Runs
    <3>2. /\ run'.session = run.session /\ run'.name = run.name /\ run'.outcome = "moved"
          /\ run'.pc = "record" /\ run'.todo = run.todo /\ run'.markers = run.markers
      BY <2>3 DEF Runs
    <3> QED
      BY <2>2, <3>1, <3>2 DEF RunOK
  <2> QED
    BY <1>1, <2>1, <2>3
<1>15. CASE RecordOutcome
  BY <1>15 DEF RecordOutcome, RunOK, Runs, AnyName
<1> QED
  <2>1. CASE EndRun \/ SessionLost \/ Crash
    BY <1>1, <2>1 DEF EndRun, SessionLost, Crash
  <2>2. CASE ChangeValidity \/ (\E n \in DOMAIN ledger : AnswerInInbox(n)) \/ UNCHANGED vars
    BY <1>2, <2>2 DEF ChangeValidity, AnswerInInbox, vars
  <2>3. ASSUME NEW m \in Messages,
               \/ Arrive(m) \/ PutBack(m) \/ UserActs(m) \/ FileInQuarantine(m)
               \/ LinkInQuarantine(m) \/ AnswerInQuarantine(m)
        PROVE  RunOK'
    BY <1>2, <2>3 DEF Arrive, PutBack, UserActs, FileInQuarantine, LinkInQuarantine,
                      AnswerInQuarantine
  <2> QED
    BY <1>3, <1>4, <1>5, <1>6, <1>7, <1>8, <1>9, <1>10, <1>11, <1>12, <1>13, <1>14, <1>15,
       <2>1, <2>2, <2>3 DEF Next, RunStep

\* A MOVE is asked for the row's name, and what it takes is what has that name.
LEMMA MovesSteps ==
    ASSUME MailOK, MailNext, LedgerOK, LedgerNext, MovesNamed, RunOK, [Next]_vars
    PROVE  MovesNamed'
<1>1. CASE UNCHANGED moves
  BY <1>1 DEF MovesNamed, MailNext, LedgerNext
<1>2. CASE Move
  <2>1. /\ moves' = moves \cup ({run.name} \X At(run.name[2]))
        /\ run.pc = "move" /\ run.session = server.validity
    BY <1>2 DEF Move, SameNamespace
  <2>2. Judged(run.name) /\ run.name[1] = server.validity /\ run.name \in AnyName
    BY <2>1 DEF RunOK, Runs
  <2>3. ASSUME NEW k \in At(run.name[2])
        PROVE  <<"inbox", run.name, k>> \in named
    <3>1. k \in Inbox /\ box[k].uid = run.name[2]
      BY DEF At
    <3>2. NameOf(k) = run.name
      BY <2>2, <3>1 DEF NameOf, AnyName
    <3> QED
      BY <3>1, <3>2 DEF MailOK, PresentNamed
  <2>4. \A move \in moves' \ moves : <<"inbox", move[1], move[2]>> \in named /\ Judged(move[1])
    BY <2>1, <2>2, <2>3
  <2> QED
    BY <2>4 DEF MovesNamed, MailNext, LedgerNext
<1>3. Move \/ UNCHANGED moves
  BY DEF Next, RunStep, vars, OpenReader, ResetCursor, SearchNew, FetchIdentity, LearnRestored,
         SetCursor, Scan, Select, Mark, OpenExecutor, SkipCandidate, Examine, RecordOutcome,
         EndRun, SessionLost, MarkFails, Crash, Arrive, PutBack, UserActs, FileInQuarantine,
         LinkInQuarantine, AnswerInQuarantine, ChangeValidity, AnswerInInbox
<1> QED
  BY <1>1, <1>2, <1>3

-----------------------------------------------------------------------------
(***************************************************************************)
(* The cursor.                                                             *)
(***************************************************************************)
\* The steps that move the cursor are the two that set it.
LEMMA CursorMoves ==
    ASSUME [Next]_vars
    PROVE  ResetCursor \/ SetCursor \/ UNCHANGED <<cursor, baseline>>
  BY DEF Next, RunStep, vars, OpenReader, SearchNew, FetchIdentity, LearnRestored,
         Scan, Select, Mark, OpenExecutor, SkipCandidate, Examine, Move, RecordOutcome,
         EndRun, SessionLost, MarkFails, Crash, Arrive, PutBack, UserActs, FileInQuarantine,
         LinkInQuarantine, AnswerInQuarantine, ChangeValidity, AnswerInInbox

\* What is in Inbox at or below a number already given was there, under that number.
LEMMA NoneNewBelow ==
    ASSUME MailOK, MailOK', MailNext, server'.validity = server.validity,
           NEW n \in Nat, n < server.uid, NEW m \in Inbox', box'[m].uid <= n
    PROVE  m \in Inbox /\ box'[m].uid = box[m].uid
<1>1. \/ m \in Inbox /\ box'[m].uid = box[m].uid
      \/ box'[m].uid >= server.uid
  BY DEF MailNext
<1>2. box'[m].uid \in Nat
  BY DEF MailOK, MailTyped, Boxes, Inbox
<1>3. server.uid \in Nat
  BY Numbers
<1> QED
  BY <1>1, <1>2, <1>3

LEMMA CursorSteps ==
    ASSUME MailOK, MailOK', MailNext, RunOK, CursorOK, Collected, [Next]_vars
    PROVE  CursorOK'
<1>1. /\ {server.validity, server'.validity, server.uid, server'.uid} \subseteq Nat
      /\ server.validity <= server'.validity
      /\ server'.validity = server.validity => server.uid <= server'.uid
  BY Numbers DEF MailNext, MailOK, MailTyped
<1>2. CASE UNCHANGED cursor
  BY <1>1, <1>2 DEF CursorOK
<1>3. CASE ResetCursor
  <2>1. cursor' = <<run.session, LastUid>> /\ run.session = server.validity /\ UNCHANGED server
    BY <1>3 DEF ResetCursor, SameNamespace
  <2> QED
    BY <1>1, <2>1, LastBelowNext DEF CursorOK
<1>4. CASE SetCursor
  <2>1. /\ cursor' = <<run.session, run.latest>> /\ run.pc = "identify" /\ UNCHANGED server
        /\ run.session \in Nat /\ run.latest \in Nat /\ run.session <= server.validity
    BY <1>4 DEF SetCursor, RunOK, Runs
  <2>2. run.session = server.validity => run.latest < server.uid
    BY <2>1 DEF Collected
  <2> QED
    BY <1>1, <2>1, <2>2 DEF CursorOK
<1> QED
  BY <1>2, <1>3, <1>4, CursorMoves

\* What is learned of a message stays so unless an outcome is recorded.
LEMMA RestoredKept ==
    ASSUME LedgerOK, LedgerNext, LedgerKept, NEW m, AllRestored(m)
    PROVE  AllRestored(m)'
  BY DEF AllRestored, LedgerNext, LedgerKept

LEMMA CollectedSteps ==
    ASSUME MailOK, MailOK', MailNext, LedgerOK, LedgerNext, RecordOutcome \/ LedgerKept,
           RunOK, RunOK', CursorOK, Collected, [Next]_vars
    PROVE  Collected'
<1>0. /\ {server.validity, server'.validity, server.uid, server'.uid} \subseteq Nat
      /\ server.validity <= server'.validity
      /\ server'.validity = server.validity => server.uid <= server'.uid
      /\ run \in Runs /\ run.session \in Nat /\ run.latest \in Nat
      /\ run.session <= server.validity
  BY Numbers DEF MailNext, MailOK, MailTyped, RunOK, Runs
<1>1. CASE run' = run /\ UNCHANGED cursor
  <2> SUFFICES ASSUME run.pc = "identify"
               PROVE  /\ cursor[1] = run.session
                      /\ run.session = server'.validity =>
                          /\ run.latest < server'.uid
                          /\ \A m \in Inbox' \ Nameless :
                               box'[m].uid > cursor[2] /\ box'[m].uid <= run.latest =>
                               box'[m].uid \in run.found \/ m \in run.identities \/ AllRestored(m)'
    BY <1>1 DEF Collected
  <2>1. cursor[1] = run.session
    BY DEF Collected
  <2>2. ASSUME run.session = server'.validity
        PROVE  run.session = server.validity /\ run.latest < server.uid /\ run.latest < server'.uid
    BY <1>0, <2>2 DEF Collected
  <2>3. ASSUME run.session = server'.validity, NEW m \in Inbox' \ Nameless,
               box'[m].uid > cursor[2], box'[m].uid <= run.latest
        PROVE  box'[m].uid \in run.found \/ m \in run.identities \/ AllRestored(m)'
    <3>1. m \in Inbox /\ box'[m].uid = box[m].uid
      BY <1>0, <2>2, <2>3, NoneNewBelow
    <3>2. box[m].uid \in run.found \/ m \in run.identities \/ AllRestored(m)
      BY <2>2, <2>3, <3>1 DEF Collected
    <3> QED
      BY <3>1, <3>2, RestoredKept DEF RecordOutcome
  <2> QED
    BY <2>1, <2>2, <2>3
<1>2. CASE SearchNew
  <2> DEFINE new == {u \in InboxUids : u > cursor[2]}
             batch == Lowest(new)
  <2>1. /\ run' = [run EXCEPT !.pc = "identify", !.found = batch,
                     !.latest = IF batch = {} THEN cursor[2] ELSE Max(batch)]
        /\ cursor[1] = run.session /\ run.session = server.validity
        /\ UNCHANGED <<box, server, ledger, cursor>>
    BY <1>2 DEF SearchNew, SameNamespace
  <2>2. InboxUids \subseteq 1..(server.uid - 1) /\ IsFiniteSet(InboxUids)
    BY UidsBounded
  <2>3. new \subseteq Nat /\ IsFiniteSet(new) /\ batch \subseteq new /\ new \subseteq InboxUids
    <3>1. new \subseteq InboxUids /\ InboxUids \subseteq Nat
      BY <1>0, <2>2
    <3>2. IsFiniteSet(new)
      BY <2>2, <3>1, FS_Subset
    <3> QED
      BY <3>1, <3>2 DEF Lowest
  <2>4. cursor[2] \in Nat /\ cursor[2] < server.uid
    BY <2>1 DEF CursorOK
  <2>5. Inbox' = Inbox
    BY <2>1 DEF Inbox
  <2>6. \A m \in Inbox : box[m].uid > cursor[2] => box[m].uid \in new
    BY DEF InboxUids
  <2> HIDE DEF new
  <2>7. batch # {} => Max(batch) \in batch
    <3> HIDE DEF batch
    <3>1. 1..(server.uid - 1) \subseteq 0..server.uid
      BY <1>0
    <3>2. batch \subseteq 0..server.uid
      BY <2>2, <2>3, <3>1
    <3> QED
      BY <1>0, <3>2, MaxIn
  <2>8. ASSUME NEW m \in Inbox, box[m].uid > cursor[2], box[m].uid <= Max(batch), batch # {}
        PROVE  box[m].uid \in batch
    <3>1. box[m].uid \in new
      BY <2>6, <2>8
    <3> QED
      BY <2>3, <2>7, <2>8, <3>1, LowestFirst
  <2> HIDE DEF batch
  <2>9. /\ run'.pc = "identify" /\ run'.session = run.session /\ run'.found = batch
        /\ run'.latest = IF batch = {} THEN cursor[2] ELSE Max(batch)
    BY <1>0, <2>1 DEF Runs
  <2>10. run'.latest < server.uid
    <3>1. batch # {} => Max(batch) \in 1..(server.uid - 1)
      BY <2>2, <2>3, <2>7
    <3> QED
      BY <1>0, <2>4, <2>9, <3>1
  <2>11. \A m \in Inbox : box[m].uid \in Nat
    BY Numbers DEF Inbox
  <2>12. \A m \in Inbox : box[m].uid > cursor[2] /\ box[m].uid <= run'.latest =>
                              box[m].uid \in batch
    BY <2>4, <2>8, <2>9, <2>11
  <2> QED
    BY <2>1, <2>5, <2>9, <2>10, <2>12 DEF Collected
<1>3. CASE FetchIdentity
  <2> DEFINE uid == Min(run.found)
             fetched == At(uid) \ Unreadable
  <2>1. /\ run' = IF fetched # {}
                  THEN [run EXCEPT !.found = run.found \ {uid},
                                   !.identities = run.identities \cup (fetched \ Nameless)]
                  ELSE [run EXCEPT !.pc = "scan", !.found = {}, !.identities = {}]
        /\ run.pc = "identify" /\ UNCHANGED <<box, server, ledger, cursor>>
    BY <1>3 DEF FetchIdentity
  <2>2. fetched # {} => \A m \in Inbox : box[m].uid = uid => m \in fetched
    BY OneAName DEF At
  <2> HIDE DEF uid, fetched
  <2>3. CASE fetched = {}
    BY <1>0, <2>1, <2>3 DEF Runs, Collected
  <2>4. CASE fetched # {}
    <3>1. /\ run'.pc = "identify" /\ run'.session = run.session /\ run'.latest = run.latest
          /\ run'.found = run.found \ {uid} 
          /\ run'.identities = run.identities \cup (fetched \ Nameless)
      BY <1>0, <2>1, <2>4 DEF Runs
    <3>2. Inbox' = Inbox /\ \A m : AllRestored(m)' = AllRestored(m)
      BY <2>1 DEF Inbox, AllRestored
    <3> QED
      BY <2>1, <2>2, <2>4, <3>1, <3>2 DEF Collected
  <2> QED
    BY <2>3, <2>4
<1>4. CASE LearnRestored
  <2>1. PICK m \in run.identities :
          /\ run' = [run EXCEPT !.identities = run.identities \ {m}]
          /\ ledger' = [n \in DOMAIN ledger |->
                IF n \in Restorable(m) THEN [ledger[n] EXCEPT !.restored = TRUE]
                ELSE ledger[n]]
    BY <1>4 DEF LearnRestored
  <2>2. run.pc = "identify" /\ UNCHANGED <<box, server, cursor>>
    BY <1>4 DEF LearnRestored
  <2>3. /\ run'.pc = "identify" /\ run'.session = run.session /\ run'.latest = run.latest
        /\ run'.found = run.found /\ run'.identities = run.identities \ {m}
    BY <1>0, <2>1, <2>2 DEF Runs
  <2>4. AllRestored(m)'
    <3>1. \A n \in DOMAIN ledger : ledger[n] \in Rows
      BY DEF LedgerOK
    <3> QED
      BY <2>1, <3>1 DEF AllRestored, Restorable, Rows
  <2>5. Inbox' = Inbox /\ \A k : AllRestored(k) => AllRestored(k)'
    BY <2>2, RestoredKept DEF Inbox, RecordOutcome
  <2> QED
    BY <2>2, <2>3, <2>4, <2>5 DEF Collected
<1>5. CASE run'.pc # "identify"
  BY <1>5 DEF Collected
<1> QED
  <2>1. CASE \/ OpenReader \/ ResetCursor \/ SetCursor \/ Scan \/ Select \/ OpenExecutor
             \/ Examine \/ Move \/ RecordOutcome \/ EndRun \/ SessionLost \/ Crash
    <3>1. run'.pc # "identify"
      BY <1>0, <2>1, NoRunOK DEF NoRun, Runs, OpenReader, ResetCursor, SetCursor, Scan, Select,
         OpenExecutor, Examine, Move, RecordOutcome, EndRun, SessionLost, Crash
    <3> QED
      BY <1>5, <3>1
  <2>2. CASE Mark \/ MarkFails \/ SkipCandidate
    <3>1. run'.pc # "identify"
      BY <1>0, <2>2 DEF Runs, Mark, MarkFails, SkipCandidate
    <3> QED
      BY <1>5, <3>1
  <2>3. CASE ChangeValidity \/ (\E n \in DOMAIN ledger : AnswerInInbox(n)) \/ UNCHANGED vars
    BY <1>1, <2>3 DEF ChangeValidity, AnswerInInbox, vars
  <2>4. ASSUME NEW m \in Messages,
               \/ Arrive(m) \/ PutBack(m) \/ UserActs(m) \/ FileInQuarantine(m)
               \/ LinkInQuarantine(m) \/ AnswerInQuarantine(m)
        PROVE  Collected'
    BY <1>1, <2>4 DEF Arrive, PutBack, UserActs, FileInQuarantine, LinkInQuarantine,
                      AnswerInQuarantine
  <2> QED
    BY <1>2, <1>3, <1>4, <2>1, <2>2, <2>3, <2>4 DEF Next, RunStep

\* No change of the mailbox brings a message back behind the cursor.
LEMMA BeyondKept ==
    ASSUME MailOK, MailOK', MailNext, CursorOK, UNCHANGED cursor, NEW m,
           Beyond(m) \/ (m \in Inbox /\ NameOf(m) # NameOf(m)')
    PROVE  Beyond(m)'
<1>0. /\ {server.validity, server'.validity, server.uid} \subseteq Nat
      /\ server.validity <= server'.validity
      /\ cursor[1] \in Nat /\ cursor[2] \in Nat /\ cursor[1] <= server.validity
  BY Numbers DEF MailNext, MailOK, MailTyped, CursorOK
<1> SUFFICES ASSUME m \in Inbox', cursor[1] = server'.validity
             PROVE  box'[m].uid > cursor[2]
  BY DEF Beyond
<1>1. server'.validity = server.validity /\ cursor[2] < server.uid
  BY <1>0 DEF CursorOK
<1>2. box'[m].uid \in Nat
  BY DEF MailOK, MailTyped, Boxes, Inbox
<1>3. \/ m \in Inbox /\ box'[m].uid = box[m].uid
      \/ box'[m].uid >= server.uid
  BY <1>1 DEF MailNext
<1>4. CASE box'[m].uid >= server.uid
  BY <1>0, <1>1, <1>2, <1>4
<1>5. CASE m \in Inbox /\ box'[m].uid = box[m].uid
  <2>1. NameOf(m)' = NameOf(m)
    BY <1>1, <1>5 DEF NameOf
  <2> QED
    BY <1>1, <1>5, <2>1 DEF Beyond
<1> QED
  BY <1>3, <1>4, <1>5

LEMMA CallSteps ==
    ASSUME MailOK, MailOK', MailNext, LedgerOK, LedgerNext, RunOK, CursorOK, CallStands,
           [Next]_vars
    PROVE  CallStands'
<1>0. run \in Runs /\ cursor[1] \in Nat
  BY DEF RunOK, CursorOK
<1>1. CASE run' = run /\ UNCHANGED cursor
  <2>0. PICK m : m = ledger[run.name].message
    OBVIOUS
  <2>1. run.pc \in {"move", "record"} => m = ledger'[run.name].message
    BY <2>0 DEF RunOK, LedgerNext, Judged
  <2>2. ASSUME run.pc = "move"
        PROVE  (m \in Inbox' /\ NameOf(m)' = run.name) \/ Beyond(m)'
    <3>1. (m \in Inbox /\ NameOf(m) = run.name) \/ Beyond(m)
      BY <2>0, <2>2 DEF CallStands
    <3>2. CASE m \notin Inbox'
      BY <3>2 DEF Beyond
    <3>3. CASE m \in Inbox'
      BY <1>1, <3>1, <3>3, BeyondKept
    <3> QED
      BY <3>2, <3>3
  <2>3. ASSUME run.pc = "record", run.outcome = "moved"
        PROVE  Beyond(m)'
    <3>1. Beyond(m)
      BY <2>0, <2>3 DEF CallStands
    <3> QED
      BY <1>1, <3>1, BeyondKept
  <2> QED
    BY <1>1, <2>1, <2>2, <2>3 DEF CallStands
<1>2. CASE Examine
  <2>1. PICK n \in run.todo :
          run' = [run EXCEPT !.todo = run.todo \ {n}, !.name = n, !.outcome = Verdict(n),
                    !.pc = IF Verdict(n) = "move" THEN "move" ELSE "record"]
    BY <1>2 DEF Examine
  <2>2. run.session = server.validity /\ UNCHANGED <<box, server, ledger, cursor>>
    BY <1>2 DEF Examine, SameNamespace
  <2>3. /\ run'.name = n /\ run'.outcome = Verdict(n)
        /\ run'.pc = IF Verdict(n) = "move" THEN "move" ELSE "record"
    BY <1>0, <2>1 DEF Runs
  <2>4. n \in AnyName /\ Judged(n)
    BY <1>0 DEF RunOK, Runs
  <2>5. ASSUME Verdict(n) = "move"
        PROVE  ledger[n].message \in Inbox /\ NameOf(ledger[n].message) = n
    <3>1. n[1] = run.session /\ At(n[2]) # {}
      BY <2>5 DEF Verdict
    <3>2. PICK k \in Inbox : box[k].uid = n[2]
      BY <3>1 DEF At
    <3>3. NameOf(k) = n
      BY <2>2, <2>4, <3>1, <3>2 DEF NameOf, AnyName
    <3> QED
      BY <2>4, <3>2, <3>3, RowAt
  <2>6. Verdict(n) # "moved"
    BY DEF Verdict
  <2>7. \A m : NameOf(m)' = NameOf(m) /\ Inbox' = Inbox
    BY <2>2 DEF NameOf, Inbox
  <2> QED
    BY <2>2, <2>3, <2>5, <2>6, <2>7 DEF CallStands
<1>3. CASE Move
  <2>0. PICK m : m = ledger[run.name].message
    OBVIOUS
  <2>1. /\ run.pc = "move" /\ run.session = server.validity /\ UNCHANGED <<ledger, cursor>>
        /\ run' = [run EXCEPT !.pc = "record", !.outcome = "moved"] \/ run' = NoRun
    BY <1>3 DEF Move, SameNamespace
  <2>2. run'.pc = "idle" \/ (run'.pc = "record" /\ run'.name = run.name)
    BY <1>0, <2>1, NoRunOK DEF Runs
  <2>3. Beyond(m)'
    <3>1. CASE At(run.name[2]) = {}
      <4>1. UNCHANGED <<box, server>>
        BY <1>3, <3>1 DEF Move
      <4>2. ~(m \in Inbox /\ NameOf(m) = run.name)
        BY <2>1, <3>1 DEF At, NameOf, RunOK
      <4>3. Beyond(m)
        BY <2>0, <2>1, <4>2 DEF CallStands
      <4> QED
        BY <2>1, <4>1, <4>3 DEF Beyond, Inbox
    <3>2. CASE At(run.name[2]) # {}
      <4>1. PICK k \in At(run.name[2]) : Filed(k, run.to)
        BY <1>3, <3>2 DEF Move
      <4>2. /\ Judged(run.name) /\ run.name[1] = server.validity
            /\ run.name \in AnyName /\ run.to \in {"quarantine", "trash"}
        BY <1>0, <2>1 DEF RunOK, Runs
      <4>3. k \in Inbox /\ NameOf(k) = run.name
        BY <4>2 DEF At, NameOf, AnyName
      <4>4. m = k
        BY <2>0, <4>2, <4>3, RowAt
      <4>5. events' \in 0..events
        BY <1>3, Numbers DEF Move, Event
      <4>6. k \notin Inbox'
        BY <4>1, <4>2, <4>3, <4>5, FiledStep
      <4> QED
        BY <4>4, <4>6 DEF Beyond
    <3> QED
      BY <3>1, <3>2
  <2> QED
    BY <2>0, <2>1, <2>2, <2>3 DEF CallStands
<1>4. CASE run'.pc \notin {"move", "record"}
  BY <1>4 DEF CallStands
<1> QED
  <2>1. CASE \/ OpenReader \/ ResetCursor \/ SearchNew \/ FetchIdentity \/ LearnRestored
             \/ SetCursor \/ Scan \/ Select \/ OpenExecutor \/ Mark \/ MarkFails
             \/ SkipCandidate \/ RecordOutcome \/ EndRun \/ SessionLost \/ Crash
    <3>1. run'.pc \notin {"move", "record"}
      BY <1>0, <2>1, NoRunOK DEF NoRun, Runs, OpenReader, ResetCursor, SearchNew, FetchIdentity,
         LearnRestored, SetCursor, Scan, Select, OpenExecutor, Mark, MarkFails, SkipCandidate,
         RecordOutcome, EndRun, SessionLost, Crash
    <3> QED
      BY <1>4, <3>1
  <2>2. CASE ChangeValidity \/ (\E n \in DOMAIN ledger : AnswerInInbox(n)) \/ UNCHANGED vars
    BY <1>1, <2>2 DEF ChangeValidity, AnswerInInbox, vars
  <2>3. ASSUME NEW m \in Messages,
               \/ Arrive(m) \/ PutBack(m) \/ UserActs(m) \/ FileInQuarantine(m)
               \/ LinkInQuarantine(m) \/ AnswerInQuarantine(m)
        PROVE  CallStands'
    BY <1>1, <2>3 DEF Arrive, PutBack, UserActs, FileInQuarantine, LinkInQuarantine,
                      AnswerInQuarantine
  <2> QED
    BY <1>2, <1>3, <2>1, <2>2, <2>3 DEF Next, RunStep

\* What the cursor passes has been learned; what is recorded is beyond it.
LEMMA LearnedSteps ==
    ASSUME MailOK, MailOK', MailNext, LedgerOK, LedgerNext, RecordOutcome \/ LedgerKept,
           RunOK, CursorOK, CursorOK', Collected, CallStands, LearnedBehindCursor, [Next]_vars
    PROVE  LearnedBehindCursor'
<1>0. /\ {server.validity, server'.validity, server.uid} \subseteq Nat
      /\ server.validity <= server'.validity
      /\ cursor \in Nat \X Nat /\ cursor[1] <= server.validity
      /\ run \in Runs /\ run.latest \in Nat
  BY Numbers DEF MailNext, MailOK, MailTyped, CursorOK, RunOK, Runs
<1>1. LearnedBehindCursor <=>
        (cursor[1] = server.validity =>
           \A m \in Inbox \ Nameless :
               box[m].uid > baseline /\ box[m].uid <= cursor[2] => AllRestored(m))
  BY DEF LearnedBehindCursor, Unlearned, AllRestored
<1>2. LearnedBehindCursor' <=>
        (cursor'[1] = server'.validity =>
           \A m \in Inbox' \ Nameless :
               box'[m].uid > baseline' /\ box'[m].uid <= cursor'[2] => AllRestored(m)')
  BY DEF LearnedBehindCursor, Unlearned, AllRestored
<1>3. CASE UNCHANGED <<cursor, baseline>>
  <2> SUFFICES ASSUME cursor[1] = server'.validity, NEW m \in Inbox' \ Nameless,
                      box'[m].uid > baseline, box'[m].uid <= cursor[2]
               PROVE  AllRestored(m)'
    BY <1>2, <1>3
  <2>1. server'.validity = server.validity /\ cursor[2] \in Nat /\ cursor[2] < server.uid
    BY <1>0 DEF CursorOK
  <2>2. m \in Inbox /\ box'[m].uid = box[m].uid
    BY <2>1, NoneNewBelow
  <2>3. AllRestored(m)
    BY <1>1, <2>1, <2>2
  <2>4. CASE LedgerKept
    BY <2>3, <2>4, RestoredKept
  <2>5. CASE RecordOutcome
    <3>0. run.pc = "record"
      BY <2>5 DEF RecordOutcome
    <3>1. ledger' = [ledger EXCEPT ![run.name].execution = run.outcome]
      BY <2>5 DEF RecordOutcome
    <3>2. run.name \in DOMAIN ledger /\ \A n \in DOMAIN ledger : ledger[n] \in Rows
      BY <3>0 DEF RunOK, LedgerOK, Judged
    <3>3. run.outcome = "moved" => m # ledger[run.name].message
      <4>1. run.outcome = "moved" => Beyond(ledger[run.name].message)
        BY <3>0 DEF CallStands
      <4>2. ~Beyond(m)
        <5>1. box[m].uid \in Nat
          BY <2>2, Numbers DEF Inbox
        <5> QED
          BY <2>1, <2>2, <5>1 DEF Beyond
      <4> QED
        BY <4>1, <4>2
    <3>4. ASSUME NEW n \in DOMAIN ledger', ledger'[n].message = m,
                 ledger'[n].execution = "moved"
          PROVE  ledger'[n].restored
      <4>1. n \in DOMAIN ledger /\ ledger'[n].message = ledger[n].message
        BY <3>1, <3>2, <3>4 DEF LedgerNext
      <4>2. ledger'[n].restored = ledger[n].restored
        BY <3>1, <3>2, <4>1 DEF Rows
      <4>3. CASE n = run.name
        <5>1. ledger'[n].execution = run.outcome
          BY <3>1, <3>2, <4>3 DEF Rows
        <5> QED
          BY <3>3, <3>4, <4>1, <4>3, <5>1
      <4>4. CASE n # run.name
        BY <2>3, <3>1, <3>4, <4>1, <4>4 DEF AllRestored
      <4> QED
        BY <4>3, <4>4
    <3> QED
      BY <3>4 DEF AllRestored
  <2> QED
    BY <2>4, <2>5
<1>4. CASE ResetCursor
  <2>1. cursor' = <<run.session, LastUid>> /\ baseline' = LastUid
    BY <1>4 DEF ResetCursor
  <2>2. \A m \in Inbox' : box'[m].uid \in Nat
    BY DEF MailOK, MailTyped, Boxes, Inbox
  <2> QED
    BY <1>2, <2>1, <2>2, LastBelowNext
<1>5. CASE SetCursor
  <2>1. /\ cursor' = <<run.session, run.latest>> /\ run.pc = "identify"
        /\ run.found = {} /\ run.identities = {}
        /\ UNCHANGED <<box, server, ledger, baseline>>
    BY <1>5 DEF SetCursor
  <2>2. Inbox' = Inbox /\ \A m : AllRestored(m)' = AllRestored(m)
    BY <2>1 DEF Inbox, AllRestored
  <2> SUFFICES ASSUME run.session = server.validity, NEW m \in Inbox \ Nameless,
                      box[m].uid > baseline, box[m].uid <= run.latest
               PROVE  AllRestored(m)
    BY <1>2, <2>1, <2>2
  <2>3. cursor[1] = server.validity
    BY <2>1 DEF Collected
  <2>4. CASE box[m].uid <= cursor[2]
    BY <1>1, <2>3, <2>4
  <2>5. CASE box[m].uid > cursor[2]
    BY <2>1, <2>5 DEF Collected
  <2>6. box[m].uid \in Nat /\ cursor[2] \in Nat
    BY <1>0, Numbers DEF Inbox
  <2> QED
    BY <2>4, <2>5, <2>6
<1> QED
  BY <1>3, <1>4, <1>5, CursorMoves

-----------------------------------------------------------------------------
(***************************************************************************)
(* The invariant, and what follows from it.                                *)
(***************************************************************************)
\* Nothing has a name before the first message arrives.
LEMMA InitInv == Init => IInv
<1> SUFFICES ASSUME Init
             PROVE  IInv
  OBVIOUS
<1> USE DEF Init
<1>1. MaxEvents \in Nat /\ Limit \in Nat
  BY YahooAssumption
<1>2. Inbox = {}
  BY DEF Inbox
<1>3. Cardinality(Inbox) = 0 /\ Cardinality({}) = 0
  BY <1>2, FS_EmptySet
<1>4. MailTyped
  BY <1>1 DEF MailTyped, Boxes
<1>5. Counted
  BY <1>1, <1>3 DEF Counted
<1>6. NamedOnce /\ NamedBefore /\ PresentNamed
  BY <1>2 DEF NamedOnce, NamedBefore, PresentNamed
<1>7. DOMAIN ledger = {} /\ ledger \in [{} -> Rows]
  OBVIOUS
<1>8. LedgerOK /\ MovesNamed
  BY <1>7 DEF LedgerOK, NamesAreTrue, MovesNamed
<1>9. RunOK
  BY <1>1, <1>3, NoRunOK DEF RunOK, NoRun
<1>10. CursorOK
  BY DEF CursorOK, NoCursor
<1>11. Collected /\ CallStands /\ LearnedBehindCursor
  BY <1>2, NoRunOK DEF Collected, CallStands, LearnedBehindCursor, NoRun
<1> QED
  BY <1>4, <1>5, <1>6, <1>8, <1>9, <1>10, <1>11 DEF MailOK, IInv

LEMMA NextInv == IInv /\ [Next]_vars => IInv'
<1> SUFFICES ASSUME IInv, [Next]_vars
             PROVE  IInv'
  OBVIOUS
<1> USE DEF IInv
<1>1. MailOK' /\ MailNext
  BY MailSteps
<1>2. LedgerOK' /\ LedgerNext /\ (RecordOutcome \/ LedgerKept)
  BY LedgerSteps
<1>3. RunOK' /\ MovesNamed'
  BY <1>1, <1>2, RunSteps, MovesSteps
<1>4. CursorOK'
  BY <1>1, CursorSteps
<1>5. Collected'
  BY <1>1, <1>2, <1>3, CollectedSteps
<1>6. CallStands'
  BY <1>1, <1>2, CallSteps
<1>7. LearnedBehindCursor'
  BY <1>1, <1>2, <1>4, LearnedSteps
<1> QED
  BY <1>1, <1>2, <1>3, <1>4, <1>5, <1>6, <1>7

\* The inductive invariant: numbers and names of the mailbox, what the ledger, the run
\* and the cursor hold, and what is behind the cursor.
THEOREM YahooInductive == Spec => []IInv
  BY InitInv, NextInv, PTL DEF Spec

\* The types: what is to be marked or moved is a row of the ledger, and a UID of Inbox
\* is of one message.
THEOREM YahooTypes == Spec => []TypeOK
<1>1. IInv => TypeOK
  BY OneAName DEF IInv, TypeOK, MailOK, MailTyped, LedgerOK, RunOK, Judged
<1> QED
  BY <1>1, YahooInductive, PTL

\* Every row is about the message that was given its name: in Inbox, in whatever
\* namespace, or for a link in the quarantine folder, whose namespace may be the same.
THEOREM YahooNames == Spec => []NamesAreTrue
<1>1. IInv => NamesAreTrue
  BY DEF IInv, LedgerOK
<1> QED
  BY <1>1, YahooInductive, PTL

\* What UID MOVE takes is the message that was judged under that name.
THEOREM YahooMoves == Spec => []MoveHitsJudged
<1>1. IInv => MoveHitsJudged
  <2> SUFFICES ASSUME IInv, NEW move \in moves
               PROVE  ledger[move[1]].message = move[2]
    BY DEF MoveHitsJudged
  <2>1. /\ <<"inbox", move[1], move[2]>> \in named
        /\ <<"inbox", move[1], ledger[move[1]].message>> \in named
    BY DEF IInv, MovesNamed, LedgerOK, NamesAreTrue, Judged
  <2>2. <<"inbox", move[1], move[2]>>[3] = <<"inbox", move[1], ledger[move[1]].message>>[3]
    BY <2>1 DEF IInv, MailOK, NamedOnce
  <2> QED
    BY <2>2
<1> QED
  BY <1>1, YahooInductive, PTL

\* The cursor passes no message put back by the user without its restore being learned,
\* if the message has a usable Message-ID.
THEOREM YahooLearned == Spec => []LearnedBehindCursor
<1>1. IInv => LearnedBehindCursor
  BY DEF IInv
<1> QED
  BY <1>1, YahooInductive, PTL
=============================================================================
