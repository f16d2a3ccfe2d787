------------------------- MODULE BaselineStoreProofs -------------------------
(* Theorems about BaselineStore, for any channels, devices and processes. *)
EXTENDS BaselineStore, TLAPS

(* A process in a session holds the lock, and nobody else does. *)
LockInv == \A p \in Proc : pc[p] \in {"open", "replace", "drive"} <=> lock = p

(* Only a book has entries and records duties. *)
BookOK(b) ==
  b \in Content /\ WellFormed(b) /\ (b.kind # "book" => b.entry = NoEntry /\ b.kept = NoDuty)

(* What is about to replace baseline.json extends it by channels of one     *)
(* device, or drops one device whose channels have their duties back; what  *)
(* it refuses stays refused, and what it records is the BMC's.              *)
Pending ==
  \A p \in Proc : pc[p] = "replace" =>
    /\ Readable /\ tmp.kind = "book"
    /\ \A d \in Dev : Book.entry[d] = "invalid" => tmp.entry[d] = "invalid"
    /\ \A c \in Chan \ lost : tmp.kept[c] # None => tmp.kept[c] \in BmcDuty
    /\ job[p] # "release" =>
         /\ \A c \in Chan : tmp.kept[c] # baselineFile.kept[c] =>
                              baselineFile.kept[c] = None /\ DevOf[c] = dev[p]
         /\ \A c \in want[p] : tmp.kept[c] # None
    /\ job[p] = "release" =>
         /\ tmp.kept = [c \in Chan |-> IF DevOf[c] = dev[p] THEN None ELSE baselineFile.kept[c]]
         /\ \A c \in Owned \ lost : DevOf[c] = dev[p] => live[c] \in BmcDuty

(* A command or daemon drives what is on record. *)
Driving ==
  \A p \in Proc : pc[p] = "drive" /\ job[p] # "emergency" => want[p] \subseteq Owned

Files == BookOK(baselineFile) /\ BookOK(tmp)

StoreInv == TypeOK /\ Files /\ LockInv /\ KeptIsBmcs /\ OldRefused /\ Pending /\ Driving

-----------------------------------------------------------------------------
LEMMA BlankOK ==
  \A k \in {"missing", "corrupt", "unscoped", "book"} :
    BookOK(Blank(k)) /\ Blank(k).kind = k /\ Blank(k).kept = NoDuty /\ Blank(k).entry = NoEntry
BY StoreAssumption DEF BookOK, Blank, Content, WellFormed, NoDuty, NoEntry, EntryKind

LEMMA BookIsOK ==
  ASSUME BookOK(baselineFile)
  PROVE  BookOK(Book) /\ Book.kind = "book" /\ Book.kept = baselineFile.kept
<1>1. CASE baselineFile.kind = "book"
  BY <1>1 DEF Book
<1>2. CASE baselineFile.kind # "book"
  BY <1>2, BlankOK DEF Book, BookOK
<1> QED BY <1>1, <1>2

LEMMA CapturedOK ==
  ASSUME BookOK(baselineFile), live \in [Chan -> Duty],
         NEW d \in Dev, NEW cs \in SUBSET ChanOf(d), cs # {}
  PROVE  /\ BookOK(Captured(d, cs)) /\ Captured(d, cs).kind = "book"
         /\ Captured(d, cs).entry = [Book.entry EXCEPT ![d] = "active"]
         /\ Captured(d, cs).kept =
              [c \in Chan |-> IF c \in cs /\ baselineFile.kept[c] = None THEN live[c]
                              ELSE baselineFile.kept[c]]
<1> DEFINE b == Captured(d, cs)
<1>1. BookOK(Book) /\ Book.kept = baselineFile.kept
  BY BookIsOK
<1>2. /\ b.kind = "book" /\ b.entry = [Book.entry EXCEPT ![d] = "active"]
      /\ b.kept = [c \in Chan |-> IF c \in cs /\ baselineFile.kept[c] = None THEN live[c]
                                  ELSE baselineFile.kept[c]]
  BY <1>1 DEF Captured
<1>3. /\ Book.entry \in [Dev -> EntryKind] /\ baselineFile.kept \in [Chan -> Duty \cup {None}]
  BY <1>1 DEF BookOK, Content
<1>4. b \in Content
  BY <1>2, <1>3 DEF Captured, Content, EntryKind
<1>5. None \notin Duty
  BY StoreAssumption DEF Duty
<1>6. ASSUME NEW e \in Dev
      PROVE  b.entry[e] = "active" <=> \E c \in Chan : DevOf[c] = e /\ b.kept[c] # None
  <2>1. CASE e = d
    <3>1. PICK c \in cs : c \in Chan /\ DevOf[c] = d
      BY DEF ChanOf
    <3>2. b.kept[c] # None
      BY <1>2, <1>5, <3>1
    <3>3. b.entry[e] = "active"
      BY <1>2, <1>3, <2>1
    <3> QED BY <2>1, <3>1, <3>2, <3>3
  <2>2. CASE e # d
    <3>1. b.entry[e] = Book.entry[e]
      BY <1>2, <1>3, <2>2
    <3>2. \A c \in Chan : DevOf[c] = e => b.kept[c] = Book.kept[c]
      BY <1>1, <1>2, <2>2 DEF ChanOf
    <3> QED BY <1>1, <3>1, <3>2 DEF BookOK, WellFormed
  <2> QED BY <2>1, <2>2
<1>7. WellFormed(b)
  BY <1>6 DEF WellFormed
<1> QED BY <1>2, <1>4, <1>7 DEF BookOK

LEMMA ReleasedOK ==
  ASSUME BookOK(baselineFile), NEW d \in Dev
  PROVE  /\ BookOK(Released(d)) /\ Released(d).kind = "book"
         /\ Released(d).entry = [Book.entry EXCEPT ![d] = "inactive"]
         /\ Released(d).kept =
              [c \in Chan |-> IF DevOf[c] = d THEN None ELSE baselineFile.kept[c]]
<1> DEFINE b == Released(d)
<1>1. BookOK(Book) /\ Book.kept = baselineFile.kept
  BY BookIsOK
<1>2. /\ b.kind = "book" /\ b.entry = [Book.entry EXCEPT ![d] = "inactive"]
      /\ b.kept = [c \in Chan |-> IF DevOf[c] = d THEN None ELSE baselineFile.kept[c]]
  BY <1>1 DEF Released
<1>3. /\ Book.entry \in [Dev -> EntryKind] /\ baselineFile.kept \in [Chan -> Duty \cup {None}]
  BY <1>1 DEF BookOK, Content
<1>4. b \in Content
  BY <1>2, <1>3 DEF Released, Content, EntryKind
<1>6. ASSUME NEW e \in Dev
      PROVE  b.entry[e] = "active" <=> \E c \in Chan : DevOf[c] = e /\ b.kept[c] # None
  <2>1. CASE e = d
    BY <1>2, <1>3, <2>1
  <2>2. CASE e # d
    <3>1. b.entry[e] = Book.entry[e]
      BY <1>2, <1>3, <2>2
    <3>2. \A c \in Chan : DevOf[c] = e => b.kept[c] = Book.kept[c]
      BY <1>1, <1>2, <2>2
    <3> QED BY <1>1, <3>1, <3>2 DEF BookOK, WellFormed
  <2> QED BY <2>1, <2>2
<1>7. WellFormed(b)
  BY <1>6 DEF WellFormed
<1> QED BY <1>2, <1>4, <1>7 DEF BookOK

-----------------------------------------------------------------------------
LEMMA InitStore == Init => StoreInv
<1> SUFFICES ASSUME Init PROVE StoreInv
  OBVIOUS
<1> USE StoreAssumption
<1>1. BookOK(baselineFile) /\ baselineFile.kept = NoDuty
  <2>1. CASE \E k \in {"missing", "corrupt", "unscoped"} : baselineFile = Blank(k)
    BY <2>1, BlankOK
  <2>2. ASSUME NEW d \in Dev,
               baselineFile = [Blank("book") EXCEPT !.entry = [NoEntry EXCEPT ![d] = "invalid"]]
        PROVE  BookOK(baselineFile) /\ baselineFile.kept = NoDuty
    BY <2>2 DEF Blank, BookOK, Content, WellFormed, NoDuty, NoEntry, EntryKind
  <2> QED BY <2>1, <2>2 DEF Init
<1>2. BookOK(tmp) /\ tmp.kind = "missing"
  BY BlankOK DEF Init
<1>3. AnyDev \in Dev
  BY DEF AnyDev
<1>4. Owned = {} /\ Recorded(tmp) = {}
  BY <1>1, <1>2 DEF Owned, Recorded, NoDuty
<1>5. TypeOK
  BY <1>1, <1>2, <1>3 DEF Init, TypeOK, BookOK, Driven
<1>6. Files
  BY <1>1, <1>2 DEF Files
<1>7. LockInv
  BY DEF Init, LockInv
<1>8. KeptIsBmcs
  BY <1>4 DEF KeptIsBmcs, Init
<1>9. OldRefused
  <2> SUFFICES ASSUME NEW c \in old PROVE ~Known(DevOf[c]) /\ c \notin Owned
    BY DEF OldRefused
  <2>1. c \in Chan /\ Unusable(c)
    BY DEF Init, Driven
  <2> QED BY <1>4, <2>1 DEF Unusable, Known, Readable, Book
<1>10. Pending /\ Driving
  BY DEF Init, Pending, Driving
<1> QED BY <1>5, <1>6, <1>7, <1>8, <1>9, <1>10 DEF StoreInv

-----------------------------------------------------------------------------
(* Steps that leave files in use, registers and history alone. *)
LEMMA QuietStep ==
  ASSUME StoreInv, NEW p \in Proc,
         UNCHANGED <<baselineFile, stateFile, registers, history>>,
         tmp' = tmp \/ (tmp' = Blank("missing") /\ lock = p),
         NEW a \in {"idle", "lock", "open", "drive"}, pc' = [pc EXCEPT ![p] = a],
         NEW j \in Job \cup {"none"}, job' = [job EXCEPT ![p] = j],
         NEW d \in Dev, dev' = [dev EXCEPT ![p] = d],
         NEW w \in SUBSET Chan, want' = [want EXCEPT ![p] = w],
         a = "drive" /\ j # "emergency" => w \subseteq Owned,
         lock' \in {lock, p, Nobody}, lock' # lock => lock \in {p, Nobody},
         a \in {"open", "drive"} <=> lock' = p
  PROVE  StoreInv'
<1> USE StoreAssumption
<1>1. TypeOK /\ Files /\ LockInv /\ KeptIsBmcs /\ OldRefused /\ Pending /\ Driving
  BY DEF StoreInv
<1>2. BookOK(baselineFile) /\ BookOK(tmp) /\ BookOK(tmp') /\ baselineFile' = baselineFile
  BY <1>1, BlankOK DEF Files
<1>3. TypeOK'
  BY <1>1, <1>2 DEF TypeOK, BookOK, registers, history
<1>4. Files'
  BY <1>2 DEF Files, BookOK
<1>5. LockInv'
  BY <1>1 DEF LockInv, TypeOK
<1>6. KeptIsBmcs' /\ OldRefused'
  BY <1>1 DEF KeptIsBmcs, OldRefused, Owned, Recorded, Driven, Known, Readable, Book, registers, history
<1>7. Pending'
  <2> SUFFICES ASSUME NEW q \in Proc, pc'[q] = "replace"
               PROVE  Pending!(q)!2'
    BY DEF Pending
  <2>1. q # p /\ pc[q] = "replace" /\ lock = q /\ tmp' = tmp
    BY <1>1 DEF TypeOK, LockInv
  <2>2. job'[q] = job[q] /\ dev'[q] = dev[q] /\ want'[q] = want[q]
    BY <1>1, <2>1 DEF TypeOK
  <2>3. /\ Readable' = Readable /\ Book' = Book /\ Owned' = Owned
        /\ Recorded(tmp)' = Recorded(tmp)
    BY <2>1 DEF Readable, Book, Owned, Recorded
  <2>4. Pending!(q)!2
    BY <1>1, <2>1, Zenon DEF Pending
  <2> QED BY <2>1, <2>2, <2>3, <2>4 DEF Recorded, registers, history
<1>8. Driving'
  BY <1>1 DEF Driving, TypeOK, Owned, Recorded
<1> QED BY <1>3, <1>4, <1>5, <1>6, <1>7, <1>8 DEF StoreInv

LEMMA QuietActions ==
  ASSUME StoreInv, NEW p \in Proc,
         \/ \E j \in Job, d \in Dev : Ask(p, j, d)
         \/ Acquire(p) \/ GiveUp(p) \/ DriveEnds(p) \/ Kill(p) \/ Term(p) \/ PersistFails(p)
         \/ \E cs \in SUBSET Chan : DriveUnrecorded(p, cs)
  PROVE  StoreInv'
<1> USE StoreAssumption
<1> DEFINE End2 == /\ pc' = [pc EXCEPT ![p] = "idle"] /\ job' = [job EXCEPT ![p] = "none"]
                   /\ dev' = [dev EXCEPT ![p] = AnyDev] /\ want' = [want EXCEPT ![p] = {}]
                   /\ tmp' = (IF lock = p THEN Blank("missing") ELSE tmp)
                   /\ lock' = (IF lock = p THEN Nobody ELSE lock)
                   /\ UNCHANGED <<baselineFile, stateFile, registers, history>>
<1>0. TypeOK /\ LockInv /\ AnyDev \in Dev
  BY DEF StoreInv, AnyDev
<1>1. /\ pc = [pc EXCEPT ![p] = pc[p]] /\ job = [job EXCEPT ![p] = job[p]]
      /\ dev = [dev EXCEPT ![p] = dev[p]] /\ want = [want EXCEPT ![p] = want[p]]
      /\ job[p] \in Job \cup {"none"} /\ dev[p] \in Dev /\ want[p] \in SUBSET Chan
  BY <1>0 DEF TypeOK
<1>2. ASSUME End2 PROVE StoreInv'
  BY <1>2, <1>0, QuietStep
<1>3. ASSUME NEW j \in Job, NEW d \in Dev, Ask(p, j, d) PROVE StoreInv'
  <2>1. lock # p
    BY <1>0, <1>3 DEF Ask, LockInv
  <2> QED BY <1>1, <1>3, <2>1, QuietStep DEF Ask, Goto, files
<1>4. CASE Acquire(p)
  BY <1>0, <1>1, <1>4, QuietStep DEF Acquire, Goto, files
<1>5. CASE GiveUp(p) \/ DriveEnds(p) \/ Kill(p)
  BY <1>2, <1>5 DEF GiveUp, DriveEnds, Kill, End, Goto
<1>6. CASE Term(p)
  <2>1. lock = p
    BY <1>0, <1>6 DEF Term, LockInv
  <2> QED BY <1>1, <1>6, <2>1, QuietStep DEF Term, Goto, files, Job
<1>7. CASE PersistFails(p)
  <2>1. lock = p
    BY <1>0, <1>7 DEF PersistFails, LockInv
  <2>2. CASE job[p] = "emergency"
    <3>1. /\ pc' = [pc EXCEPT ![p] = "drive"] /\ tmp' = Blank("missing")
          /\ UNCHANGED <<lock, job, dev, want>>
          /\ UNCHANGED <<baselineFile, stateFile, registers, history>>
      BY <1>7, <2>2 DEF PersistFails, Proceed, Goto
    <3> QED BY <1>1, <2>1, <2>2, <3>1, QuietStep
  <2>3. CASE job[p] # "emergency"
    BY <1>2, <1>7, <2>3 DEF PersistFails, End, Goto
  <2> QED BY <2>2, <2>3
<1>8. ASSUME NEW cs \in SUBSET Chan, DriveUnrecorded(p, cs) PROVE StoreInv'
  <2>1. lock = p
    BY <1>0, <1>8 DEF DriveUnrecorded, LockInv
  <2> QED BY <1>1, <1>8, <2>1, QuietStep DEF DriveUnrecorded, Goto, files
<1> QED BY <1>3, <1>4, <1>5, <1>6, <1>7, <1>8

-----------------------------------------------------------------------------
(* What the invariant says of the book, in the terms of the steps. *)
LEMMA BookFacts ==
  ASSUME StoreInv
  PROVE  /\ baselineFile.kept \in [Chan -> Duty \cup {None}] /\ None \notin Duty
         /\ live \in [Chan -> Duty] /\ Book.kept = baselineFile.kept
         /\ Owned = {c \in Chan : baselineFile.kept[c] # None}
         /\ \A c \in Chan \ lost : baselineFile.kept[c] # None => baselineFile.kept[c] \in BmcDuty
         /\ \A c \in Chan \ lost :
              live[c] \in BmcDuty \/ baselineFile.kept[c] # None \/ ~Known(DevOf[c])
<1> USE StoreAssumption
<1>1. BookOK(baselineFile) /\ TypeOK /\ KeptIsBmcs /\ OldRefused
  BY DEF StoreInv, Files
<1>2. baselineFile.kept \in [Chan -> Duty \cup {None}] /\ None \notin Duty /\ live \in [Chan -> Duty]
  BY <1>1 DEF BookOK, Content, Duty, TypeOK
<1>3. Owned = {c \in Chan : baselineFile.kept[c] # None}
  BY <1>1 DEF Owned, Recorded, BookOK, NoDuty
<1>4. Book.kept = baselineFile.kept
  BY <1>1, BookIsOK
<1>5. \A c \in Chan \ lost : baselineFile.kept[c] # None => baselineFile.kept[c] \in BmcDuty
  BY <1>1, <1>3 DEF KeptIsBmcs
<1>6. \A c \in Chan \ lost :
        live[c] \in BmcDuty \/ baselineFile.kept[c] # None \/ ~Known(DevOf[c])
  BY <1>1, <1>2, <1>3 DEF KeptIsBmcs, OldRefused, Driven, Duty
<1> QED BY <1>2, <1>3, <1>4, <1>5, <1>6

LEMMA CaptureStep ==
  ASSUME StoreInv, NEW p \in Proc, NEW cs \in SUBSET Chan, Capture(p, cs)
  PROVE  StoreInv'
<1> USE StoreAssumption
<1>0. TypeOK /\ Files /\ LockInv /\ KeptIsBmcs /\ OldRefused /\ Pending /\ Driving
  BY DEF StoreInv
<1>1. /\ pc[p] = "open" /\ job[p] # "release" /\ lock = p /\ dev[p] \in Dev
      /\ cs # {} /\ cs \subseteq enabled \cap ChanOf(dev[p]) /\ Known(dev[p])
  BY <1>0 DEF Capture, LockInv, TypeOK
<1>2. /\ tmp' = Captured(dev[p], cs) /\ want' = [want EXCEPT ![p] = cs]
      /\ pc' = [pc EXCEPT ![p] = "replace"]
      /\ UNCHANGED <<baselineFile, stateFile, live, enabled, lock, job, dev, old, lost>>
  BY DEF Capture, Goto, registers, history
<1>3. /\ BookOK(tmp') /\ tmp'.kind = "book"
      /\ tmp'.entry = [Book.entry EXCEPT ![dev[p]] = "active"]
      /\ tmp'.kept = [c \in Chan |-> IF c \in cs /\ baselineFile.kept[c] = None THEN live[c]
                                     ELSE baselineFile.kept[c]]
  <2>1. BookOK(baselineFile) /\ live \in [Chan -> Duty]
    BY <1>0 DEF Files, TypeOK
  <2>2. cs \in SUBSET ChanOf(dev[p]) /\ cs # {} /\ dev[p] \in Dev /\ tmp' = Captured(dev[p], cs)
    BY <1>1, <1>2
  <2> QED BY <2>1, <2>2, CapturedOK
<1>4. TypeOK'
  <2>1. tmp' \in Content /\ WellFormed(tmp')
    BY <1>3 DEF BookOK
  <2>2. pc' \in [Proc -> {"idle", "lock", "open", "replace", "drive"}] /\ want' \in [Proc -> SUBSET Chan]
    BY <1>0, <1>2 DEF TypeOK
  <2>3. baselineFile' \in Content /\ WellFormed(baselineFile')
    BY <1>0, <1>2 DEF TypeOK
  <2> QED BY <1>0, <1>2, <2>1, <2>2, <2>3 DEF TypeOK
<1>5. Files'
  BY <1>0, <1>2, <1>3 DEF Files, BookOK
<1>6. LockInv'
  BY <1>0, <1>1, <1>2 DEF LockInv, TypeOK
<1>7. KeptIsBmcs' /\ OldRefused'
  BY <1>0, <1>2 DEF KeptIsBmcs, OldRefused, Owned, Recorded, Driven, Known, Readable, Book
<1>8. Pending'
  <2> SUFFICES ASSUME NEW q \in Proc, pc'[q] = "replace" PROVE Pending!(q)!2'
    BY DEF Pending
  <2>1. q = p
    BY <1>0, <1>1, <1>2 DEF LockInv, TypeOK
  <2>2. Readable' /\ tmp'.kind = "book" /\ job'[q] # "release"
    BY <1>1, <1>2, <1>3, <2>1 DEF Known, Readable
  <2>3. Book' = Book /\ Book.entry \in [Dev -> EntryKind]
    BY <1>0, <1>2, BookIsOK DEF Book, Files, BookOK, Content
  <2>4. \A d \in Dev : Book'.entry[d] = "invalid" => tmp'.entry[d] = "invalid"
    BY <1>1, <1>3, <2>3 DEF Known
  <2>5. \A c \in Chan \ lost' : tmp'.kept[c] # None => tmp'.kept[c] \in BmcDuty
    BY <1>1, <1>2, <1>3, BookFacts DEF ChanOf
  <2>6. \A c \in Chan : tmp'.kept[c] # baselineFile'.kept[c] =>
                          baselineFile'.kept[c] = None /\ DevOf[c] = dev'[p]
    BY <1>1, <1>2, <1>3 DEF ChanOf
  <2>7. \A c \in want'[p] : tmp'.kept[c] # None
    BY <1>0, <1>1, <1>2, <1>3, BookFacts DEF ChanOf, TypeOK
  <2> QED BY <2>1, <2>2, <2>4, <2>5, <2>6, <2>7
<1>9. Driving'
  BY <1>0, <1>2 DEF Driving, TypeOK, Owned, Recorded
<1> QED BY <1>4, <1>5, <1>6, <1>7, <1>8, <1>9 DEF StoreInv

LEMMA RestoreStep ==
  ASSUME StoreInv, NEW p \in Proc, NEW part \in SUBSET Chan, RestoreSome(p, part)
  PROVE  StoreInv'
<1> USE StoreAssumption
<1>0. TypeOK /\ Files /\ LockInv /\ KeptIsBmcs /\ OldRefused /\ Pending /\ Driving /\ AnyDev \in Dev
  BY DEF StoreInv, AnyDev
<1>1. /\ pc[p] = "open" /\ job[p] = "release" /\ lock = p /\ dev[p] \in Dev
      /\ part \subseteq Owned \cap ChanOf(dev[p])
      /\ Known(dev[p]) /\ Book.entry[dev[p]] = "active"
  BY <1>0 DEF RestoreSome, LockInv, TypeOK
<1>2. /\ live' = [c \in Chan |-> IF c \in part THEN baselineFile.kept[c] ELSE live[c]]
      /\ UNCHANGED <<baselineFile, stateFile, enabled, old, lost>>
  BY BookFacts DEF RestoreSome, history
<1>3. live' \in [Chan -> Duty] /\ \A c \in part \ lost : live'[c] \in BmcDuty
  BY <1>1, <1>2, BookFacts
<1>7. Owned' = Owned /\ Book' = Book /\ (Readable' <=> Readable)
  BY <1>2 DEF Owned, Recorded, Book, Readable
<1>8. OldRefused'
  BY <1>0, <1>2, <1>7 DEF OldRefused, Known
<1>9. \A c \in Driven' \ lost' : c \in Driven
  BY <1>2, <1>3 DEF Driven
<1>4. KeptIsBmcs' /\ OldRefused'
  BY <1>0, <1>2, <1>7, <1>8, <1>9 DEF KeptIsBmcs
<1>5. CASE part # Owned \cap ChanOf(dev[p])
  <2>1. /\ pc' = [pc EXCEPT ![p] = "idle"] /\ job' = [job EXCEPT ![p] = "none"]
        /\ dev' = [dev EXCEPT ![p] = AnyDev] /\ want' = [want EXCEPT ![p] = {}]
        /\ tmp' = Blank("missing") /\ lock' = Nobody
    BY <1>1, <1>5 DEF RestoreSome, End, Goto
  <2>2. BookOK(tmp')
    BY <2>1, BlankOK
  <2>3. TypeOK' /\ Files'
    BY <1>0, <1>2, <1>3, <2>1, <2>2 DEF TypeOK, Files, BookOK
  <2>4. LockInv' /\ Pending' /\ Driving'
    BY <1>0, <1>1, <1>2, <2>1 DEF TypeOK, LockInv, Pending, Driving, Owned, Recorded
  <2> QED BY <1>4, <2>3, <2>4 DEF StoreInv
<1>6. CASE part = Owned \cap ChanOf(dev[p])
  <2>1. /\ tmp' = Released(dev[p]) /\ pc' = [pc EXCEPT ![p] = "replace"]
        /\ UNCHANGED <<lock, job, dev, want>>
    BY <1>6 DEF RestoreSome, Goto
  <2>2. /\ BookOK(tmp') /\ tmp'.kind = "book"
        /\ tmp'.entry = [Book.entry EXCEPT ![dev[p]] = "inactive"]
        /\ tmp'.kept = [c \in Chan |-> IF DevOf[c] = dev[p] THEN None ELSE baselineFile.kept[c]]
    BY <1>0, <1>1, <2>1, ReleasedOK DEF Files
  <2>3. TypeOK' /\ Files'
    BY <1>0, <1>2, <1>3, <2>1, <2>2 DEF TypeOK, Files, BookOK
  <2>4. LockInv' /\ Driving'
    BY <1>0, <1>1, <1>2, <2>1 DEF TypeOK, LockInv, Driving, Owned, Recorded
  <2>5. Pending'
    <3> SUFFICES ASSUME NEW q \in Proc, pc'[q] = "replace" PROVE Pending!(q)!2'
      BY DEF Pending
    <3>1. q = p
      BY <1>0, <1>1, <2>1 DEF LockInv, TypeOK
    <3>2. Readable' /\ job'[q] = "release" /\ dev'[q] = dev[p]
      BY <1>1, <1>2, <2>1, <3>1 DEF Known, Readable
    <3>3. Book' = Book /\ Book.entry \in [Dev -> EntryKind]
      BY <1>0, <1>2, BookIsOK DEF Book, Files, BookOK, Content
    <3>4. \A d \in Dev : Book'.entry[d] = "invalid" => tmp'.entry[d] = "invalid"
      BY <1>1, <2>2, <3>3
    <3>5. \A c \in Chan \ lost' : tmp'.kept[c] # None => tmp'.kept[c] \in BmcDuty
      BY <1>2, <2>2, BookFacts
    <3>6. \A c \in Owned' \ lost' : DevOf[c] = dev[p] => live'[c] \in BmcDuty
      BY <1>2, <1>3, <1>6 DEF ChanOf, Owned, Recorded
    <3> QED BY <1>2, <2>2, <3>2, <3>4, <3>5, <3>6
  <2> QED BY <1>4, <2>3, <2>4, <2>5 DEF StoreInv
<1> QED BY <1>5, <1>6

LEMMA ReplaceStep ==
  ASSUME StoreInv, NEW p \in Proc, Replace(p)
  PROVE  StoreInv'
<1> USE StoreAssumption
<1>0. TypeOK /\ Files /\ LockInv /\ KeptIsBmcs /\ OldRefused /\ Pending /\ Driving /\ AnyDev \in Dev
  BY DEF StoreInv, AnyDev
<1>1. /\ pc[p] = "replace" /\ lock = p /\ dev[p] \in Dev /\ Readable /\ BookOK(tmp)
      /\ tmp.kind = "book" /\ (\A d \in Dev : Book.entry[d] = "invalid" => tmp.entry[d] = "invalid")
  BY <1>0 DEF Replace, LockInv, TypeOK, Pending, Files
<1>2. /\ baselineFile' = tmp /\ tmp' = Blank("missing") /\ BookOK(tmp')
      /\ UNCHANGED <<stateFile, live, enabled, old, lost>>
      /\ job[p] # "release" => /\ pc' = [pc EXCEPT ![p] = "drive"]
                               /\ UNCHANGED <<lock, job, dev, want>>
      /\ job[p] = "release" => /\ pc' = [pc EXCEPT ![p] = "idle"]
                               /\ job' = [job EXCEPT ![p] = "none"]
                               /\ dev' = [dev EXCEPT ![p] = AnyDev]
                               /\ want' = [want EXCEPT ![p] = {}]
                               /\ lock' = Nobody
  BY <1>1, BlankOK DEF Replace, Proceed, End, Goto, registers, history
<1>3. Book' = tmp /\ Owned' = {c \in Chan : tmp.kept[c] # None}
  BY <1>1, <1>2 DEF Book, Owned, Recorded
<1>4. \A c \in Chan \ lost : tmp.kept[c] # None => tmp.kept[c] \in BmcDuty
  BY <1>0, <1>1 DEF Pending
<1>5. \A c \in Owned \ Owned' : c \in lost \/ live[c] \in BmcDuty
  <2>1. CASE job[p] # "release"
    BY <1>0, <1>1, <1>3, <2>1, BookFacts DEF Pending
  <2>2. CASE job[p] = "release"
    <3>1. tmp.kept = [c \in Chan |-> IF DevOf[c] = dev[p] THEN None ELSE baselineFile.kept[c]]
      BY <1>0, <1>1, <2>2 DEF Pending
    <3>2. \A c \in Owned \ lost : DevOf[c] = dev[p] => live[c] \in BmcDuty
      BY <1>0, <1>1, <2>2 DEF Pending
    <3> QED BY <1>3, <3>1, <3>2, BookFacts
  <2> QED BY <2>1, <2>2
<1>6. KeptIsBmcs'
  BY <1>0, <1>2, <1>3, <1>4, <1>5 DEF KeptIsBmcs, Driven
<1>7. OldRefused'
  <2> SUFFICES ASSUME NEW c \in old PROVE (~Known(DevOf[c]) /\ c \notin Owned)'
    BY <1>2 DEF OldRefused
  <2>1. c \in Chan /\ DevOf[c] \in Dev /\ Book.entry[DevOf[c]] = "invalid"
    BY <1>0, <1>1 DEF TypeOK, OldRefused, Known
  <2>2. tmp.entry[DevOf[c]] = "invalid"
    BY <1>1, <2>1
  <2>3. tmp.kept[c] = None
    BY <1>1, <2>1, <2>2 DEF BookOK, WellFormed
  <2> QED BY <1>2, <1>3, <2>2, <2>3 DEF Known
<1>8. TypeOK' /\ Files'
  <2>1. BookOK(tmp) /\ BookOK(tmp') /\ baselineFile' = tmp
    BY <1>1, <1>2
  <2>2. BookOK(baselineFile')
    BY <1>0, <1>2 DEF Files
  <2> QED BY <1>0, <1>1, <1>2, <2>1, <2>2 DEF TypeOK, Files, BookOK, Job
<1>9. LockInv'
  BY <1>0, <1>1, <1>2 DEF LockInv, TypeOK
<1>10. Pending'
  BY <1>0, <1>1, <1>2 DEF Pending, LockInv, TypeOK
<1>11. Driving'
  <2> SUFFICES ASSUME NEW q \in Proc, pc'[q] = "drive", job'[q] # "emergency"
               PROVE  want'[q] \subseteq Owned'
    BY DEF Driving
  <2>1. q = p /\ job[p] # "release"
    BY <1>0, <1>1, <1>2 DEF LockInv, TypeOK
  <2>2. \A c \in want[p] : tmp.kept[c] # None
    BY <1>0, <1>1, <2>1 DEF Pending
  <2> QED BY <1>0, <1>2, <1>3, <2>1, <2>2 DEF TypeOK
<1> QED BY <1>6, <1>7, <1>8, <1>9, <1>10, <1>11 DEF StoreInv

(* Steps of the heartbeat, the drives and the BMC change no session. *)
LEMMA OutsideStep ==
  ASSUME StoreInv,
         \/ \E p \in Proc : Heartbeat(p) \/ \E c \in Chan, v \in DriveDuty : DriveOne(p, c, v)
         \/ InjectHeartbeat \/ Bmc
  PROVE  StoreInv'
<1> USE StoreAssumption
<1>0. TypeOK /\ Files /\ LockInv /\ KeptIsBmcs /\ OldRefused /\ Pending /\ Driving
  BY DEF StoreInv
<1>1. UNCHANGED <<baselineFile, tmp, lock, pc, job, dev, want>>
  BY DEF Heartbeat, DriveOne, HostWrite, InjectHeartbeat, Bmc, BmcWrite, BmcToggle, files, procs
<1>2. LockInv' /\ Files' /\ Driving' /\ Owned' = Owned /\ Book' = Book
  BY <1>0, <1>1 DEF LockInv, Files, BookOK, Driving, Owned, Recorded, Book
<1>3. ASSUME NEW p \in Proc, Heartbeat(p) PROVE StoreInv'
  <2>1. stateFile' = "owner" /\ UNCHANGED <<live, enabled, old, lost>>
    BY <1>3 DEF Heartbeat, registers, history
  <2>2. lock = p /\ pc[p] = "drive"
    BY <1>0, <1>3 DEF Heartbeat, LockInv
  <2>3. TypeOK'
    BY <1>0, <1>1, <2>1 DEF TypeOK
  <2>4. KeptIsBmcs' /\ OldRefused'
    BY <1>0, <1>1, <1>2, <2>1 DEF KeptIsBmcs, OldRefused, Driven, Known, Readable
  <2>5. Pending'
    BY <1>0, <1>1, <2>2 DEF Pending, LockInv
  <2> QED BY <1>2, <2>3, <2>4, <2>5 DEF StoreInv
<1>4. ASSUME NEW p \in Proc, NEW c \in Chan, NEW v \in DriveDuty, DriveOne(p, c, v) PROVE StoreInv'
  <2>1. /\ live' = [live EXCEPT ![c] = v] /\ UNCHANGED <<stateFile, enabled, old>>
        /\ lost' = (IF c \in Owned \cup old THEN lost ELSE lost \cup {c})
    BY <1>4 DEF DriveOne, HostWrite, files
  <2>2. lock = p /\ pc[p] = "drive"
    BY <1>0, <1>4 DEF DriveOne, LockInv
  <2>3. TypeOK'
    BY <1>0, <1>1, <2>1 DEF TypeOK, Duty
  <2>4. KeptIsBmcs'
    BY <1>0, <1>1, <1>2, <2>1 DEF KeptIsBmcs, Driven, TypeOK
  <2>5. OldRefused'
    BY <1>0, <1>1, <1>2, <2>1 DEF OldRefused, Known, Readable
  <2>6. Pending'
    BY <1>0, <1>1, <2>2 DEF Pending, LockInv
  <2> QED BY <1>2, <2>3, <2>4, <2>5, <2>6 DEF StoreInv
<1>5. CASE InjectHeartbeat
  <2>1. stateFile' = "plain" /\ UNCHANGED <<live, enabled>>
    BY <1>5 DEF InjectHeartbeat, registers
  <2>2. CASE baselineFile.kind = "missing" /\ stateFile \in {"corrupt", "owner"}
    <3>1. lost' = lost \cup old /\ old' = {} /\ ~Readable
      BY <1>5, <2>2 DEF InjectHeartbeat, Readable
    <3>2. TypeOK' /\ KeptIsBmcs' /\ OldRefused'
      BY <1>0, <1>1, <1>2, <2>1, <3>1 DEF TypeOK, KeptIsBmcs, OldRefused, Driven
    <3>3. Pending'
      BY <1>0, <1>1, <3>1 DEF Pending
    <3> QED BY <1>2, <3>2, <3>3 DEF StoreInv
  <2>3. CASE ~(baselineFile.kind = "missing" /\ stateFile \in {"corrupt", "owner"})
    <3>1. UNCHANGED <<old, lost>>
      BY <1>5, <2>3 DEF InjectHeartbeat
    <3>2. Readable' = Readable
      BY <1>0, <1>1, <2>1, <2>3 DEF Readable, TypeOK
    <3>3. TypeOK' /\ KeptIsBmcs' /\ OldRefused'
      BY <1>0, <1>1, <1>2, <2>1, <3>1, <3>2 DEF TypeOK, KeptIsBmcs, OldRefused, Driven, Known
    <3>4. Pending'
      BY <1>0, <1>1, <1>2, <2>1, <3>1, <3>2 DEF Pending
    <3> QED BY <1>2, <3>3, <3>4 DEF StoreInv
  <2> QED BY <2>2, <2>3
<1>6. ASSUME NEW c \in Chan, NEW v \in BmcDuty, BmcWrite(c, v) PROVE StoreInv'
  <2>1. /\ live' = [live EXCEPT ![c] = v] /\ UNCHANGED <<stateFile, enabled>> /\ old' = old \ {c}
        /\ lost' = (IF c \in Owned \cup Recorded(tmp) THEN lost ELSE lost \ {c})
    BY <1>6 DEF BmcWrite, files
  <2>2. TypeOK'
    BY <1>0, <1>1, <2>1 DEF TypeOK, Duty
  <2>3. KeptIsBmcs'
    <3>1. ASSUME NEW x \in Owned' \ lost' PROVE baselineFile'.kept[x] \in BmcDuty
      BY <1>0, <1>1, <1>2, <2>1, <3>1 DEF KeptIsBmcs, Owned, Recorded
    <3>2. ASSUME NEW x \in Driven' \ lost' PROVE x \in Owned' \cup old'
      BY <1>0, <1>1, <1>2, <2>1, <3>2 DEF KeptIsBmcs, Driven, TypeOK
    <3> QED BY <3>1, <3>2 DEF KeptIsBmcs
  <2>4. OldRefused'
    BY <1>0, <1>1, <1>2, <2>1 DEF OldRefused, Known, Readable
  <2>5. Pending'
    <3> SUFFICES ASSUME NEW q \in Proc, pc'[q] = "replace" PROVE Pending!(q)!2'
      BY DEF Pending
    <3>1. Pending!(q)!2 /\ Readable'
      BY <1>0, <1>1, <2>1 DEF Pending, Readable
    <3>2. \A x \in Chan \ lost' : tmp'.kept[x] # None => tmp'.kept[x] \in BmcDuty
      BY <1>1, <2>1, <3>1 DEF Recorded
    <3>3. job[q] = "release" => \A x \in Owned' \ lost' : DevOf[x] = dev[q] => live'[x] \in BmcDuty
      BY <1>0, <1>2, <2>1, <3>1 DEF TypeOK, Owned, Recorded
    <3> QED BY <1>1, <1>2, <3>1, <3>2, <3>3
  <2> QED BY <1>2, <2>2, <2>3, <2>4, <2>5 DEF StoreInv
<1>7. ASSUME NEW c \in Chan, BmcToggle(c) PROVE StoreInv'
  <2>1. UNCHANGED <<stateFile, live, old, lost>> /\ enabled' \subseteq Chan
    BY <1>0, <1>7 DEF BmcToggle, files, history, TypeOK
  <2>2. TypeOK'
    BY <1>0, <1>1, <2>1 DEF TypeOK
  <2>3. KeptIsBmcs' /\ OldRefused'
    BY <1>0, <1>1, <1>2, <2>1 DEF KeptIsBmcs, OldRefused, Driven, Known, Readable
  <2>4. Pending'
    BY <1>0, <1>1, <1>2, <2>1 DEF Pending, Readable
  <2> QED BY <1>2, <2>2, <2>3, <2>4 DEF StoreInv
<1> QED BY <1>3, <1>4, <1>5, <1>6, <1>7 DEF Bmc

LEMMA ResetStep ==
  ASSUME StoreInv, HostReset
  PROVE  StoreInv'
<1> USE StoreAssumption
<1>0. TypeOK /\ AnyDev \in Dev
  BY DEF StoreInv, AnyDev
<1>1. BookOK(baselineFile') /\ BookOK(tmp') /\ Owned' = {}
  BY BlankOK DEF HostReset, Owned, Recorded
<1>2. TypeOK'
  BY <1>0, <1>1 DEF HostReset, TypeOK, BookOK, Driven, registers
<1>3. Files' /\ LockInv' /\ Pending' /\ Driving'
  BY <1>1 DEF Files, BookOK, LockInv, Pending, Driving, HostReset
<1>4. KeptIsBmcs' /\ OldRefused'
  BY <1>1 DEF KeptIsBmcs, OldRefused, HostReset, Driven, registers
<1> QED BY <1>2, <1>3, <1>4 DEF StoreInv

LEMMA StoreStep == StoreInv /\ [Next]_storeVars => StoreInv'
<1> SUFFICES ASSUME StoreInv, [Next]_storeVars PROVE StoreInv'
  OBVIOUS
<1>1. CASE UNCHANGED storeVars
  BY <1>1 DEF StoreInv, TypeOK, Files, BookOK, LockInv, KeptIsBmcs, OldRefused, Pending, Driving,
     Owned, Recorded, Driven, Known, Readable, Book, storeVars, files, registers, procs, history
<1>2. ASSUME NEW p \in Proc, Session(p) PROVE StoreInv'
  BY <1>2, QuietActions, CaptureStep, RestoreStep, ReplaceStep, OutsideStep DEF Session
<1>3. ASSUME NEW p \in Proc, Kill(p) \/ \E j \in Job, d \in Dev : Ask(p, j, d) PROVE StoreInv'
  BY <1>3, QuietActions
<1>4. CASE InjectHeartbeat \/ Bmc
  BY <1>4, OutsideStep
<1>5. CASE HostReset
  BY <1>5, ResetStep
<1> QED BY <1>1, <1>2, <1>3, <1>4, <1>5 DEF Next

(* Files, sessions and registers of any number of channels, devices and     *)
(* processes keep the invariant (p2afan/control.py).                        *)
THEOREM StoreInvariant == Spec => []StoreInv
BY InitStore, StoreStep, PTL DEF Spec

(* The variables keep their types; every book is one _active_baseline takes *)
(* or refuses entry by entry, never a torn one.                             *)
THEOREM StoreTypes == Spec => []TypeOK
BY StoreInvariant, PTL DEF StoreInv

(* What a capture puts on record is the BMC's duty, and every driven channel *)
(* is on record, known to a refused file, or was driven without one.         *)
THEOREM RecordIsTheBmcs == Spec => []KeptIsBmcs
BY StoreInvariant, PTL DEF StoreInv

(* A takeover that only an unusable file knows of is never recorded anew. *)
THEOREM OldTakeoversRefused == Spec => []OldRefused
BY StoreInvariant, PTL DEF StoreInv

-----------------------------------------------------------------------------
(* baseline.json changes by a rename or a reset only. *)
LEMMA FileChanges ==
  ASSUME StoreInv, [Next]_storeVars
  PROVE  HostReset \/ UNCHANGED baselineFile \/ \E p \in Proc : Replace(p)
BY DEF Next, Session, Bmc, storeVars, files, Ask, Acquire, GiveUp, Kill, Capture, DriveUnrecorded,
   RestoreSome, PersistFails, DriveOne, Heartbeat, DriveEnds, Term, InjectHeartbeat, BmcWrite, BmcToggle

(* A rename puts more channels of a device on record, or drops a device      *)
(* whose channels have the BMC's duties back, and leaves refused entries.    *)
LEMMA RenameExtendsOrDrops ==
  ASSUME StoreInv, NEW p \in Proc, Replace(p)
  PROVE  /\ dev[p] \in Dev /\ Readable /\ Book' = tmp
         /\ \A d \in Dev : baselineFile.entry[d] = "invalid" => baselineFile'.entry[d] = "invalid"
         /\ \A c \in Owned \ Owned' : c \in lost \/ live[c] \in BmcDuty
         /\ Journal!Take(dev[p]) \/ Journal!Give(dev[p])
<1> USE StoreAssumption
<1>0. TypeOK /\ Files /\ Pending
  BY DEF StoreInv
<1>1. /\ pc[p] = "replace" /\ dev[p] \in Dev /\ Readable /\ baselineFile' = tmp /\ tmp.kind = "book"
      /\ \A d \in Dev : Book.entry[d] = "invalid" => tmp.entry[d] = "invalid"
  BY <1>0 DEF Replace, TypeOK, Pending
<1>2. Book' = tmp /\ Owned' = {c \in Chan : tmp.kept[c] # None}
  BY <1>1 DEF Book, Owned, Recorded
<1>3. \A d \in Dev : baselineFile.entry[d] = "invalid" => tmp.entry[d] = "invalid"
  <2>1. CASE baselineFile.kind = "book"
    BY <1>1, <2>1 DEF Book
  <2>2. CASE baselineFile.kind # "book"
    BY <1>0, <1>1, <2>2 DEF Files, BookOK, NoEntry
  <2> QED BY <2>1, <2>2
<1>4. CASE job[p] # "release"
  <2>1. \A c \in Chan : tmp.kept[c] # baselineFile.kept[c] =>
                          baselineFile.kept[c] = None /\ DevOf[c] = dev[p]
    BY <1>0, <1>1, <1>4 DEF Pending
  <2>2. tmp.kept \in [Chan -> Duty \cup {None}]
    BY <1>0 DEF TypeOK, Content
  <2>3. Owned \ Owned' = {}
    BY <1>2, <2>1, BookFacts
  <2> QED BY <1>1, <1>2, <1>3, <2>1, <2>2, <2>3 DEF Journal!Take
<1>5. CASE job[p] = "release"
  <2>1. tmp.kept = [c \in Chan |-> IF DevOf[c] = dev[p] THEN None ELSE baselineFile.kept[c]]
    BY <1>0, <1>1, <1>5 DEF Pending
  <2>2. \A c \in Owned \ lost : DevOf[c] = dev[p] => live[c] \in BmcDuty
    BY <1>0, <1>1, <1>5 DEF Pending
  <2>3. \A c \in Owned \ Owned' : c \in lost \/ live[c] \in BmcDuty
    BY <1>2, <2>1, <2>2, BookFacts
  <2> QED BY <1>1, <1>2, <1>3, <2>1, <2>3 DEF Journal!Give
<1> QED BY <1>4, <1>5

(* A channel leaves the book with the BMC's duty in its register, or with *)
(* the host's reset (_restore_baseline, write_state).                     *)
THEOREM OwnershipEndsRestored == Spec => OwnershipEnds
<1>1. StoreInv /\ [Next]_storeVars =>
        [(Owned \ Owned') \cap Driven \subseteq lost \/ HostReset]_storeVars
  <2> SUFFICES ASSUME StoreInv, [Next]_storeVars, ~HostReset
               PROVE  (Owned \ Owned') \cap Driven \subseteq lost
    OBVIOUS
  <2>1. CASE UNCHANGED baselineFile
    BY <2>1 DEF Owned, Recorded
  <2>2. ASSUME NEW p \in Proc, Replace(p) PROVE (Owned \ Owned') \cap Driven \subseteq lost
    BY <2>2, RenameExtendsOrDrops, StoreAssumption DEF Driven
  <2> QED BY <2>1, <2>2, FileChanges
<1> QED BY <1>1, StoreInvariant, PTL DEF Spec, OwnershipEnds

(* A file or entry the program refuses stays ("Keep corrupt state intact"). *)
THEOREM RefusedFilesStay == Spec => RefusedStays
<1>1. StoreInv /\ [Next]_storeVars =>
        [\/ HostReset
         \/ /\ baselineFile.kind \in {"corrupt", "unscoped"} => UNCHANGED baselineFile
            /\ \A d \in Dev : baselineFile.entry[d] = "invalid" =>
                                baselineFile'.entry[d] = "invalid"]_storeVars
  <2> SUFFICES ASSUME StoreInv, [Next]_storeVars, ~HostReset
               PROVE  /\ baselineFile.kind \in {"corrupt", "unscoped"} => UNCHANGED baselineFile
                      /\ \A d \in Dev : baselineFile.entry[d] = "invalid" =>
                                          baselineFile'.entry[d] = "invalid"
    OBVIOUS
  <2>1. ASSUME NEW p \in Proc, Replace(p)
        PROVE  /\ baselineFile.kind \notin {"corrupt", "unscoped"}
               /\ \A d \in Dev : baselineFile.entry[d] = "invalid" =>
                                   baselineFile'.entry[d] = "invalid"
    BY <2>1, RenameExtendsOrDrops DEF Readable
  <2> QED BY <2>1, FileChanges
<1> QED BY <1>1, StoreInvariant, PTL DEF Spec, RefusedStays

(* Only an emergency drives a channel whose duty is not on record. *)
THEOREM DrivesAreRecorded == Spec => OnlyEmergencyUnrecorded
<1>1. StoreInv /\ [Next]_storeVars =>
        [\/ lost' \subseteq lost \/ HostReset \/ InjectHeartbeat
         \/ \E p \in Proc : pc[p] = "drive" /\ job[p] = "emergency" /\ registers' # registers]_storeVars
  <2> SUFFICES ASSUME StoreInv, Next, ~HostReset, ~InjectHeartbeat, ~(lost' \subseteq lost)
               PROVE  \E p \in Proc : pc[p] = "drive" /\ job[p] = "emergency" /\ registers' # registers
    OBVIOUS
  <2>1. PICK p \in Proc, c \in Chan, v \in DriveDuty : DriveOne(p, c, v)
    BY DEF Next, Session, Bmc, history, Ask, Acquire, GiveUp, Kill, Capture, DriveUnrecorded, Replace,
       RestoreSome, PersistFails, Heartbeat, DriveEnds, Term, BmcWrite, BmcToggle
  <2>2. /\ pc[p] = "drive" /\ c \in want[p] /\ c \notin Owned \cup old /\ c \notin lost
        /\ live' = [live EXCEPT ![c] = v]
    BY <2>1 DEF DriveOne, HostWrite
  <2>3. job[p] = "emergency"
    BY <2>2 DEF StoreInv, Driving
  <2>4. live' # live
    BY <2>2, StoreAssumption DEF StoreInv, TypeOK, KeptIsBmcs, Driven, Duty
  <2> QED BY <2>2, <2>3, <2>4 DEF registers
<1> QED BY <1>1, StoreInvariant, PTL DEF Spec, OnlyEmergencyUnrecorded

(* baseline.json implements the record of Ownership: captures extend it,   *)
(* releases drop a device, and nothing else changes it but a host's reset. *)
THEOREM StoreImplementsOwnership == Spec => ImplementsOwnership
<1>1. Init => Journal!Init
  <2> SUFFICES ASSUME Init PROVE baselineFile.kept = [c \in Chan |-> None]
    BY DEF Journal!Init
  <2>1. CASE \E k \in {"missing", "corrupt", "unscoped"} : baselineFile = Blank(k)
    BY <2>1 DEF Blank, NoDuty
  <2>2. ASSUME NEW d \in Dev,
               baselineFile = [Blank("book") EXCEPT !.entry = [NoEntry EXCEPT ![d] = "invalid"]]
        PROVE  baselineFile.kept = [c \in Chan |-> None]
    BY <2>2 DEF Blank, NoDuty
  <2> QED BY <2>1, <2>2 DEF Init
<1>2. StoreInv /\ [Next]_storeVars => [Journal!Next]_(baselineFile.kept)
  <2> SUFFICES ASSUME StoreInv, [Next]_storeVars PROVE [Journal!Next]_(baselineFile.kept)
    OBVIOUS
  <2>1. CASE HostReset
    BY <2>1 DEF HostReset, Blank, NoDuty, Journal!Next, Journal!Lose
  <2>2. CASE UNCHANGED baselineFile
    BY <2>2
  <2>3. ASSUME NEW p \in Proc, Replace(p) PROVE Journal!Next
    BY <2>3, RenameExtendsOrDrops DEF Journal!Next
  <2> QED BY <2>1, <2>2, <2>3, FileChanges
<1> QED BY <1>1, <1>2, StoreInvariant, PTL DEF Spec, ImplementsOwnership, Journal!Spec
==============================================================================
