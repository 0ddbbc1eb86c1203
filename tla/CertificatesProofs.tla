------------------------- MODULE CertificatesProofs -------------------------
(***************************************************************************)
(* Proofs about Certificates, for any settings, limit of the CA and        *)
(* bounds: what is served and what is on disk belong together whatever     *)
(* comes between two system calls, and orders are counted, justified and   *)
(* leave nothing behind.  Then about Outbound, for any configurations,     *)
(* sections and pairs: clients and connections are as configured.          *)
(***************************************************************************)
EXTENDS Certificates, Outbound, SequenceTheorems, TLAPS

----------------------------------------------------------------------------
(* The inductive invariant. *)

Pcs == {"down", "ensure", "load_cert", "load_key", "listen", "lease", "ledger", "order", "challenge",
        "validate", "settle", "outcome", "stage", "aside", "put_cert", "put_key", "undo", "restore",
        "sleep", "again_key", "check", "window", "decide", "done"}

Putting == {"stage", "aside", "put_cert", "put_key"}
Answering == {"validate", "stage", "aside", "put_cert", "put_key", "undo", "restore", "settle"}
Running == {"boot", "up"}

Stored == Nat \cup {None}
MadeType == [key : Nat \ {0}, born : Nat, self : BOOLEAN, open : BOOLEAN, how : Hows]
Numbers == 0..Len(made)
TaskType == [pc : Pcs, info : Numbers, read : Numbers, ari : BOOLEAN, new : Numbers, had : BOOLEAN,
             ok : BOOLEAN, ledgered : BOOLEAN, checked : BOOLEAN]
DiskType == [cert : Numbers, key : Numbers, bak : Numbers, torn : BOOLEAN]
LiveType == [cert : Numbers, key : Numbers]
WatcherType == [pc : {"idle", "waiting", "key"}, read : Numbers, event : BOOLEAN]
AriType == [cert : Numbers, window : {"none", "closed", "open"}]
BooksType == [ledger : Stored, ca : Stored, off : BOOLEAN, refused : BOOLEAN, lease : BOOLEAN,
              left : BOOLEAN, deferred : BOOLEAN]
HttpType == [port : {"none", "challenge", "redirect"}, token : BOOLEAN,
             record : {"none", "known", "orphan"}]
MadeOK == /\ made \in Seq(MadeType) /\ Len(made) <= MaxPairs
          /\ \A n \in 1..Len(made) : made[n].key \in 1..Len(made)

\* What the variables hold: every number is that of a certificate that was made, or NoFile.
Shape ==
    /\ set \in Settings /\ clock \in 0..LastTime /\ faults \in 0..MaxFaults
    /\ proc \in {"down", "boot", "up", "no pair", "unreadable", "no port", "no issuance"}
    /\ MadeOK /\ disk \in DiskType /\ live \in LiveType /\ task \in TaskType
    /\ watcher \in WatcherType /\ ari \in AriType /\ books \in BooksType /\ http \in HttpType

\* Where the process is: which steps belong to a boot, which to the loop, which to an order, and
\* what each of them has in hand.
Place ==
    /\ proc \in Running <=> task.pc # "down"
    /\ task.pc \in {"ensure", "load_cert", "load_key", "listen"} => proc = "boot"
    /\ task.pc \in {"sleep", "again_key", "check", "window", "decide"} => proc = "up"
    /\ proc = "up" \/ task.pc = "listen" => live.cert # NoFile
    /\ task.pc \in {"load_key", "again_key"} => task.read # NoFile
    /\ watcher.pc = "key" => watcher.read # NoFile
    /\ task.pc \in Putting => task.new # NoFile
    /\ task.pc \in {"lease", "ledger", "order", "challenge", "validate", "settle", "outcome"} => set.acme
    /\ task.pc \in Putting \cup {"undo", "restore"} => set.acme \/ set.self_signed
    /\ task.pc \in {"window", "decide"} => task.info # NoFile
    /\ task.ok => set.acme \/ set.self_signed
    /\ task.ok => task.pc \in {"settle", "outcome", "done", "ensure", "load_cert", "load_key", "listen"}

Present == disk.cert # NoFile /\ disk.key # NoFile

\* The files: a publication that was not cut short can be undone until its last rename, and the
\* steps of a boot find the files that the steps before them left.
Files ==
    /\ NeverMismatched /\ PairConsistent /\ StartsAgain
    /\ Publishing /\ ~disk.torn =>
          IF task.had
          THEN disk.bak # NoFile /\ disk.key # NoFile /\ Cert(disk.bak).key = disk.key
          ELSE disk.key = NoFile
    /\ task.pc = "put_cert" => disk.cert = NoFile
    /\ task.pc = "put_key" => disk.cert = task.new
    /\ task.ok => Matches(disk)
    /\ task.pc = "ensure" /\ set.acme => Present
    /\ task.pc \in {"load_cert", "load_key"} /\ (set.acme \/ set.self_signed) => Present
    /\ task.pc = "load_key" /\ ~set.operator => task.read = disk.cert
    /\ set.acme => \A n \in 1..Len(made) : ~made[n].self \/ made[n].how = "found"
    /\ task.pc \in Putting /\ ~set.acme /\ ~set.rotate /\ ~disk.torn /\ disk.key # NoFile =>
          Cert(task.new).key = disk.key \/ Cert(task.new).how = "rekeyed"

\* The ledger stands for every order the CA counted, and before an order that it was debited for
\* for that one too; a renewal was justified when it was decided.
Orders ==
    /\ RefusalExplained
    /\ ~books.off => books.ca <= books.ledger
    /\ ~books.off /\ task.pc = "order" /\ task.ledgered =>
          /\ Tat(books.ca, clock) + CaLimit.interval <= books.ledger
          /\ books.ledger <= clock + CaLimit.tolerance
    /\ task.pc \in {"lease", "ledger"} => ~task.ledgered
    /\ proc = "up" /\ task.pc \in {"lease", "ledger", "order"} =>
          task.info # NoFile /\ (Due(task.info) \/ Cert(task.info).open)
    /\ task.pc = "decide" /\ Plan = "acme" /\ set.ari => ari.cert = task.info
    /\ ari.window = "open" => ari.cert # NoFile /\ Cert(ari.cert).open

\* Port 80, the answer to a challenge and the lease belong to the redirect listener or to an order.
Leftovers ==
    /\ http.port = "redirect" <=> proc = "up" /\ set.port80
    /\ http.port = "challenge" \/ http.token \/ http.record = "known" =>
          set.acme /\ task.pc \in Answering
    /\ task.pc = "validate" => Answered
    /\ books.lease => set.acme /\ task.pc \in Answering \cup {"order", "challenge", "outcome"}
    /\ books.left => faults > 0

CertInv == Shape /\ Place /\ Files /\ Orders /\ Leftovers

----------------------------------------------------------------------------
(* Certificates are only added: what is known of one stays. *)

Grows ==
    /\ MadeOK' /\ Len(made') \in Nat /\ Len(made) \in Nat /\ Len(made) <= Len(made')
    /\ \A n \in 1..Len(made) :
          /\ made'[n].key = made[n].key /\ made'[n].self = made[n].self /\ made'[n].born = made[n].born
          /\ made'[n].how = made[n].how /\ (made[n].open => made'[n].open)

\* Sequences: what is added at the end or replaced leaves the rest.
LEMMA SeqFacts ==
    ASSUME NEW S, NEW q \in Seq(S)
    PROVE  Len(q) \in Nat /\ \A n \in 1..Len(q) : q[n] \in S
  OBVIOUS

\* The empty sequence and the sequence of one element.
LEMMA SeqOfOne ==
    ASSUME NEW S, NEW c \in S
    PROVE  <<>> \in Seq(S) /\ Len(<<>>) = 0 /\ <<c>> \in Seq(S) /\ Len(<<c>>) = 1 /\ <<c>>[1] = c
  OBVIOUS

\* What appending leaves and adds.
LEMMA AppendFacts ==
    ASSUME NEW S, NEW q \in Seq(S), NEW c \in S
    PROVE  /\ Append(q, c) \in Seq(S) /\ Len(Append(q, c)) = Len(q) + 1
           /\ Append(q, c)[Len(q) + 1] = c
           /\ \A n \in 1..Len(q) : Append(q, c)[n] = q[n]
  OBVIOUS

\* What replacing one element leaves.
LEMMA ReplaceFacts ==
    ASSUME NEW S, NEW q \in Seq(S), NEW c \in S, NEW m \in 1..Len(q)
    PROVE  /\ [q EXCEPT ![m] = c] \in Seq(S) /\ Len([q EXCEPT ![m] = c]) = Len(q)
           /\ [q EXCEPT ![m] = c][m] = c
           /\ \A n \in 1..Len(q) : n # m => [q EXCEPT ![m] = c][n] = q[n]
  OBVIOUS

\* What Shape says of the certificates made.
LEMMA MadeFacts ==
    ASSUME Shape
    PROVE  /\ made \in Seq(MadeType) /\ Len(made) \in Nat /\ MaxPairs \in Nat /\ Len(made) <= MaxPairs
           /\ \A n \in 1..Len(made) : made[n] \in MadeType /\ made[n].key \in 1..Len(made)
<1>1. made \in Seq(MadeType) /\ Len(made) <= MaxPairs /\ \A n \in 1..Len(made) : made[n].key \in 1..Len(made)
  BY DEF Shape, MadeOK
<1> QED
  BY <1>1, SeqFacts, CertificatesAssumption

\* A step that makes no pair keeps the record of pairs.
LEMMA GrowsUnchanged ==
    ASSUME Shape, made' = made
    PROVE  Grows
<1>1. made' \in Seq(MadeType) /\ Len(made') = Len(made)
  BY MadeFacts
<1> QED
  BY <1>1, MadeFacts DEF Grows, MadeOK

\* A new pair is added at the end and every earlier pair keeps its number.
LEMMA GrowsAppend ==
    ASSUME Shape, Len(made) < MaxPairs, NEW c \in MadeType, c.key \in 1..(Len(made) + 1), made' = Append(made, c)
    PROVE  Grows /\ Len(made') = Len(made) + 1 /\ made'[Len(made')] = c
<1>1. made \in Seq(MadeType) /\ Len(made) \in Nat /\ MaxPairs \in Nat
  BY MadeFacts
<1>2. made' \in Seq(MadeType) /\ Len(made') = Len(made) + 1 /\ made'[Len(made) + 1] = c
      /\ \A n \in 1..Len(made) : made'[n] = made[n]
  BY <1>1, AppendFacts
<1>3. \A n \in 1..Len(made') : made'[n].key \in 1..Len(made')
  <2>1. \A n \in 1..Len(made) : made[n].key \in 1..Len(made)
    BY MadeFacts
  <2> QED
    BY <1>1, <1>2, <2>1
<1> QED
  BY <1>1, <1>2, <1>3 DEF Grows, MadeOK

\* Opening a certificate's renewal window changes nothing else in the record.
LEMMA GrowsOpen ==
    ASSUME Shape, NEW n \in 1..Len(made), made' = [made EXCEPT ![n].open = TRUE]
    PROVE  Grows /\ Len(made') = Len(made) /\ made'[n].open
<1>1. made \in Seq(MadeType) /\ Len(made) \in Nat /\ MaxPairs \in Nat /\ Len(made) <= MaxPairs
  BY MadeFacts
<1>a. \A m \in 1..Len(made) : made[m] \in MadeType
  BY MadeFacts
<1> DEFINE c == [made[n] EXCEPT !.open = TRUE]
<1>b. c \in MadeType /\ c.key = made[n].key /\ c.self = made[n].self /\ c.born = made[n].born /\ c.how = made[n].how /\ c.open
  BY <1>a DEF MadeType
<1>c. made' = [made EXCEPT ![n] = c]
  OBVIOUS
<1> HIDE DEF c
<1>2. made' \in Seq(MadeType) /\ Len(made') = Len(made) /\ made'[n] = c /\ \A m \in 1..Len(made) : m # n => made'[m] = made[m]
  <2>1. /\ [made EXCEPT ![n] = c] \in Seq(MadeType) /\ Len([made EXCEPT ![n] = c]) = Len(made)
        /\ [made EXCEPT ![n] = c][n] = c
        /\ \A m \in 1..Len(made) : m # n => [made EXCEPT ![n] = c][m] = made[m]
    BY <1>1, <1>b, ReplaceFacts
  <2> QED
    BY <1>c, <2>1
<1>3. \A m \in 1..Len(made') : made'[m].key \in 1..Len(made')
  <2>1. \A m \in 1..Len(made) : made[m].key \in 1..Len(made)
    BY MadeFacts
  <2> QED
    BY <1>1, <1>b, <1>2, <2>1
<1> QED
  BY <1>1, <1>b, <1>2, <1>3 DEF Grows, MadeOK

\* A number of a pair stays one, so what a step leaves alone keeps its type.
LEMMA NumbersGrow ==
    ASSUME Shape, Grows
    PROVE  /\ Numbers \subseteq Numbers' /\ NoFile \in Numbers'
           /\ disk' = disk => disk' \in DiskType'
           /\ live' = live => live' \in LiveType'
           /\ task' = task => task' \in TaskType'
           /\ watcher' = watcher => watcher' \in WatcherType'
           /\ ari' = ari => ari' \in AriType'
<1>1. Numbers \subseteq Numbers' /\ NoFile \in Numbers'
  BY DEF Grows, Numbers, NoFile
<1>2. disk \in DiskType /\ live \in LiveType /\ task \in TaskType /\ watcher \in WatcherType /\ ari \in AriType
  BY DEF Shape
<1>3. disk' = disk => disk' \in DiskType'
  BY <1>1, <1>2 DEF DiskType
<1>4. live' = live => live' \in LiveType'
  BY <1>1, <1>2 DEF LiveType
<1>5. task' = task => task' \in TaskType'
  BY <1>1, <1>2 DEF TaskType
<1>6. watcher' = watcher => watcher' \in WatcherType'
  BY <1>1, <1>2 DEF WatcherType
<1>7. ari' = ari => ari' \in AriType'
  BY <1>1, <1>2 DEF AriType
<1> QED
  BY <1>1, <1>3, <1>4, <1>5, <1>6, <1>7

\* What a step leaves of the task when it goes on to pc.
GoesTo(pc) ==
    /\ task' \in TaskType' /\ task'.pc = pc
    /\ task'.info = task.info /\ task'.read = task.read /\ task'.ari = task.ari
    /\ task'.new = task.new /\ task'.had = task.had /\ task'.ok = task.ok
    /\ task'.ledgered = task.ledgered /\ task'.checked = task.checked

\* Moving the issuance task on changes only where it is.
LEMMA TaskGoes ==
    ASSUME Shape, NEW p \in Pcs, Goto(p), Grows
    PROVE  GoesTo(p)
<1>1. Numbers \subseteq Numbers' /\ task \in TaskType
  BY NumbersGrow DEF Shape
<1> QED
  BY <1>1 DEF Goto, TaskType, GoesTo

\* An order, or a publication without one, is over.
LEMMA TaskPublished ==
    ASSUME Shape, NEW b \in BOOLEAN, AfterPublish(b), Grows
    PROVE  /\ task' \in TaskType' /\ task'.pc = (IF set.acme THEN "settle" ELSE "done") /\ task'.ok = b
           /\ task'.info = task.info /\ task'.ledgered = task.ledgered
<1>1. Numbers \subseteq Numbers' /\ task \in TaskType
  BY NumbersGrow DEF Shape
<1>2. (IF set.acme THEN "settle" ELSE "done") \in Pcs
  BY DEF Pcs
<1> QED
  BY <1>1, <1>2 DEF AfterPublish, TaskType

\* The process that refused to start, or crashed, has no task.
LEMMA TaskIdle ==
    ASSUME Shape, Grows
    PROVE  Idle \in TaskType' /\ Idle.pc = "down" /\ ~Idle.ok /\ ~Idle.ledgered
<1>1. NoFile \in Numbers'
  BY NumbersGrow
<1> QED
  BY <1>1 DEF Idle, TaskType, Pcs

\* The directory changed: the watcher hears of it, and is where it was.
LEMMA WatcherHears ==
    ASSUME Shape, NEW d, Changed(d), Grows
    PROVE  disk' = d /\ watcher' \in WatcherType' /\ watcher'.pc = watcher.pc /\ watcher'.read = watcher.read
<1>1. Numbers \subseteq Numbers' /\ watcher \in WatcherType
  BY NumbersGrow DEF Shape
<1>2. (set.watch /\ proc = "up") \in BOOLEAN
  OBVIOUS
<1> QED
  BY <1>1, <1>2 DEF Changed, WatcherType

\* A fault is counted.
LEMMA FaultCounted ==
    ASSUME Shape, Fault \/ faults' = faults
    PROVE  faults' \in 0..MaxFaults /\ (faults > 0 => faults' > 0) /\ (Fault => faults' > 0)
<1>1. faults \in 0..MaxFaults /\ MaxFaults \in Nat
  BY CertificatesAssumption DEF Shape
<1> QED
  BY <1>1 DEF Fault

\* Times are numbers.
LEMMA Times ==
    ASSUME Shape
    PROVE  clock \in Nat /\ books.ledger \in Stored /\ books.ca \in Stored
<1>1. clock \in 0..LastTime /\ LastTime \in Nat /\ books \in BooksType
  BY CertificatesAssumption DEF Shape
<1> QED
  BY <1>1 DEF BooksType

\* Files an operator replaces are nobody else's.
LEMMA OperatorAlone ==
    ASSUME Shape
    PROVE  set.operator => ~set.acme /\ ~set.self_signed
  BY CertificatesAssumption DEF Shape

\* A certificate is made.
LEMMA MadeOne ==
    ASSUME Shape, Len(made) < MaxPairs, NEW b \in BOOLEAN, NEW k \in 1..(Len(made) + 1), NEW h \in Hows,
           made' = Append(made, New(k, b, h))
    PROVE  /\ Grows /\ Len(made') = Len(made) + 1
           /\ Len(made) + 1 \in Numbers' /\ Len(made) + 1 # NoFile
           /\ made'[Len(made) + 1].key = k /\ made'[Len(made) + 1].how = h
           /\ \A n \in 1..Len(made') : made'[n].self = IF n \in 1..Len(made) THEN made[n].self ELSE b
           /\ \A n \in 1..Len(made) : made'[n].how = made[n].how
<1> DEFINE c == New(k, b, h)
<1>1. clock \in Nat /\ k \in Nat \ {0} /\ Len(made) \in Nat
  <2>1. clock \in 0..LastTime
    BY DEF Shape
  <2> QED
    BY <2>1, MadeFacts, CertificatesAssumption
<1>2. c \in MadeType /\ c.key = k /\ c.self = b /\ c.how = h
  BY <1>1 DEF MadeType, New
<1> HIDE DEF c
<1>3. made' = Append(made, c)
  BY DEF c
<1>4. Grows /\ Len(made') = Len(made) + 1 /\ made'[Len(made')] = c
  BY <1>2, <1>3, GrowsAppend
<1> QED
  BY <1>1, <1>2, <1>4 DEF Grows, Numbers, NoFile

\* What the variables say of certificates goes on being so.
Known ==
    /\ disk.cert \in Numbers /\ disk.key \in Numbers /\ disk.bak \in Numbers /\ live.cert \in Numbers
    /\ ari.cert \in Numbers /\ task.info \in Numbers /\ task.new \in Numbers /\ task.read \in Numbers
    /\ watcher.read \in Numbers
    /\ \A n \in Numbers : n # NoFile =>
          /\ n \in 1..Len(made) /\ n \in 1..Len(made')
          /\ made'[n].key = made[n].key /\ made'[n].self = made[n].self /\ made'[n].born = made[n].born
          /\ made'[n].how = made[n].how /\ (made[n].open => made'[n].open)

\* What is known of the pairs on disk, served and pending stays so while the record grows.
LEMMA StillSo ==
    ASSUME Shape, Grows
    PROVE  Known
<1>1. \A n \in Numbers : n # NoFile => n \in 1..Len(made) /\ n \in 1..Len(made')
  BY DEF Numbers, NoFile, Grows
<1>2. disk \in DiskType /\ live \in LiveType /\ ari \in AriType /\ task \in TaskType /\ watcher \in WatcherType
  BY DEF Shape
<1>3. disk.cert \in Numbers /\ disk.key \in Numbers /\ disk.bak \in Numbers
  BY <1>2 DEF DiskType
<1>4. live.cert \in Numbers /\ ari.cert \in Numbers /\ watcher.read \in Numbers
  BY <1>2 DEF LiveType, AriType, WatcherType
<1>5. task.info \in Numbers /\ task.new \in Numbers /\ task.read \in Numbers
  BY <1>2 DEF TaskType
<1> QED
  BY <1>1, <1>3, <1>4, <1>5 DEF Grows, Known

\* A reload serves what it was given, when that is a pair, or what it served.
LEMMA ReloadServes ==
    ASSUME Shape, made' = made, NEW read \in Numbers, read # NoFile, Reload(read)
    PROVE  /\ live' \in LiveType'
           /\ \/ live' = live
              \/ live'.cert = read /\ live'.key = disk.key /\ Cert(read).key = disk.key
           /\ faults' = faults \/ Fault
<1>1. Grows /\ disk.key \in Numbers' /\ read \in Numbers'
  BY GrowsUnchanged, NumbersGrow, StillSo DEF Known
<1>2. live' = live => live' \in LiveType'
  BY <1>1, NumbersGrow
<1> QED
  BY <1>1, <1>2 DEF Reload, LiveType

\* An entry of the ledger stands for an order the CA has still to count.
LEMMA LedgerStands ==
    ASSUME NEW l \in Stored, NEW c \in Stored, NEW t \in Nat, Admits(l, t, CaLimit)
    PROVE  /\ NewTat(l, t, CaLimit) \in Stored
           /\ c <= l => /\ Tat(c, t) + CaLimit.interval <= NewTat(l, t, CaLimit)
                        /\ c <= NewTat(l, t, CaLimit)
           /\ NewTat(l, t, CaLimit) <= t + CaLimit.tolerance
<1>1. CaLimit.interval \in Nat \ {0} /\ CaLimit.tolerance \in Nat
  BY CertificatesAssumption
<1> QED
  BY <1>1 DEF Stored, Admits, NewTat, Tat, MaxOf, None

\* An order the ledger was debited for is within the CA's limit.
LEMMA OrderAdmitted ==
    ASSUME NEW l \in Stored, NEW c \in Stored, NEW t \in Nat,
           Tat(c, t) + CaLimit.interval <= l, l <= t + CaLimit.tolerance
    PROVE  Admits(c, t, CaLimit) /\ NewTat(c, t, CaLimit) <= l
<1>1. CaLimit.interval \in Nat \ {0} /\ CaLimit.tolerance \in Nat
  BY CertificatesAssumption
<1> QED
  BY <1>1 DEF Stored, Admits, NewTat, Tat, MaxOf, None

\* What the CA's count of an order changes in the books.
LEMMA CountedBooks ==
    ASSUME clock \in Nat, NEW b \in BooksType, NEW f \in BOOLEAN
    PROVE  LET d == Counted(b, f)
           IN /\ d \in BooksType /\ d.ledger = b.ledger /\ d.lease = b.lease /\ d.left = b.left
              /\ d.off = (b.off \/ ~f)
              /\ d.refused = (b.refused \/ ~Admits(b.ca, clock, CaLimit))
              /\ d.ca = IF Admits(b.ca, clock, CaLimit) THEN NewTat(b.ca, clock, CaLimit) ELSE b.ca
<1>1. CaLimit.interval \in Nat \ {0}
  BY CertificatesAssumption
<1>2. b.ca \in Stored
  BY DEF BooksType
<1>3. NewTat(b.ca, clock, CaLimit) \in Stored
  BY <1>1, <1>2 DEF NewTat, Tat, MaxOf, Stored, None
<1>4. (b.off \/ ~f) \in BOOLEAN /\ (b.refused \/ ~Admits(b.ca, clock, CaLimit)) \in BOOLEAN
  OBVIOUS
<1> QED
  BY <1>2, <1>3, <1>4 DEF Counted, BooksType

\* The control plane is told how the order ended.
LEMMA StepOutcome ==
    ASSUME CertInv, Outcome
    PROVE  CertInv'
<1>1. Shape /\ Place /\ Files /\ Orders /\ Leftovers
  BY DEF CertInv
<1>2. Grows /\ UNCHANGED <<set, clock, made, disk, proc, live, watcher, ari, http>>
  BY <1>1, GrowsUnchanged DEF Outcome
<1>3. task.pc = "outcome" /\ Goto("done")
  BY DEF Outcome
<1>4. GoesTo("done")
  BY <1>1, <1>2, <1>3, TaskGoes DEF Pcs
<1>5. /\ books' \in BooksType' /\ books'.ledger = books.ledger /\ books'.ca = books.ca
      /\ books'.off = books.off /\ books'.refused = books.refused /\ books'.lease = FALSE
      /\ (books'.left => books.left \/ Fault)
  <2>1. CASE books' = [books EXCEPT !.lease = FALSE]
    BY <1>1, <2>1 DEF Shape, BooksType
  <2>2. CASE books' = [books EXCEPT !.lease = FALSE, !.left = TRUE] /\ Fault
    BY <1>1, <2>2 DEF Shape, BooksType
  <2> QED
    BY <2>1, <2>2 DEF Outcome
<1>a. faults' \in 0..MaxFaults /\ (faults > 0 => faults' > 0) /\ (Fault => faults' > 0)
  BY <1>1, FaultCounted DEF Outcome
<1>6. Shape'
  <2> QED
    BY <1>1, <1>2, <1>3, <1>4, <1>5, <1>a, NumbersGrow DEF Shape, Grows, GoesTo
<1>7. Place'
  BY <1>1, <1>2, <1>3, <1>4, <1>5, <1>a DEF Place, Putting, Running, GoesTo
<1>8. Files'
  BY <1>1, <1>2, <1>3, <1>4, <1>5, <1>a DEF Files, Place, Running, Putting, NeverMismatched, PairConsistent, StartsAgain, Publishing, Matches, Cert, Present, GoesTo
<1>9. Orders'
  BY <1>1, <1>2, <1>3, <1>4, <1>5, <1>a DEF Orders, Place, RefusalExplained, Due, Cert, Plan, GoesTo
<1>10. Leftovers'
  BY <1>1, <1>2, <1>3, <1>4, <1>5, <1>a DEF Leftovers, Place, Running, Answering, Answered, GoesTo
<1> QED
  BY <1>6, <1>7, <1>8, <1>9, <1>10 DEF CertInv

\* The new certificate is taken away.
LEMMA StepUndo ==
    ASSUME CertInv, Undo
    PROVE  CertInv'
<1>1. Shape /\ Place /\ Files /\ Orders /\ Leftovers
  BY DEF CertInv
<1>2. Grows /\ UNCHANGED <<set, clock, made, proc, live, ari, books, http>>
  BY <1>1, GrowsUnchanged DEF Undo
<1>3. task.pc = "undo" /\ Goto("restore")
  BY DEF Undo
<1>4. GoesTo("restore")
  BY <1>1, <1>2, <1>3, TaskGoes DEF Pcs
<1>5. watcher' \in WatcherType' /\ watcher'.pc = watcher.pc /\ watcher'.read = watcher.read
  BY <1>1, <1>2, WatcherHears DEF Undo
<1>6. disk' \in DiskType' /\ disk'.key = disk.key /\ disk'.bak = disk.bak /\ disk'.torn = disk.torn
  BY <1>1, <1>2, NumbersGrow DEF Shape, DiskType, Changed, Undo
<1>a. faults' \in 0..MaxFaults /\ (faults > 0 => faults' > 0)
  BY <1>1, FaultCounted DEF Undo
<1>7. Shape'
  <2> QED
    BY <1>1, <1>2, <1>3, <1>4, <1>5, <1>6, <1>a, NumbersGrow DEF Shape, Grows, GoesTo
<1>8. Place'
  BY <1>1, <1>2, <1>3, <1>4, <1>5, <1>6, <1>a DEF Place, Putting, Running, GoesTo
<1>9. Files'
  BY <1>1, <1>2, <1>3, <1>4, <1>5, <1>6, <1>a DEF Files, Place, Running, Putting, NeverMismatched, PairConsistent, StartsAgain, Publishing, Matches, Cert, Present, GoesTo
<1>10. Orders'
  BY <1>1, <1>2, <1>3, <1>4, <1>5, <1>6, <1>a DEF Orders, Place, RefusalExplained, Due, Cert, Plan, GoesTo
<1>11. Leftovers'
  BY <1>1, <1>2, <1>3, <1>4, <1>5, <1>6, <1>a DEF Leftovers, Place, Running, Answering, Answered, GoesTo
<1> QED
  BY <1>7, <1>8, <1>9, <1>10, <1>11 DEF CertInv

\* CertStore::load reads the certificate.
LEMMA StepLoadCert ==
    ASSUME CertInv, LoadCert
    PROVE  CertInv'
<1>1. CASE disk.cert = NoFile /\ faults' = faults /\ proc' = "no pair" /\ task' = Idle
  <2>1. Shape /\ Place /\ Files /\ Orders /\ Leftovers
    BY DEF CertInv
  <2>2. Grows /\ UNCHANGED <<set, clock, made, disk, live, watcher, ari, books, http, faults>>
    BY <1>1, <2>1, GrowsUnchanged DEF LoadCert
  <2>3. task.pc = "load_cert"
    BY DEF LoadCert
  <2>4. task' \in TaskType' /\ task'.pc = "down" /\ ~task'.ok /\ ~task'.ledgered
    BY <1>1, <2>1, <2>2, TaskIdle
  <2>5. Shape'
    <3> QED
      BY <1>1, <2>1, <2>2, <2>3, <2>4, NumbersGrow DEF Shape, Grows
  <2>6. Place'
    BY <1>1, <2>1, <2>2, <2>3, <2>4 DEF Place, Putting, Running
  <2>7. Files'
    BY <1>1, <2>1, <2>2, <2>3, <2>4 DEF Files, Place, Running, Putting, NeverMismatched, PairConsistent, StartsAgain, Publishing, Matches, Cert, Present
  <2>8. Orders'
    BY <1>1, <2>1, <2>2, <2>3, <2>4 DEF Orders, Place, RefusalExplained, Due, Cert, Plan
  <2>9. Leftovers'
    BY <1>1, <2>1, <2>2, <2>3, <2>4 DEF Leftovers, Place, Running, Answering, Answered
  <2> QED
    BY <2>5, <2>6, <2>7, <2>8, <2>9 DEF CertInv
<1>2. CASE disk.cert # NoFile /\ faults' = faults /\ proc' = proc /\ task' = [task EXCEPT !.pc = "load_key", !.read = disk.cert]
  <2>1. Shape /\ Place /\ Files /\ Orders /\ Leftovers
    BY DEF CertInv
  <2>2. Grows /\ UNCHANGED <<set, clock, made, disk, live, watcher, ari, books, http, faults>>
    BY <1>2, <2>1, GrowsUnchanged DEF LoadCert
  <2>3. task.pc = "load_cert"
    BY DEF LoadCert
  <2>4. /\ task' \in TaskType' /\ task'.pc = "load_key" /\ task'.info = task.info
        /\ task'.read = disk.cert /\ task'.ari = task.ari /\ task'.new = task.new
        /\ task'.had = task.had /\ task'.ok = task.ok /\ task'.ledgered = task.ledgered
        /\ task'.checked = task.checked
    BY <2>1, <2>2, <1>2, NumbersGrow DEF Shape, TaskType, DiskType, Pcs
  <2>5. Shape'
    <3> QED
      BY <1>2, <2>1, <2>2, <2>3, <2>4, NumbersGrow DEF Shape, Grows
  <2>6. Place'
    BY <1>2, <2>1, <2>2, <2>3, <2>4 DEF Place, Putting, Running
  <2>7. Files'
    BY <1>2, <2>1, <2>2, <2>3, <2>4 DEF Files, Place, Running, Putting, NeverMismatched, PairConsistent, StartsAgain, Publishing, Matches, Cert, Present
  <2>8. Orders'
    BY <1>2, <2>1, <2>2, <2>3, <2>4 DEF Orders, Place, RefusalExplained, Due, Cert, Plan
  <2>9. Leftovers'
    BY <1>2, <2>1, <2>2, <2>3, <2>4 DEF Leftovers, Place, Running, Answering, Answered
  <2> QED
    BY <2>5, <2>6, <2>7, <2>8, <2>9 DEF CertInv
<1>3. CASE Fault /\ proc' = "unreadable" /\ task' = Idle
  <2>1. Shape /\ Place /\ Files /\ Orders /\ Leftovers
    BY DEF CertInv
  <2>2. Grows /\ UNCHANGED <<set, clock, made, disk, live, watcher, ari, books, http>>
    BY <1>3, <2>1, GrowsUnchanged DEF LoadCert
  <2>3. task.pc = "load_cert"
    BY DEF LoadCert
  <2>4. task' \in TaskType' /\ task'.pc = "down" /\ ~task'.ok /\ ~task'.ledgered
    BY <1>3, <2>1, <2>2, TaskIdle
  <2>5. faults' \in 0..MaxFaults /\ (faults > 0 => faults' > 0)
    BY <1>3, <2>1, FaultCounted
  <2>6. Shape'
    <3> QED
      BY <1>3, <2>1, <2>2, <2>3, <2>4, <2>5, NumbersGrow DEF Shape, Grows
  <2>7. Place'
    BY <1>3, <2>1, <2>2, <2>3, <2>4, <2>5 DEF Place, Putting, Running
  <2>8. Files'
    BY <1>3, <2>1, <2>2, <2>3, <2>4, <2>5 DEF Files, Place, Running, Putting, NeverMismatched, PairConsistent, StartsAgain, Publishing, Matches, Cert, Present
  <2>9. Orders'
    BY <1>3, <2>1, <2>2, <2>3, <2>4, <2>5 DEF Orders, Place, RefusalExplained, Due, Cert, Plan
  <2>10. Leftovers'
    BY <1>3, <2>1, <2>2, <2>3, <2>4, <2>5 DEF Leftovers, Place, Running, Answering, Answered
  <2> QED
    BY <2>6, <2>7, <2>8, <2>9, <2>10 DEF CertInv
<1> QED
  BY <1>1, <1>2, <1>3 DEF LoadCert, Refuse

\* CertStore::load reads the key, and refuses what is no pair.
LEMMA StepLoadKey ==
    ASSUME CertInv, LoadKey
    PROVE  CertInv'
<1>1. CASE /\ Cert(task.read).key = disk.key /\ live' = [cert |-> task.read, key |-> disk.key]
           /\ Goto("listen") /\ proc' = proc /\ faults' = faults
  <2>1. Shape /\ Place /\ Files /\ Orders /\ Leftovers
    BY DEF CertInv
  <2>2. Grows /\ UNCHANGED <<set, clock, made, disk, watcher, ari, books, http, faults>>
    BY <1>1, <2>1, GrowsUnchanged DEF LoadKey
  <2>3. task.pc = "load_key"
    BY DEF LoadKey
  <2>4. GoesTo("listen")
    BY <2>1, <2>2, <1>1, TaskGoes DEF Pcs
  <2>5. task.read \in Numbers' /\ disk.key \in Numbers'
    BY <2>1, <2>2, NumbersGrow DEF Shape, DiskType, TaskType
  <2>6. live' \in LiveType' /\ live'.cert = task.read /\ live'.key = disk.key
    BY <1>1, <2>5 DEF LiveType
  <2>7. Shape'
    <3> QED
      BY <1>1, <2>1, <2>2, <2>3, <2>4, <2>5, <2>6, NumbersGrow DEF Shape, Grows, GoesTo
  <2>8. Place'
    BY <1>1, <2>1, <2>2, <2>3, <2>4, <2>5, <2>6 DEF Place, Putting, Running, GoesTo
  <2>9. Files'
    BY <1>1, <2>1, <2>2, <2>3, <2>4, <2>5, <2>6 DEF Files, Place, Running, Putting, NeverMismatched, PairConsistent, StartsAgain, Publishing, Matches, Cert, Present, GoesTo
  <2>10. Orders'
    BY <1>1, <2>1, <2>2, <2>3, <2>4, <2>5, <2>6 DEF Orders, Place, RefusalExplained, Due, Cert, Plan, GoesTo
  <2>11. Leftovers'
    BY <1>1, <2>1, <2>2, <2>3, <2>4, <2>5, <2>6 DEF Leftovers, Place, Running, Answering, Answered, GoesTo
  <2> QED
    BY <2>7, <2>8, <2>9, <2>10, <2>11 DEF CertInv
<1>2. CASE /\ Cert(task.read).key # disk.key /\ live' = live /\ proc' = "no pair"
           /\ task' = Idle /\ faults' = faults
  <2>1. Shape /\ Place /\ Files /\ Orders /\ Leftovers
    BY DEF CertInv
  <2>2. Grows /\ UNCHANGED <<set, clock, made, disk, watcher, ari, books, http, faults>>
    BY <1>2, <2>1, GrowsUnchanged DEF LoadKey
  <2>3. task.pc = "load_key"
    BY DEF LoadKey
  <2>4. task' \in TaskType' /\ task'.pc = "down" /\ ~task'.ok /\ ~task'.ledgered
    BY <1>2, <2>1, <2>2, TaskIdle
  <2>5. Shape'
    <3> QED
      BY <1>2, <2>1, <2>2, <2>3, <2>4, NumbersGrow DEF Shape, Grows
  <2>6. Place'
    BY <1>2, <2>1, <2>2, <2>3, <2>4 DEF Place, Putting, Running
  <2>7. Files'
    BY <1>2, <2>1, <2>2, <2>3, <2>4 DEF Files, Place, Running, Putting, NeverMismatched, PairConsistent, StartsAgain, Publishing, Matches, Cert, Present
  <2>8. Orders'
    BY <1>2, <2>1, <2>2, <2>3, <2>4 DEF Orders, Place, RefusalExplained, Due, Cert, Plan
  <2>9. Leftovers'
    BY <1>2, <2>1, <2>2, <2>3, <2>4 DEF Leftovers, Place, Running, Answering, Answered
  <2> QED
    BY <2>5, <2>6, <2>7, <2>8, <2>9 DEF CertInv
<1>3. CASE Fault /\ proc' = "unreadable" /\ task' = Idle /\ live' = live
  <2>1. Shape /\ Place /\ Files /\ Orders /\ Leftovers
    BY DEF CertInv
  <2>2. Grows /\ UNCHANGED <<set, clock, made, disk, live, watcher, ari, books, http>>
    BY <1>3, <2>1, GrowsUnchanged DEF LoadKey
  <2>3. task.pc = "load_key"
    BY DEF LoadKey
  <2>4. task' \in TaskType' /\ task'.pc = "down" /\ ~task'.ok /\ ~task'.ledgered
    BY <1>3, <2>1, <2>2, TaskIdle
  <2>5. faults' \in 0..MaxFaults /\ (faults > 0 => faults' > 0)
    BY <1>3, <2>1, FaultCounted
  <2>6. Shape'
    <3> QED
      BY <1>3, <2>1, <2>2, <2>3, <2>4, <2>5, NumbersGrow DEF Shape, Grows
  <2>7. Place'
    BY <1>3, <2>1, <2>2, <2>3, <2>4, <2>5 DEF Place, Putting, Running
  <2>8. Files'
    BY <1>3, <2>1, <2>2, <2>3, <2>4, <2>5 DEF Files, Place, Running, Putting, NeverMismatched, PairConsistent, StartsAgain, Publishing, Matches, Cert, Present
  <2>9. Orders'
    BY <1>3, <2>1, <2>2, <2>3, <2>4, <2>5 DEF Orders, Place, RefusalExplained, Due, Cert, Plan
  <2>10. Leftovers'
    BY <1>3, <2>1, <2>2, <2>3, <2>4, <2>5 DEF Leftovers, Place, Running, Answering, Answered
  <2> QED
    BY <2>6, <2>7, <2>8, <2>9, <2>10 DEF CertInv
<1> QED
  BY <1>1, <1>2, <1>3 DEF LoadKey, Refuse

\* A process starts: with ACME on and files missing it orders a certificate first.
LEMMA StepStart ==
    ASSUME CertInv, Start
    PROVE  CertInv'
<1>1. CASE set.acme /\ ~Present /\ task' = [Idle EXCEPT !.pc = "lease"]
  <2>1. Shape /\ Place /\ Files /\ Orders /\ Leftovers
    BY DEF CertInv
  <2>2. Grows /\ UNCHANGED <<set, clock, made, disk, live, watcher, ari, books, http, faults>>
    BY <1>1, <2>1, GrowsUnchanged DEF Start
  <2>3. proc \notin Running /\ proc' = "boot"
    BY DEF Start, Running
  <2>4. /\ task' \in TaskType' /\ task'.pc = "lease" /\ task'.info = NoFile /\ task'.read = NoFile
        /\ task'.ari = FALSE /\ task'.new = NoFile /\ task'.had = FALSE /\ task'.ok = FALSE
        /\ task'.ledgered = FALSE /\ task'.checked = TRUE
    BY <2>1, <2>2, <1>1, NumbersGrow DEF Shape, TaskType, Idle, Pcs, Sleep
  <2>5. Shape'
    <3> QED
      BY <1>1, <2>1, <2>2, <2>3, <2>4, NumbersGrow DEF Shape, Grows
  <2>6. Place'
    BY <1>1, <2>1, <2>2, <2>3, <2>4 DEF Place, Putting, Running
  <2>7. Files'
    BY <1>1, <2>1, <2>2, <2>3, <2>4 DEF Files, Place, Running, Putting, NeverMismatched, PairConsistent, StartsAgain, Publishing, Matches, Cert, Present
  <2>8. Orders'
    BY <1>1, <2>1, <2>2, <2>3, <2>4 DEF Orders, Place, RefusalExplained, Due, Cert, Plan
  <2>9. Leftovers'
    BY <1>1, <2>1, <2>2, <2>3, <2>4 DEF Leftovers, Place, Running, Answering, Answered
  <2> QED
    BY <2>5, <2>6, <2>7, <2>8, <2>9 DEF CertInv
<1>2. CASE ~(set.acme /\ ~Present) /\ task' = [Idle EXCEPT !.pc = "ensure"]
  <2>1. Shape /\ Place /\ Files /\ Orders /\ Leftovers
    BY DEF CertInv
  <2>2. Grows /\ UNCHANGED <<set, clock, made, disk, live, watcher, ari, books, http, faults>>
    BY <1>2, <2>1, GrowsUnchanged DEF Start
  <2>3. proc \notin Running /\ proc' = "boot"
    BY DEF Start, Running
  <2>4. /\ task' \in TaskType' /\ task'.pc = "ensure" /\ task'.info = NoFile /\ task'.read = NoFile
        /\ task'.ari = FALSE /\ task'.new = NoFile /\ task'.had = FALSE /\ task'.ok = FALSE
        /\ task'.ledgered = FALSE /\ task'.checked = TRUE
    BY <2>1, <2>2, <1>2, NumbersGrow DEF Shape, TaskType, Idle, Pcs, Sleep
  <2>5. Shape'
    <3> QED
      BY <1>2, <2>1, <2>2, <2>3, <2>4, NumbersGrow DEF Shape, Grows
  <2>6. Place'
    BY <1>2, <2>1, <2>2, <2>3, <2>4 DEF Place, Putting, Running
  <2>7. Files'
    BY <1>2, <2>1, <2>2, <2>3, <2>4 DEF Files, Place, Running, Putting, NeverMismatched, PairConsistent, StartsAgain, Publishing, Matches, Cert, Present
  <2>8. Orders'
    BY <1>2, <2>1, <2>2, <2>3, <2>4 DEF Orders, Place, RefusalExplained, Due, Cert, Plan
  <2>9. Leftovers'
    BY <1>2, <2>1, <2>2, <2>3, <2>4 DEF Leftovers, Place, Running, Answering, Answered
  <2> QED
    BY <2>5, <2>6, <2>7, <2>8, <2>9 DEF CertInv
<1> QED
  BY <1>1, <1>2 DEF Start, Present

\* selfsigned::ensure makes a pair where one is missing.
LEMMA StepEnsure ==
    ASSUME CertInv, Ensure
    PROVE  CertInv'
<1>1. CASE /\ set.self_signed /\ ~Present /\ Len(made) < MaxPairs
           /\ made' = Append(made, New(Len(made) + 1, TRUE, "made"))
           /\ task' = [task EXCEPT !.pc = "stage", !.new = Len(made) + 1] /\ proc' = proc
  <2>1. Shape /\ Place /\ Files /\ Orders /\ Leftovers
    BY DEF CertInv
  <2>2. /\ Grows /\ Len(made') = Len(made) + 1
        /\ Len(made) + 1 \in Numbers' /\ Len(made) + 1 # NoFile
        /\ made'[Len(made) + 1].key = Len(made) + 1 /\ (\A n \in 1..Len(made) : made'[n].how = made[n].how)
        /\ \A n \in 1..Len(made') : made'[n].self = IF n \in 1..Len(made) THEN made[n].self ELSE TRUE
        /\ UNCHANGED <<set, clock, disk, live, watcher, ari, books, http, faults>>
    <3>1. Len(made) + 1 \in 1..(Len(made) + 1)
      BY <2>1, MadeFacts
    <3> QED
      BY <1>1, <2>1, <3>1, MadeOne DEF Ensure, Hows
  <2>3. task.pc = "ensure"
    BY DEF Ensure
  <2>4. /\ task' \in TaskType' /\ task'.pc = "stage" /\ task'.info = task.info
        /\ task'.read = task.read /\ task'.ari = task.ari /\ task'.new = Len(made) + 1
        /\ task'.had = task.had /\ task'.ok = task.ok /\ task'.ledgered = task.ledgered
        /\ task'.checked = task.checked
    BY <2>1, <2>2, <1>1, NumbersGrow DEF Shape, TaskType, Pcs
  <2>5. Known
    BY <2>1, <2>2, StillSo
  <2>6. set.operator => ~set.acme /\ ~set.self_signed
    BY <2>1, OperatorAlone
  <2>7. set.self_signed /\ ~Present /\ proc' = proc
    BY <1>1 DEF Ensure
  <2>8. Shape'
    <3> QED
      BY <2>1, <2>2, <2>3, <2>4, <2>5, <2>6, <2>7, NumbersGrow DEF Shape, Grows, Known
  <2>9. Place'
    BY <2>1, <2>2, <2>3, <2>4, <2>5, <2>6, <2>7 DEF Place, Putting, Running, Known, Files, Matches, Present
  <2>10. Files'
    BY <2>1, <2>2, <2>3, <2>4, <2>5, <2>6, <2>7 DEF Files, Place, Running, Putting, NeverMismatched, PairConsistent, StartsAgain, Publishing, Matches, Cert, Present, Known
  <2>11. Orders'
    BY <2>1, <2>2, <2>3, <2>4, <2>5, <2>6, <2>7 DEF Orders, Place, RefusalExplained, Due, Cert, Plan, Known
  <2>12. Leftovers'
    BY <2>1, <2>2, <2>3, <2>4, <2>5, <2>6, <2>7 DEF Leftovers, Place, Running, Answering, Answered, Known
  <2> QED
    BY <2>8, <2>9, <2>10, <2>11, <2>12 DEF CertInv
<1>2. CASE set.self_signed /\ ~Present /\ proc' = "no issuance" /\ task' = Idle /\ made' = made
  <2>1. Shape /\ Place /\ Files /\ Orders /\ Leftovers
    BY DEF CertInv
  <2>2. Grows /\ UNCHANGED <<set, clock, made, disk, live, watcher, ari, books, http, faults>>
    BY <1>2, <2>1, GrowsUnchanged DEF Ensure
  <2>3. task.pc = "ensure"
    BY DEF Ensure
  <2>4. task' \in TaskType' /\ task'.pc = "down" /\ ~task'.ok /\ ~task'.ledgered
    BY <1>2, <2>1, <2>2, TaskIdle
  <2>5. Shape'
    <3> QED
      BY <1>2, <2>1, <2>2, <2>3, <2>4, NumbersGrow DEF Shape, Grows
  <2>6. Place'
    BY <1>2, <2>1, <2>2, <2>3, <2>4 DEF Place, Putting, Running
  <2>7. Files'
    BY <1>2, <2>1, <2>2, <2>3, <2>4 DEF Files, Place, Running, Putting, NeverMismatched, PairConsistent, StartsAgain, Publishing, Matches, Cert, Present
  <2>8. Orders'
    BY <1>2, <2>1, <2>2, <2>3, <2>4 DEF Orders, Place, RefusalExplained, Due, Cert, Plan
  <2>9. Leftovers'
    BY <1>2, <2>1, <2>2, <2>3, <2>4 DEF Leftovers, Place, Running, Answering, Answered
  <2> QED
    BY <2>5, <2>6, <2>7, <2>8, <2>9 DEF CertInv
<1>3. CASE ~(set.self_signed /\ ~Present) /\ Goto("load_cert") /\ UNCHANGED <<made, proc>>
  <2>1. Shape /\ Place /\ Files /\ Orders /\ Leftovers
    BY DEF CertInv
  <2>2. Grows /\ UNCHANGED <<set, clock, made, disk, proc, live, watcher, ari, books, http, faults>>
    BY <1>3, <2>1, GrowsUnchanged DEF Ensure
  <2>3. task.pc = "ensure"
    BY DEF Ensure
  <2>4. GoesTo("load_cert")
    BY <2>1, <2>2, <1>3, TaskGoes DEF Pcs
  <2>5. Shape'
    <3> QED
      BY <1>3, <2>1, <2>2, <2>3, <2>4, NumbersGrow DEF Shape, Grows, GoesTo
  <2>6. Place'
    BY <1>3, <2>1, <2>2, <2>3, <2>4 DEF Place, Putting, Running, GoesTo
  <2>7. Files'
    BY <1>3, <2>1, <2>2, <2>3, <2>4 DEF Files, Place, Running, Putting, NeverMismatched, PairConsistent, StartsAgain, Publishing, Matches, Cert, Present, GoesTo
  <2>8. Orders'
    BY <1>3, <2>1, <2>2, <2>3, <2>4 DEF Orders, Place, RefusalExplained, Due, Cert, Plan, GoesTo
  <2>9. Leftovers'
    BY <1>3, <2>1, <2>2, <2>3, <2>4 DEF Leftovers, Place, Running, Answering, Answered, GoesTo
  <2> QED
    BY <2>5, <2>6, <2>7, <2>8, <2>9 DEF CertInv
<1> QED
  BY <1>1, <1>2, <1>3 DEF Ensure, Refuse, Present

\* The redirect listener takes port 80, and the process is up.
LEMMA StepListen ==
    ASSUME CertInv, Listen
    PROVE  CertInv'
<1>1. CASE proc' = "no port" /\ task' = Idle /\ http' = http
  <2>1. Shape /\ Place /\ Files /\ Orders /\ Leftovers
    BY DEF CertInv
  <2>2. Grows /\ UNCHANGED <<set, clock, made, disk, live, watcher, ari, books, http, faults>>
    BY <1>1, <2>1, GrowsUnchanged DEF Listen
  <2>3. task.pc = "listen"
    BY DEF Listen
  <2>4. task' \in TaskType' /\ task'.pc = "down" /\ ~task'.ok /\ ~task'.ledgered
    BY <1>1, <2>1, <2>2, TaskIdle
  <2>5. Shape'
    <3> QED
      BY <1>1, <2>1, <2>2, <2>3, <2>4, NumbersGrow DEF Shape, Grows
  <2>6. Place'
    BY <1>1, <2>1, <2>2, <2>3, <2>4 DEF Place, Putting, Running
  <2>7. Files'
    BY <1>1, <2>1, <2>2, <2>3, <2>4 DEF Files, Place, Running, Putting, NeverMismatched, PairConsistent, StartsAgain, Publishing, Matches, Cert, Present
  <2>8. Orders'
    BY <1>1, <2>1, <2>2, <2>3, <2>4 DEF Orders, Place, RefusalExplained, Due, Cert, Plan
  <2>9. Leftovers'
    BY <1>1, <2>1, <2>2, <2>3, <2>4 DEF Leftovers, Place, Running, Answering, Answered
  <2> QED
    BY <2>5, <2>6, <2>7, <2>8, <2>9 DEF CertInv
<1>2. CASE /\ proc' = "up" /\ task' = [Idle EXCEPT !.pc = "sleep", !.checked = FALSE]
           /\ http' = [http EXCEPT !.port = IF set.port80 THEN "redirect" ELSE @]
  <2>1. Shape /\ Place /\ Files /\ Orders /\ Leftovers
    BY DEF CertInv
  <2>2. Grows /\ UNCHANGED <<set, clock, made, disk, live, watcher, ari, books, faults>>
    BY <1>2, <2>1, GrowsUnchanged DEF Listen
  <2>3. task.pc = "listen"
    BY DEF Listen
  <2>4. /\ task' \in TaskType' /\ task'.pc = "sleep" /\ task'.info = NoFile /\ task'.read = NoFile
        /\ task'.ari = FALSE /\ task'.new = NoFile /\ task'.had = FALSE /\ task'.ok = FALSE
        /\ task'.ledgered = FALSE /\ task'.checked = FALSE
    BY <2>1, <2>2, <1>2, NumbersGrow DEF Shape, TaskType, Idle, Pcs, Sleep
  <2>5. /\ http' \in HttpType' /\ http'.port = IF set.port80 THEN "redirect" ELSE http.port
        /\ http'.token = http.token /\ http'.record = http.record
    BY <2>1, <2>2, <1>2, NumbersGrow DEF Shape, HttpType
  <2>6. Shape'
    <3> QED
      BY <1>2, <2>1, <2>2, <2>3, <2>4, <2>5, NumbersGrow DEF Shape, Grows
  <2>7. Place'
    BY <1>2, <2>1, <2>2, <2>3, <2>4, <2>5 DEF Place, Putting, Running
  <2>8. Files'
    BY <1>2, <2>1, <2>2, <2>3, <2>4, <2>5 DEF Files, Place, Running, Putting, NeverMismatched, PairConsistent, StartsAgain, Publishing, Matches, Cert, Present
  <2>9. Orders'
    BY <1>2, <2>1, <2>2, <2>3, <2>4, <2>5 DEF Orders, Place, RefusalExplained, Due, Cert, Plan
  <2>10. Leftovers'
    BY <1>2, <2>1, <2>2, <2>3, <2>4, <2>5 DEF Leftovers, Place, Running, Answering, Answered
  <2> QED
    BY <2>6, <2>7, <2>8, <2>9, <2>10 DEF CertInv
<1> QED
  BY <1>1, <1>2 DEF Listen, Refuse

\* The fleet's verdict.
LEMMA StepLease ==
    ASSUME CertInv, Lease
    PROVE  CertInv'
<1>1. CASE Goto("order") /\ books' = [books EXCEPT !.lease = TRUE] /\ faults' = faults
  <2>1. Shape /\ Place /\ Files /\ Orders /\ Leftovers
    BY DEF CertInv
  <2>2. Grows /\ UNCHANGED <<set, clock, made, disk, proc, live, watcher, ari, http, faults>>
    BY <1>1, <2>1, GrowsUnchanged DEF Lease
  <2>3. task.pc = "lease"
    BY DEF Lease
  <2>4. GoesTo("order")
    BY <2>1, <2>2, <1>1, TaskGoes DEF Pcs
  <2>5. /\ books' \in BooksType' /\ books'.ledger = books.ledger /\ books'.ca = books.ca
        /\ books'.off = books.off /\ books'.refused = books.refused /\ books'.lease = TRUE
        /\ books'.deferred = books.deferred /\ books'.left = books.left
    BY <2>1, <2>2, <1>1, NumbersGrow DEF Shape, BooksType
  <2>6. Shape'
    <3> QED
      BY <1>1, <2>1, <2>2, <2>3, <2>4, <2>5, NumbersGrow DEF Shape, Grows, GoesTo
  <2>7. Place'
    BY <1>1, <2>1, <2>2, <2>3, <2>4, <2>5 DEF Place, Putting, Running, GoesTo
  <2>8. Files'
    BY <1>1, <2>1, <2>2, <2>3, <2>4, <2>5 DEF Files, Place, Running, Putting, NeverMismatched, PairConsistent, StartsAgain, Publishing, Matches, Cert, Present, GoesTo
  <2>9. Orders'
    BY <1>1, <2>1, <2>2, <2>3, <2>4, <2>5 DEF Orders, Place, RefusalExplained, Due, Cert, Plan, GoesTo
  <2>10. Leftovers'
    BY <1>1, <2>1, <2>2, <2>3, <2>4, <2>5 DEF Leftovers, Place, Running, Answering, Answered, GoesTo
  <2> QED
    BY <2>6, <2>7, <2>8, <2>9, <2>10 DEF CertInv
<1>2. CASE Goto("done") /\ books' = [books EXCEPT !.deferred = TRUE] /\ Fault
  <2>1. Shape /\ Place /\ Files /\ Orders /\ Leftovers
    BY DEF CertInv
  <2>2. Grows /\ UNCHANGED <<set, clock, made, disk, proc, live, watcher, ari, http>>
    BY <1>2, <2>1, GrowsUnchanged DEF Lease
  <2>3. task.pc = "lease"
    BY DEF Lease
  <2>4. GoesTo("done")
    BY <2>1, <2>2, <1>2, TaskGoes DEF Pcs
  <2>5. /\ books' \in BooksType' /\ books'.ledger = books.ledger /\ books'.ca = books.ca
        /\ books'.off = books.off /\ books'.refused = books.refused /\ books'.lease = books.lease
        /\ books'.deferred = TRUE /\ books'.left = books.left
    BY <2>1, <2>2, <1>2, NumbersGrow DEF Shape, BooksType
  <2>6. faults' \in 0..MaxFaults /\ (faults > 0 => faults' > 0)
    BY <1>2, <2>1, FaultCounted
  <2>7. Shape'
    <3> QED
      BY <1>2, <2>1, <2>2, <2>3, <2>4, <2>5, <2>6, NumbersGrow DEF Shape, Grows, GoesTo
  <2>8. Place'
    BY <1>2, <2>1, <2>2, <2>3, <2>4, <2>5, <2>6 DEF Place, Putting, Running, GoesTo
  <2>9. Files'
    BY <1>2, <2>1, <2>2, <2>3, <2>4, <2>5, <2>6 DEF Files, Place, Running, Putting, NeverMismatched, PairConsistent, StartsAgain, Publishing, Matches, Cert, Present, GoesTo
  <2>10. Orders'
    BY <1>2, <2>1, <2>2, <2>3, <2>4, <2>5, <2>6 DEF Orders, Place, RefusalExplained, Due, Cert, Plan, GoesTo
  <2>11. Leftovers'
    BY <1>2, <2>1, <2>2, <2>3, <2>4, <2>5, <2>6 DEF Leftovers, Place, Running, Answering, Answered, GoesTo
  <2> QED
    BY <2>7, <2>8, <2>9, <2>10, <2>11 DEF CertInv
<1>3. CASE Goto("ledger") /\ UNCHANGED <<books, faults>>
  <2>1. Shape /\ Place /\ Files /\ Orders /\ Leftovers
    BY DEF CertInv
  <2>2. Grows /\ UNCHANGED <<set, clock, made, disk, proc, live, watcher, ari, books, http>>
    BY <1>3, <2>1, GrowsUnchanged DEF Lease
  <2>3. task.pc = "lease"
    BY DEF Lease
  <2>4. GoesTo("ledger")
    BY <2>1, <2>2, <1>3, TaskGoes DEF Pcs
  <2>5. faults' \in 0..MaxFaults /\ (faults > 0 => faults' > 0)
    BY <1>3, <2>1, FaultCounted
  <2>6. books' = books
    BY <1>3 DEF Lease
  <2>7. Shape'
    <3> QED
      BY <1>3, <2>1, <2>2, <2>3, <2>4, <2>5, <2>6, NumbersGrow DEF Shape, Grows, GoesTo
  <2>8. Place'
    BY <1>3, <2>1, <2>2, <2>3, <2>4, <2>5, <2>6 DEF Place, Putting, Running, GoesTo
  <2>9. Files'
    BY <1>3, <2>1, <2>2, <2>3, <2>4, <2>5, <2>6 DEF Files, Place, Running, Putting, NeverMismatched, PairConsistent, StartsAgain, Publishing, Matches, Cert, Present, GoesTo
  <2>10. Orders'
    BY <1>3, <2>1, <2>2, <2>3, <2>4, <2>5, <2>6 DEF Orders, Place, RefusalExplained, Due, Cert, Plan, GoesTo
  <2>11. Leftovers'
    BY <1>3, <2>1, <2>2, <2>3, <2>4, <2>5, <2>6 DEF Leftovers, Place, Running, Answering, Answered, GoesTo
  <2> QED
    BY <2>7, <2>8, <2>9, <2>10, <2>11 DEF CertInv
<1>4. CASE Goto("order") /\ books' = [books EXCEPT !.left = TRUE] /\ Fault
  <2>1. Shape /\ Place /\ Files /\ Orders /\ Leftovers
    BY DEF CertInv
  <2>2. Grows /\ UNCHANGED <<set, clock, made, disk, proc, live, watcher, ari, http>>
    BY <1>4, <2>1, GrowsUnchanged DEF Lease
  <2>3. task.pc = "lease"
    BY DEF Lease
  <2>4. GoesTo("order")
    BY <2>1, <2>2, <1>4, TaskGoes DEF Pcs
  <2>5. faults' \in 0..MaxFaults /\ faults' > 0
    BY <1>4, <2>1, FaultCounted
  <2>6. /\ books' \in BooksType' /\ books'.ledger = books.ledger /\ books'.ca = books.ca
        /\ books'.off = books.off /\ books'.refused = books.refused /\ books'.lease = books.lease
    BY <2>1, <1>4 DEF Shape, BooksType
  <2>7. Shape'
    <3> QED
      BY <2>1, <2>2, <2>3, <2>4, <2>5, <2>6, NumbersGrow DEF Shape, Grows, GoesTo
  <2>8. Place'
    BY <2>1, <2>2, <2>3, <2>4, <2>5, <2>6 DEF Place, Putting, Running, GoesTo
  <2>9. Files'
    BY <2>1, <2>2, <2>3, <2>4, <2>5, <2>6 DEF Files, Place, Running, Putting, NeverMismatched, PairConsistent, StartsAgain, Publishing, Matches, Cert, Present, GoesTo
  <2>10. Orders'
    BY <2>1, <2>2, <2>3, <2>4, <2>5, <2>6 DEF Orders, Place, RefusalExplained, Due, Cert, Plan, GoesTo
  <2>11. Leftovers'
    BY <2>1, <2>2, <2>3, <2>4, <2>5, <2>6 DEF Leftovers, Place, Running, Answering, Answered, GoesTo
  <2> QED
    BY <2>7, <2>8, <2>9, <2>10, <2>11 DEF CertInv
<1>5. CASE /\ Goto("ledger") /\ Fault
           /\ \E granted \in BOOLEAN : books' = [books EXCEPT !.left = @ \/ granted]
  <2>1. Shape /\ Place /\ Files /\ Orders /\ Leftovers
    BY DEF CertInv
  <2>2. Grows /\ UNCHANGED <<set, clock, made, disk, proc, live, watcher, ari, http>>
    BY <1>5, <2>1, GrowsUnchanged DEF Lease
  <2>3. task.pc = "lease"
    BY DEF Lease
  <2>4. GoesTo("ledger")
    BY <2>1, <2>2, <1>5, TaskGoes DEF Pcs
  <2>5. faults' \in 0..MaxFaults /\ faults' > 0
    BY <1>5, <2>1, FaultCounted
  <2>6. /\ books' \in BooksType' /\ books'.ledger = books.ledger /\ books'.ca = books.ca
        /\ books'.off = books.off /\ books'.refused = books.refused /\ books'.lease = books.lease
    <3>1. PICK left \in BOOLEAN : books' = [books EXCEPT !.left = left]
      BY <2>1, <1>5 DEF Shape, BooksType
    <3> QED
      BY <2>1, <3>1 DEF Shape, BooksType
  <2>7. Shape'
    <3> QED
      BY <2>1, <2>2, <2>3, <2>4, <2>5, <2>6, NumbersGrow DEF Shape, Grows, GoesTo
  <2>8. Place'
    BY <2>1, <2>2, <2>3, <2>4, <2>5, <2>6 DEF Place, Putting, Running, GoesTo
  <2>9. Files'
    BY <2>1, <2>2, <2>3, <2>4, <2>5, <2>6 DEF Files, Place, Running, Putting, NeverMismatched, PairConsistent, StartsAgain, Publishing, Matches, Cert, Present, GoesTo
  <2>10. Orders'
    BY <2>1, <2>2, <2>3, <2>4, <2>5, <2>6 DEF Orders, Place, RefusalExplained, Due, Cert, Plan, GoesTo
  <2>11. Leftovers'
    BY <2>1, <2>2, <2>3, <2>4, <2>5, <2>6 DEF Leftovers, Place, Running, Answering, Answered, GoesTo
  <2> QED
    BY <2>7, <2>8, <2>9, <2>10, <2>11 DEF CertInv
<1> QED
  BY <1>1, <1>2, <1>3, <1>4, <1>5 DEF Lease

\* The ledger is checked and debited.
LEMMA StepLedger ==
    ASSUME CertInv, Ledger
    PROVE  CertInv'
<1>1. CASE ~set.budget /\ Goto("order") /\ UNCHANGED <<books, faults>>
  <2>1. Shape /\ Place /\ Files /\ Orders /\ Leftovers
    BY DEF CertInv
  <2>2. Grows /\ UNCHANGED <<set, clock, made, disk, proc, live, watcher, ari, books, http, faults>>
    BY <1>1, <2>1, GrowsUnchanged DEF Ledger
  <2>3. task.pc = "ledger"
    BY DEF Ledger
  <2>4. GoesTo("order")
    BY <2>1, <2>2, <1>1, TaskGoes DEF Pcs
  <2>5. Shape'
    <3> QED
      BY <1>1, <2>1, <2>2, <2>3, <2>4, NumbersGrow DEF Shape, Grows, GoesTo
  <2>6. Place'
    BY <1>1, <2>1, <2>2, <2>3, <2>4 DEF Place, Putting, Running, GoesTo
  <2>7. Files'
    BY <1>1, <2>1, <2>2, <2>3, <2>4 DEF Files, Place, Running, Putting, NeverMismatched, PairConsistent, StartsAgain, Publishing, Matches, Cert, Present, GoesTo
  <2>8. Orders'
    BY <1>1, <2>1, <2>2, <2>3, <2>4 DEF Orders, Place, RefusalExplained, Due, Cert, Plan, GoesTo
  <2>9. Leftovers'
    BY <1>1, <2>1, <2>2, <2>3, <2>4 DEF Leftovers, Place, Running, Answering, Answered, GoesTo
  <2> QED
    BY <2>5, <2>6, <2>7, <2>8, <2>9 DEF CertInv
<1>2. CASE Goto("done") /\ books' = [books EXCEPT !.deferred = TRUE] /\ faults' = faults
  <2>1. Shape /\ Place /\ Files /\ Orders /\ Leftovers
    BY DEF CertInv
  <2>2. Grows /\ UNCHANGED <<set, clock, made, disk, proc, live, watcher, ari, http, faults>>
    BY <1>2, <2>1, GrowsUnchanged DEF Ledger
  <2>3. task.pc = "ledger"
    BY DEF Ledger
  <2>4. GoesTo("done")
    BY <2>1, <2>2, <1>2, TaskGoes DEF Pcs
  <2>5. /\ books' \in BooksType' /\ books'.ledger = books.ledger /\ books'.ca = books.ca
        /\ books'.off = books.off /\ books'.refused = books.refused /\ books'.lease = books.lease
        /\ books'.deferred = TRUE /\ books'.left = books.left
    BY <2>1, <2>2, <1>2, NumbersGrow DEF Shape, BooksType
  <2>6. Shape'
    <3> QED
      BY <1>2, <2>1, <2>2, <2>3, <2>4, <2>5, NumbersGrow DEF Shape, Grows, GoesTo
  <2>7. Place'
    BY <1>2, <2>1, <2>2, <2>3, <2>4, <2>5 DEF Place, Putting, Running, GoesTo
  <2>8. Files'
    BY <1>2, <2>1, <2>2, <2>3, <2>4, <2>5 DEF Files, Place, Running, Putting, NeverMismatched, PairConsistent, StartsAgain, Publishing, Matches, Cert, Present, GoesTo
  <2>9. Orders'
    BY <1>2, <2>1, <2>2, <2>3, <2>4, <2>5 DEF Orders, Place, RefusalExplained, Due, Cert, Plan, GoesTo
  <2>10. Leftovers'
    BY <1>2, <2>1, <2>2, <2>3, <2>4, <2>5 DEF Leftovers, Place, Running, Answering, Answered, GoesTo
  <2> QED
    BY <2>6, <2>7, <2>8, <2>9, <2>10 DEF CertInv
<1>3. CASE /\ Admits(books.ledger, clock, CaLimit) /\ task' = [task EXCEPT !.pc = "order", !.ledgered = TRUE]
           /\ books' = [books EXCEPT !.ledger = NewTat(@, clock, CaLimit)] /\ faults' = faults
  <2>1. Shape /\ Place /\ Files /\ Orders /\ Leftovers
    BY DEF CertInv
  <2>2. Grows /\ UNCHANGED <<set, clock, made, disk, proc, live, watcher, ari, http, faults>>
    BY <1>3, <2>1, GrowsUnchanged DEF Ledger
  <2>3. task.pc = "ledger"
    BY DEF Ledger
  <2>4. /\ task' \in TaskType' /\ task'.pc = "order" /\ task'.info = task.info
        /\ task'.read = task.read /\ task'.ari = task.ari /\ task'.new = task.new
        /\ task'.had = task.had /\ task'.ok = task.ok /\ task'.ledgered = TRUE
        /\ task'.checked = task.checked
    BY <2>1, <2>2, <1>3, NumbersGrow DEF Shape, TaskType, Pcs
  <2>5. clock \in Nat /\ books.ledger \in Stored /\ books.ca \in Stored
    BY <2>1, Times
  <2>6. /\ books' \in BooksType' /\ books'.ledger = NewTat(books.ledger, clock, CaLimit)
        /\ books'.ca = books.ca /\ books'.off = books.off /\ books'.refused = books.refused
        /\ books'.lease = books.lease /\ books'.deferred = books.deferred /\ books'.left = books.left
    BY <2>1, <2>2, <1>3, <2>5, LedgerStands, NumbersGrow DEF Shape, BooksType
  <2>7. Shape'
    <3> QED
      BY <1>3, <2>1, <2>2, <2>3, <2>4, <2>5, <2>6, NumbersGrow DEF Shape, Grows
  <2>8. Place'
    BY <1>3, <2>1, <2>2, <2>3, <2>4, <2>5, <2>6, LedgerStands DEF Place, Putting, Running
  <2>9. Files'
    BY <1>3, <2>1, <2>2, <2>3, <2>4, <2>5, <2>6, LedgerStands DEF Files, Place, Running, Putting, NeverMismatched, PairConsistent, StartsAgain, Publishing, Matches, Cert, Present
  <2>10. Orders'
    BY <1>3, <2>1, <2>2, <2>3, <2>4, <2>5, <2>6, LedgerStands DEF Orders, Place, RefusalExplained, Due, Cert, Plan
  <2>11. Leftovers'
    BY <1>3, <2>1, <2>2, <2>3, <2>4, <2>5, <2>6, LedgerStands DEF Leftovers, Place, Running, Answering, Answered
  <2> QED
    BY <2>7, <2>8, <2>9, <2>10, <2>11 DEF CertInv
<1>4. CASE Goto("order") /\ books' = books /\ Fault
  <2>1. Shape /\ Place /\ Files /\ Orders /\ Leftovers
    BY DEF CertInv
  <2>2. Grows /\ UNCHANGED <<set, clock, made, disk, proc, live, watcher, ari, books, http>>
    BY <1>4, <2>1, GrowsUnchanged DEF Ledger
  <2>3. task.pc = "ledger"
    BY DEF Ledger
  <2>4. GoesTo("order")
    BY <2>1, <2>2, <1>4, TaskGoes DEF Pcs
  <2>5. faults' \in 0..MaxFaults /\ (faults > 0 => faults' > 0)
    BY <1>4, <2>1, FaultCounted
  <2>6. books' = books
    BY <1>4 DEF Ledger
  <2>7. Shape'
    <3> QED
      BY <1>4, <2>1, <2>2, <2>3, <2>4, <2>5, <2>6, NumbersGrow DEF Shape, Grows, GoesTo
  <2>8. Place'
    BY <1>4, <2>1, <2>2, <2>3, <2>4, <2>5, <2>6 DEF Place, Putting, Running, GoesTo
  <2>9. Files'
    BY <1>4, <2>1, <2>2, <2>3, <2>4, <2>5, <2>6 DEF Files, Place, Running, Putting, NeverMismatched, PairConsistent, StartsAgain, Publishing, Matches, Cert, Present, GoesTo
  <2>10. Orders'
    BY <1>4, <2>1, <2>2, <2>3, <2>4, <2>5, <2>6 DEF Orders, Place, RefusalExplained, Due, Cert, Plan, GoesTo
  <2>11. Leftovers'
    BY <1>4, <2>1, <2>2, <2>3, <2>4, <2>5, <2>6 DEF Leftovers, Place, Running, Answering, Answered, GoesTo
  <2> QED
    BY <2>7, <2>8, <2>9, <2>10, <2>11 DEF CertInv
<1>5. CASE /\ task' = [task EXCEPT !.pc = "order", !.ledgered = TRUE] /\ Fault
           /\ books' = [books EXCEPT !.ledger = NewTat(None, clock, CaLimit), !.off = TRUE]
  <2>1. Shape /\ Place /\ Files /\ Orders /\ Leftovers
    BY DEF CertInv
  <2>2. Grows /\ UNCHANGED <<set, clock, made, disk, proc, live, watcher, ari, http>>
    BY <1>5, <2>1, GrowsUnchanged DEF Ledger
  <2>3. task.pc = "ledger"
    BY DEF Ledger
  <2>4. /\ task' \in TaskType' /\ task'.pc = "order" /\ task'.info = task.info
        /\ task'.read = task.read /\ task'.ari = task.ari /\ task'.new = task.new
        /\ task'.had = task.had /\ task'.ok = task.ok /\ task'.ledgered = TRUE
        /\ task'.checked = task.checked
    BY <2>1, <2>2, <1>5, NumbersGrow DEF Shape, TaskType, Pcs
  <2>5. NewTat(None, clock, CaLimit) \in Stored
    <3>1. clock \in Nat /\ CaLimit.interval \in Nat
      BY <2>1, Times, CertificatesAssumption
    <3> QED
      BY <3>1 DEF NewTat, Tat, MaxOf, Stored, None
  <2>6. /\ books' \in BooksType' /\ books'.off /\ books'.refused = books.refused
        /\ books'.lease = books.lease /\ books'.left = books.left
    BY <2>1, <1>5, <2>5 DEF Shape, BooksType
  <2>7. faults' \in 0..MaxFaults /\ (faults > 0 => faults' > 0)
    BY <1>5, <2>1, FaultCounted
  <2>8. Shape'
    <3> QED
      BY <2>1, <2>2, <2>3, <2>4, <2>6, <2>7, NumbersGrow DEF Shape, Grows
  <2>9. Place'
    BY <2>1, <2>2, <2>3, <2>4, <2>6, <2>7 DEF Place, Putting, Running
  <2>10. Files'
    BY <2>1, <2>2, <2>3, <2>4, <2>6, <2>7 DEF Files, Place, Running, Putting, NeverMismatched, PairConsistent, StartsAgain, Publishing, Matches, Cert, Present
  <2>11. Orders'
    BY <2>1, <2>2, <2>3, <2>4, <2>6, <2>7 DEF Orders, Place, RefusalExplained, Due, Cert, Plan
  <2>12. Leftovers'
    BY <2>1, <2>2, <2>3, <2>4, <2>6, <2>7 DEF Leftovers, Place, Running, Answering, Answered
  <2> QED
    BY <2>8, <2>9, <2>10, <2>11, <2>12 DEF CertInv
<1> QED
  BY <1>1, <1>2, <1>3, <1>4, <1>5 DEF Ledger

\* An order is sent, and sent again when it was refused with the name of what it replaces.
LEMMA StepNewOrder ==
    ASSUME CertInv, NewOrder
    PROVE  CertInv'
<1>1. CASE /\ books' = Counted(books, task.ledgered)
           /\ Goto("challenge") \/ Goto("settle")
  <2>1. Shape /\ Place /\ Files /\ Orders /\ Leftovers
    BY DEF CertInv
  <2>2. Grows /\ UNCHANGED <<set, clock, made, disk, proc, live, watcher, ari, http>>
    BY <1>1, <2>1, GrowsUnchanged DEF NewOrder
  <2>3. task.pc = "order"
    BY DEF NewOrder
  <2>4. GoesTo("challenge") \/ GoesTo("settle")
    BY <1>1, <2>1, <2>2, TaskGoes DEF Pcs
  <2>5. clock \in Nat /\ books.ledger \in Stored /\ books.ca \in Stored
    BY <2>1, Times
  <2>6. books \in BooksType /\ task.ledgered \in BOOLEAN
    BY <2>1 DEF Shape, TaskType
  <2>7. /\ books' \in BooksType /\ books'.ledger = books.ledger /\ books'.lease = books.lease /\ books'.left = books.left
        /\ books'.off = (books.off \/ ~task.ledgered)
        /\ books'.refused = (books.refused \/ ~Admits(books.ca, clock, CaLimit))
        /\ books'.ca = IF Admits(books.ca, clock, CaLimit) THEN NewTat(books.ca, clock, CaLimit) ELSE books.ca
    BY <1>1, <2>5, <2>6, CountedBooks
  <2>8. faults' \in 0..MaxFaults /\ (faults > 0 => faults' > 0)
    BY <2>1, FaultCounted DEF NewOrder
  <2>9. Shape'
    <3> QED
      BY <2>1, <2>2, <2>3, <2>4, <2>5, <2>6, <2>7, <2>8, NumbersGrow DEF Shape, Grows, GoesTo, BooksType
  <2>10. Place'
    BY <2>1, <2>2, <2>3, <2>4, <2>5, <2>6, <2>7, <2>8 DEF Place, Putting, Running, GoesTo
  <2>11. Files'
    BY <2>1, <2>2, <2>3, <2>4, <2>5, <2>6, <2>7, <2>8 DEF Files, Place, Running, Putting, NeverMismatched, PairConsistent, StartsAgain, Publishing, Matches, Cert, Present, GoesTo
  <2>12. Orders'
    <3>1. ~books'.off => (books'.refused => books.refused) /\ books'.ca <= books'.ledger
      BY <2>1, <2>2, <2>3, <2>5, <2>6, <2>7, OrderAdmitted DEF Orders
    <3> QED
      BY <2>1, <2>2, <2>3, <2>4, <2>7, <3>1 DEF Orders, Place, RefusalExplained, Due, Cert, Plan, GoesTo
  <2>13. Leftovers'
    BY <2>1, <2>2, <2>3, <2>4, <2>5, <2>6, <2>7, <2>8 DEF Leftovers, Place, Running, Answering, Answered, GoesTo
  <2> QED
    BY <2>9, <2>10, <2>11, <2>12, <2>13 DEF CertInv
<1>2. CASE /\ books' = Counted(Counted(books, task.ledgered), FALSE)
           /\ Goto("challenge") \/ Goto("settle")
  <2>1. Shape /\ Place /\ Files /\ Orders /\ Leftovers
    BY DEF CertInv
  <2>2. Grows /\ UNCHANGED <<set, clock, made, disk, proc, live, watcher, ari, http>>
    BY <1>2, <2>1, GrowsUnchanged DEF NewOrder
  <2>3. task.pc = "order"
    BY DEF NewOrder
  <2>4. GoesTo("challenge") \/ GoesTo("settle")
    BY <1>2, <2>1, <2>2, TaskGoes DEF Pcs
  <2>5. clock \in Nat /\ books.ledger \in Stored /\ books.ca \in Stored
    BY <2>1, Times
  <2>6. books \in BooksType /\ task.ledgered \in BOOLEAN
    BY <2>1 DEF Shape, TaskType
  <2>7. books' \in BooksType /\ books'.lease = books.lease /\ books'.left = books.left /\ books'.off
    <3> DEFINE once == Counted(books, task.ledgered)
    <3>1. once \in BooksType /\ once.lease = books.lease /\ once.left = books.left
      BY <2>5, <2>6, CountedBooks
    <3> HIDE DEF once
    <3> QED
      BY <1>2, <2>5, <3>1, CountedBooks DEF once
  <2>8. faults' \in 0..MaxFaults /\ (faults > 0 => faults' > 0)
    BY <2>1, FaultCounted DEF NewOrder
  <2>9. Shape'
    <3> QED
      BY <2>1, <2>2, <2>3, <2>4, <2>5, <2>6, <2>7, <2>8, NumbersGrow DEF Shape, Grows, GoesTo, BooksType
  <2>10. Place'
    BY <2>1, <2>2, <2>3, <2>4, <2>5, <2>6, <2>7, <2>8 DEF Place, Putting, Running, GoesTo
  <2>11. Files'
    BY <2>1, <2>2, <2>3, <2>4, <2>5, <2>6, <2>7, <2>8 DEF Files, Place, Running, Putting, NeverMismatched, PairConsistent, StartsAgain, Publishing, Matches, Cert, Present, GoesTo
  <2>12. Orders'
    BY <2>1, <2>2, <2>3, <2>4, <2>5, <2>6, <2>7, <2>8 DEF Orders, Place, RefusalExplained, Due, Cert, Plan, GoesTo
  <2>13. Leftovers'
    BY <2>1, <2>2, <2>3, <2>4, <2>5, <2>6, <2>7, <2>8 DEF Leftovers, Place, Running, Answering, Answered, GoesTo
  <2> QED
    BY <2>9, <2>10, <2>11, <2>12, <2>13 DEF CertInv
<1> QED
  BY <1>1, <1>2 DEF NewOrder

\* The answer to the challenge is put in place, or cannot be.
LEMMA StepChallenge ==
    ASSUME CertInv, Challenge
    PROVE  CertInv'
<1>1. CASE set.dns /\ http' = [http EXCEPT !.record = "known"] /\ Goto("validate") /\ faults' = faults
  <2>1. Shape /\ Place /\ Files /\ Orders /\ Leftovers
    BY DEF CertInv
  <2>2. Grows /\ UNCHANGED <<set, clock, made, disk, proc, live, watcher, ari, books, faults>>
    BY <1>1, <2>1, GrowsUnchanged DEF Challenge
  <2>3. task.pc = "challenge"
    BY DEF Challenge
  <2>4. GoesTo("validate")
    BY <2>1, <2>2, <1>1, TaskGoes DEF Pcs
  <2>5. /\ http' \in HttpType' /\ http'.port = http.port /\ http'.token = http.token
        /\ http'.record = "known"
    BY <2>1, <2>2, <1>1, NumbersGrow DEF Shape, HttpType
  <2>6. Shape'
    <3> QED
      BY <1>1, <2>1, <2>2, <2>3, <2>4, <2>5, NumbersGrow DEF Shape, Grows, GoesTo
  <2>7. Place'
    BY <1>1, <2>1, <2>2, <2>3, <2>4, <2>5 DEF Place, Putting, Running, GoesTo
  <2>8. Files'
    BY <1>1, <2>1, <2>2, <2>3, <2>4, <2>5 DEF Files, Place, Running, Putting, NeverMismatched, PairConsistent, StartsAgain, Publishing, Matches, Cert, Present, GoesTo
  <2>9. Orders'
    BY <1>1, <2>1, <2>2, <2>3, <2>4, <2>5 DEF Orders, Place, RefusalExplained, Due, Cert, Plan, GoesTo
  <2>10. Leftovers'
    BY <1>1, <2>1, <2>2, <2>3, <2>4, <2>5 DEF Leftovers, Place, Running, Answering, Answered, GoesTo
  <2> QED
    BY <2>6, <2>7, <2>8, <2>9, <2>10 DEF CertInv
<1>2. CASE /\ Fault /\ Goto("settle")
           /\ \E r \in {"none", "orphan"} : http' = [http EXCEPT !.record = r]
  <2>1. Shape /\ Place /\ Files /\ Orders /\ Leftovers
    BY DEF CertInv
  <2>2. Grows /\ UNCHANGED <<set, clock, made, disk, proc, live, watcher, ari, books>>
    BY <1>2, <2>1, GrowsUnchanged DEF Challenge
  <2>3. task.pc = "challenge"
    BY DEF Challenge
  <2>4. GoesTo("settle")
    BY <2>1, <2>2, <1>2, TaskGoes DEF Pcs
  <2>5. faults' \in 0..MaxFaults /\ (faults > 0 => faults' > 0)
    BY <1>2, <2>1, FaultCounted
  <2>6. http' \in HttpType' /\ http'.port = http.port /\ http'.token = http.token /\ http'.record # "known"
    BY <1>2, <2>1, <2>2 DEF Shape, HttpType
  <2>7. Shape'
    <3> QED
      BY <2>1, <2>2, <2>3, <2>4, <2>5, <2>6, NumbersGrow DEF Shape, Grows, GoesTo
  <2>8. Place'
    BY <2>1, <2>2, <2>3, <2>4, <2>5, <2>6 DEF Place, Putting, Running, GoesTo
  <2>9. Files'
    BY <2>1, <2>2, <2>3, <2>4, <2>5, <2>6 DEF Files, Place, Running, Putting, NeverMismatched, PairConsistent, StartsAgain, Publishing, Matches, Cert, Present, GoesTo
  <2>10. Orders'
    BY <2>1, <2>2, <2>3, <2>4, <2>5, <2>6 DEF Orders, Place, RefusalExplained, Due, Cert, Plan, GoesTo
  <2>11. Leftovers'
    BY <2>1, <2>2, <2>3, <2>4, <2>5, <2>6 DEF Leftovers, Place, Running, Answering, Answered, GoesTo
  <2> QED
    BY <2>7, <2>8, <2>9, <2>10, <2>11 DEF CertInv
<1>3. CASE /\ ~set.dns /\ (SharedMap \/ http.port = "none") /\ Goto("validate") /\ faults' = faults
           /\ http' = [http EXCEPT !.token = TRUE, !.port = IF SharedMap THEN @ ELSE "challenge"]
  <2>1. Shape /\ Place /\ Files /\ Orders /\ Leftovers
    BY DEF CertInv
  <2>2. Grows /\ UNCHANGED <<set, clock, made, disk, proc, live, watcher, ari, books, faults>>
    BY <1>3, <2>1, GrowsUnchanged DEF Challenge
  <2>3. task.pc = "challenge"
    BY DEF Challenge
  <2>4. GoesTo("validate")
    BY <2>1, <2>2, <1>3, TaskGoes DEF Pcs
  <2>5. /\ http' \in HttpType' /\ http'.port = IF SharedMap THEN http.port ELSE "challenge"
        /\ http'.token = TRUE /\ http'.record = http.record
    BY <2>1, <2>2, <1>3, NumbersGrow DEF Shape, HttpType
  <2>6. Shape'
    <3> QED
      BY <1>3, <2>1, <2>2, <2>3, <2>4, <2>5, NumbersGrow DEF Shape, Grows, GoesTo, SharedMap
  <2>7. Place'
    BY <1>3, <2>1, <2>2, <2>3, <2>4, <2>5 DEF Place, Putting, Running, GoesTo, SharedMap
  <2>8. Files'
    BY <1>3, <2>1, <2>2, <2>3, <2>4, <2>5 DEF Files, Place, Running, Putting, NeverMismatched, PairConsistent, StartsAgain, Publishing, Matches, Cert, Present, GoesTo, SharedMap
  <2>9. Orders'
    BY <1>3, <2>1, <2>2, <2>3, <2>4, <2>5 DEF Orders, Place, RefusalExplained, Due, Cert, Plan, GoesTo, SharedMap
  <2>10. Leftovers'
    BY <1>3, <2>1, <2>2, <2>3, <2>4, <2>5 DEF Leftovers, Place, Running, Answering, Answered, GoesTo, SharedMap
  <2> QED
    BY <2>6, <2>7, <2>8, <2>9, <2>10 DEF CertInv
<1>4. CASE Goto("settle") /\ UNCHANGED <<http, faults>>
  <2>1. Shape /\ Place /\ Files /\ Orders /\ Leftovers
    BY DEF CertInv
  <2>2. Grows /\ UNCHANGED <<set, clock, made, disk, proc, live, watcher, ari, books, http, faults>>
    BY <1>4, <2>1, GrowsUnchanged DEF Challenge
  <2>3. task.pc = "challenge"
    BY DEF Challenge
  <2>4. GoesTo("settle")
    BY <2>1, <2>2, <1>4, TaskGoes DEF Pcs
  <2>5. Shape'
    <3> QED
      BY <1>4, <2>1, <2>2, <2>3, <2>4, NumbersGrow DEF Shape, Grows, GoesTo
  <2>6. Place'
    BY <1>4, <2>1, <2>2, <2>3, <2>4 DEF Place, Putting, Running, GoesTo
  <2>7. Files'
    BY <1>4, <2>1, <2>2, <2>3, <2>4 DEF Files, Place, Running, Putting, NeverMismatched, PairConsistent, StartsAgain, Publishing, Matches, Cert, Present, GoesTo
  <2>8. Orders'
    BY <1>4, <2>1, <2>2, <2>3, <2>4 DEF Orders, Place, RefusalExplained, Due, Cert, Plan, GoesTo
  <2>9. Leftovers'
    BY <1>4, <2>1, <2>2, <2>3, <2>4 DEF Leftovers, Place, Running, Answering, Answered, GoesTo
  <2> QED
    BY <2>5, <2>6, <2>7, <2>8, <2>9 DEF CertInv
<1> QED
  BY <1>1, <1>2, <1>3, <1>4 DEF Challenge

\* The CA looks for the answer, and issues a certificate or does not.
LEMMA StepValidate ==
    ASSUME CertInv, Validate
    PROVE  CertInv'
<1>1. CASE /\ Len(made) < MaxPairs
           /\ made' = Append(made, New(Len(made) + 1, FALSE, "made"))
           /\ task' = [task EXCEPT !.pc = "stage", !.new = Len(made) + 1] /\ faults' = faults
  <2>1. Shape /\ Place /\ Files /\ Orders /\ Leftovers
    BY DEF CertInv
  <2>2. /\ Grows /\ Len(made') = Len(made) + 1
        /\ Len(made) + 1 \in Numbers' /\ Len(made) + 1 # NoFile
        /\ made'[Len(made) + 1].key = Len(made) + 1 /\ (\A n \in 1..Len(made) : made'[n].how = made[n].how)
        /\ \A n \in 1..Len(made') : made'[n].self = IF n \in 1..Len(made) THEN made[n].self ELSE FALSE
        /\ UNCHANGED <<set, clock, disk, proc, live, watcher, ari, books, http, faults>>
    <3>1. Len(made) + 1 \in 1..(Len(made) + 1)
      BY <2>1, MadeFacts
    <3> QED
      BY <1>1, <2>1, <3>1, MadeOne DEF Validate, Hows
  <2>3. task.pc = "validate"
    BY DEF Validate
  <2>4. /\ task' \in TaskType' /\ task'.pc = "stage" /\ task'.info = task.info
        /\ task'.read = task.read /\ task'.ari = task.ari /\ task'.new = Len(made) + 1
        /\ task'.had = task.had /\ task'.ok = task.ok /\ task'.ledgered = task.ledgered
        /\ task'.checked = task.checked
    BY <2>1, <2>2, <1>1, NumbersGrow DEF Shape, TaskType, Pcs
  <2>5. Known
    BY <2>1, <2>2, StillSo
  <2>6. set.operator => ~set.acme /\ ~set.self_signed
    BY <2>1, OperatorAlone
  <2>7. Shape'
    <3> QED
      BY <2>1, <2>2, <2>3, <2>4, <2>5, <2>6, NumbersGrow DEF Shape, Grows, Known
  <2>8. Place'
    BY <2>1, <2>2, <2>3, <2>4, <2>5, <2>6 DEF Place, Putting, Running, Known
  <2>9. Files'
    <3>1. ASSUME set.acme, NEW n \in 1..Len(made') PROVE ~made'[n].self \/ made'[n].how = "found"
      <4>1. CASE n \in 1..Len(made)
        BY <2>1, <2>2, <3>1, <4>1 DEF Files
      <4>2. CASE n \notin 1..Len(made)
        BY <2>2, <3>1, <4>2
      <4> QED
        BY <4>1, <4>2
    <3> QED
      BY <2>1, <2>2, <2>3, <2>4, <2>5, <2>6, <3>1 DEF Files, Place, Running, Putting, NeverMismatched, PairConsistent, StartsAgain, Publishing, Matches, Cert, Present, Known
  <2>10. Orders'
    BY <2>1, <2>2, <2>3, <2>4, <2>5, <2>6 DEF Orders, Place, RefusalExplained, Due, Cert, Plan, Known
  <2>11. Leftovers'
    BY <2>1, <2>2, <2>3, <2>4, <2>5, <2>6 DEF Leftovers, Place, Running, Answering, Answered, Known
  <2> QED
    BY <2>7, <2>8, <2>9, <2>10, <2>11 DEF CertInv
<1>2. CASE made' = made /\ Goto("settle")
  <2>1. Shape /\ Place /\ Files /\ Orders /\ Leftovers
    BY DEF CertInv
  <2>2. Grows /\ UNCHANGED <<set, clock, made, disk, proc, live, watcher, ari, books, http>>
    BY <1>2, <2>1, GrowsUnchanged DEF Validate
  <2>3. task.pc = "validate"
    BY DEF Validate
  <2>4. GoesTo("settle")
    BY <2>1, <2>2, <1>2, TaskGoes DEF Pcs
  <2>5. faults' \in 0..MaxFaults /\ (faults > 0 => faults' > 0)
    BY <2>1, FaultCounted DEF Validate
  <2>6. Shape'
    <3> QED
      BY <1>2, <2>1, <2>2, <2>3, <2>4, <2>5, NumbersGrow DEF Shape, Grows, GoesTo
  <2>7. Place'
    BY <1>2, <2>1, <2>2, <2>3, <2>4, <2>5 DEF Place, Putting, Running, GoesTo
  <2>8. Files'
    BY <1>2, <2>1, <2>2, <2>3, <2>4, <2>5 DEF Files, Place, Running, Putting, NeverMismatched, PairConsistent, StartsAgain, Publishing, Matches, Cert, Present, GoesTo
  <2>9. Orders'
    BY <1>2, <2>1, <2>2, <2>3, <2>4, <2>5 DEF Orders, Place, RefusalExplained, Due, Cert, Plan, GoesTo
  <2>10. Leftovers'
    BY <1>2, <2>1, <2>2, <2>3, <2>4, <2>5 DEF Leftovers, Place, Running, Answering, Answered, GoesTo
  <2> QED
    BY <2>6, <2>7, <2>8, <2>9, <2>10 DEF CertInv
<1> QED
  BY <1>1, <1>2 DEF Validate

\* An order gives back its port, its token and its records.
LEMMA StepSettle ==
    ASSUME CertInv, Settle
    PROVE  CertInv'
<1>1. Shape /\ Place /\ Files /\ Orders /\ Leftovers
  BY DEF CertInv
<1>2. Grows /\ UNCHANGED <<set, clock, made, disk, proc, live, watcher, ari, books>>
  BY <1>1, GrowsUnchanged DEF Settle
<1>3. task.pc = "settle" /\ Goto("outcome")
  BY DEF Settle
<1>4. GoesTo("outcome")
  BY <1>1, <1>2, <1>3, TaskGoes DEF Pcs
<1>5. faults' \in 0..MaxFaults /\ (faults > 0 => faults' > 0)
  BY <1>1, FaultCounted DEF Settle
<1>6. /\ http' \in HttpType' /\ ~http'.token /\ http'.record # "known"
      /\ http'.port = IF http.port = "challenge" THEN "none" ELSE http.port
  BY <1>1, <1>2 DEF Shape, HttpType, Settle
<1>7. Shape'
  <2> QED
    BY <1>1, <1>2, <1>3, <1>4, <1>5, <1>6, NumbersGrow DEF Shape, Grows, GoesTo
<1>8. Place'
  BY <1>1, <1>2, <1>3, <1>4, <1>5, <1>6 DEF Place, Putting, Running, GoesTo
<1>9. Files'
  BY <1>1, <1>2, <1>3, <1>4, <1>5, <1>6 DEF Files, Place, Running, Putting, NeverMismatched, PairConsistent, StartsAgain, Publishing, Matches, Cert, Present, GoesTo
<1>10. Orders'
  BY <1>1, <1>2, <1>3, <1>4, <1>5, <1>6 DEF Orders, Place, RefusalExplained, Due, Cert, Plan, GoesTo
<1>11. Leftovers'
  BY <1>1, <1>2, <1>3, <1>4, <1>5, <1>6 DEF Leftovers, Place, Running, Answering, Answered, GoesTo
<1> QED
  BY <1>7, <1>8, <1>9, <1>10, <1>11 DEF CertInv

\* Both files are staged.
LEMMA StepStage ==
    ASSUME CertInv, Stage
    PROVE  CertInv'
<1>1. CASE Goto("aside") /\ faults' = faults /\ Changed(disk)
  <2>1. Shape /\ Place /\ Files /\ Orders /\ Leftovers
    BY DEF CertInv
  <2>2. Grows /\ UNCHANGED <<set, clock, made, disk, proc, live, ari, books, http, faults>>
    BY <1>1, <2>1, GrowsUnchanged DEF Stage, Changed
  <2>3. task.pc = "stage"
    BY DEF Stage
  <2>4. GoesTo("aside")
    BY <2>1, <2>2, <1>1, TaskGoes DEF Pcs
  <2>5. watcher' \in WatcherType' /\ watcher'.pc = watcher.pc /\ watcher'.read = watcher.read
    BY <1>1, <2>1, <2>2, WatcherHears
  <2>6. Shape'
    <3> QED
      BY <1>1, <2>1, <2>2, <2>3, <2>4, <2>5, NumbersGrow DEF Shape, Grows, GoesTo
  <2>7. Place'
    BY <1>1, <2>1, <2>2, <2>3, <2>4, <2>5 DEF Place, Putting, Running, GoesTo
  <2>8. Files'
    BY <1>1, <2>1, <2>2, <2>3, <2>4, <2>5 DEF Files, Place, Running, Putting, NeverMismatched, PairConsistent, StartsAgain, Publishing, Matches, Cert, Present, GoesTo
  <2>9. Orders'
    BY <1>1, <2>1, <2>2, <2>3, <2>4, <2>5 DEF Orders, Place, RefusalExplained, Due, Cert, Plan, GoesTo
  <2>10. Leftovers'
    BY <1>1, <2>1, <2>2, <2>3, <2>4, <2>5 DEF Leftovers, Place, Running, Answering, Answered, GoesTo
  <2> QED
    BY <2>6, <2>7, <2>8, <2>9, <2>10 DEF CertInv
<1>2. CASE Fault /\ AfterPublish(FALSE) /\ Changed(disk)
  <2>1. Shape /\ Place /\ Files /\ Orders /\ Leftovers
    BY DEF CertInv
  <2>2. Grows /\ UNCHANGED <<set, clock, made, disk, proc, live, ari, books, http>>
    BY <1>2, <2>1, GrowsUnchanged DEF Stage, Changed
  <2>3. task.pc = "stage"
    BY DEF Stage
  <2>4. /\ task' \in TaskType' /\ task'.pc = (IF set.acme THEN "settle" ELSE "done") /\ task'.ok = FALSE
        /\ task'.info = task.info /\ task'.ledgered = task.ledgered
    BY <1>2, <2>1, <2>2, TaskPublished
  <2>5. watcher' \in WatcherType' /\ watcher'.pc = watcher.pc /\ watcher'.read = watcher.read
    BY <1>2, <2>1, <2>2, WatcherHears
  <2>6. faults' \in 0..MaxFaults /\ (faults > 0 => faults' > 0)
    BY <1>2, <2>1, FaultCounted
  <2>7. Shape'
    <3> QED
      BY <1>2, <2>1, <2>2, <2>3, <2>4, <2>5, <2>6, NumbersGrow DEF Shape, Grows
  <2>8. Place'
    BY <1>2, <2>1, <2>2, <2>3, <2>4, <2>5, <2>6 DEF Place, Putting, Running
  <2>9. Files'
    BY <1>2, <2>1, <2>2, <2>3, <2>4, <2>5, <2>6 DEF Files, Place, Running, Putting, NeverMismatched, PairConsistent, StartsAgain, Publishing, Matches, Cert, Present
  <2>10. Orders'
    BY <1>2, <2>1, <2>2, <2>3, <2>4, <2>5, <2>6 DEF Orders, Place, RefusalExplained, Due, Cert, Plan
  <2>11. Leftovers'
    BY <1>2, <2>1, <2>2, <2>3, <2>4, <2>5, <2>6 DEF Leftovers, Place, Running, Answering, Answered
  <2> QED
    BY <2>7, <2>8, <2>9, <2>10, <2>11 DEF CertInv
<1> QED
  BY <1>1, <1>2 DEF Stage

\* The certificate that is there is put aside.
LEMMA StepAside ==
    ASSUME CertInv, Aside
    PROVE  CertInv'
<1>1. CASE /\ task' = [task EXCEPT !.pc = "put_cert", !.had = disk.cert # NoFile] /\ faults' = faults
           /\ Changed([disk EXCEPT !.bak = disk.cert, !.cert = NoFile])
  <2>1. Shape /\ Place /\ Files /\ Orders /\ Leftovers
    BY DEF CertInv
  <2>2. Grows /\ UNCHANGED <<set, clock, made, proc, live, ari, books, http, faults>>
    BY <1>1, <2>1, GrowsUnchanged DEF Aside
  <2>3. task.pc = "aside"
    BY DEF Aside
  <2>4. /\ task' \in TaskType' /\ task'.pc = "put_cert" /\ task'.info = task.info
        /\ task'.read = task.read /\ task'.ari = task.ari /\ task'.new = task.new
        /\ task'.had = (disk.cert # NoFile) /\ task'.ok = task.ok /\ task'.ledgered = task.ledgered
        /\ task'.checked = task.checked
    BY <2>1, <2>2, <1>1, NumbersGrow DEF Shape, TaskType, Pcs
  <2>5. watcher' \in WatcherType' /\ watcher'.pc = watcher.pc /\ watcher'.read = watcher.read
    BY <1>1, <2>1, <2>2, WatcherHears
  <2>6. /\ disk' \in DiskType' /\ disk'.cert = NoFile /\ disk'.key = disk.key
        /\ disk'.bak = disk.cert /\ disk'.torn = disk.torn
    BY <2>1, <2>2, <1>1, NumbersGrow DEF Shape, DiskType, Changed
  <2>7. set.operator => ~set.acme /\ ~set.self_signed
    BY <2>1, OperatorAlone
  <2>8. Shape'
    <3> QED
      BY <2>1, <2>2, <2>3, <2>4, <2>5, <2>6, <2>7, NumbersGrow DEF Shape, Grows
  <2>9. Place'
    BY <2>1, <2>2, <2>3, <2>4, <2>5, <2>6, <2>7 DEF Place, Putting, Running
  <2>10. Files'
    BY <2>1, <2>2, <2>3, <2>4, <2>5, <2>6, <2>7 DEF Files, Place, Running, Putting, NeverMismatched, PairConsistent, StartsAgain, Publishing, Matches, Cert, Present
  <2>11. Orders'
    BY <2>1, <2>2, <2>3, <2>4, <2>5, <2>6, <2>7 DEF Orders, Place, RefusalExplained, Due, Cert, Plan
  <2>12. Leftovers'
    BY <2>1, <2>2, <2>3, <2>4, <2>5, <2>6, <2>7 DEF Leftovers, Place, Running, Answering, Answered
  <2> QED
    BY <2>8, <2>9, <2>10, <2>11, <2>12 DEF CertInv
<1>2. CASE Fault /\ AfterPublish(FALSE) /\ UNCHANGED <<disk, watcher>>
  <2>1. Shape /\ Place /\ Files /\ Orders /\ Leftovers
    BY DEF CertInv
  <2>2. Grows /\ UNCHANGED <<set, clock, made, disk, proc, live, watcher, ari, books, http>>
    BY <1>2, <2>1, GrowsUnchanged DEF Aside
  <2>3. task.pc = "aside"
    BY DEF Aside
  <2>4. /\ task' \in TaskType' /\ task'.pc = (IF set.acme THEN "settle" ELSE "done") /\ task'.ok = FALSE
        /\ task'.info = task.info /\ task'.ledgered = task.ledgered
    BY <1>2, <2>1, <2>2, TaskPublished
  <2>5. faults' \in 0..MaxFaults /\ (faults > 0 => faults' > 0)
    BY <1>2, <2>1, FaultCounted
  <2>6. Shape'
    <3> QED
      BY <1>2, <2>1, <2>2, <2>3, <2>4, <2>5, NumbersGrow DEF Shape, Grows
  <2>7. Place'
    BY <1>2, <2>1, <2>2, <2>3, <2>4, <2>5 DEF Place, Putting, Running
  <2>8. Files'
    BY <1>2, <2>1, <2>2, <2>3, <2>4, <2>5 DEF Files, Place, Running, Putting, NeverMismatched, PairConsistent, StartsAgain, Publishing, Matches, Cert, Present
  <2>9. Orders'
    BY <1>2, <2>1, <2>2, <2>3, <2>4, <2>5 DEF Orders, Place, RefusalExplained, Due, Cert, Plan
  <2>10. Leftovers'
    BY <1>2, <2>1, <2>2, <2>3, <2>4, <2>5 DEF Leftovers, Place, Running, Answering, Answered
  <2> QED
    BY <2>6, <2>7, <2>8, <2>9, <2>10 DEF CertInv
<1> QED
  BY <1>1, <1>2 DEF Aside

\* The new certificate is put in place.
LEMMA StepPutCert ==
    ASSUME CertInv, PutCert
    PROVE  CertInv'
<1>1. CASE Goto("put_key") /\ faults' = faults /\ Changed([disk EXCEPT !.cert = task.new])
  <2>1. Shape /\ Place /\ Files /\ Orders /\ Leftovers
    BY DEF CertInv
  <2>2. Grows /\ UNCHANGED <<set, clock, made, proc, live, ari, books, http, faults>>
    BY <1>1, <2>1, GrowsUnchanged DEF PutCert
  <2>3. task.pc = "put_cert"
    BY DEF PutCert
  <2>4. GoesTo("put_key")
    BY <2>1, <2>2, <1>1, TaskGoes DEF Pcs
  <2>5. watcher' \in WatcherType' /\ watcher'.pc = watcher.pc /\ watcher'.read = watcher.read
    BY <1>1, <2>1, <2>2, WatcherHears
  <2>6. task.new \in Numbers
    BY <2>1 DEF Shape, TaskType
  <2>7. /\ disk' \in DiskType' /\ disk'.cert = task.new /\ disk'.key = disk.key
        /\ disk'.bak = disk.bak /\ disk'.torn = disk.torn
    BY <2>1, <2>2, <1>1, <2>6, NumbersGrow DEF Shape, DiskType, Changed
  <2>8. Shape'
    <3> QED
      BY <2>1, <2>2, <2>3, <2>4, <2>5, <2>6, <2>7, NumbersGrow DEF Shape, Grows, GoesTo
  <2>9. Place'
    BY <2>1, <2>2, <2>3, <2>4, <2>5, <2>6, <2>7 DEF Place, Putting, Running, GoesTo
  <2>10. Files'
    BY <2>1, <2>2, <2>3, <2>4, <2>5, <2>6, <2>7 DEF Files, Place, Running, Putting, NeverMismatched, PairConsistent, StartsAgain, Publishing, Matches, Cert, Present, GoesTo
  <2>11. Orders'
    BY <2>1, <2>2, <2>3, <2>4, <2>5, <2>6, <2>7 DEF Orders, Place, RefusalExplained, Due, Cert, Plan, GoesTo
  <2>12. Leftovers'
    BY <2>1, <2>2, <2>3, <2>4, <2>5, <2>6, <2>7 DEF Leftovers, Place, Running, Answering, Answered, GoesTo
  <2> QED
    BY <2>8, <2>9, <2>10, <2>11, <2>12 DEF CertInv
<1>2. CASE Fault /\ Goto("undo") /\ UNCHANGED <<disk, watcher>>
  <2>1. Shape /\ Place /\ Files /\ Orders /\ Leftovers
    BY DEF CertInv
  <2>2. Grows /\ UNCHANGED <<set, clock, made, disk, proc, live, watcher, ari, books, http>>
    BY <1>2, <2>1, GrowsUnchanged DEF PutCert
  <2>3. task.pc = "put_cert"
    BY DEF PutCert
  <2>4. GoesTo("undo")
    BY <2>1, <2>2, <1>2, TaskGoes DEF Pcs
  <2>5. faults' \in 0..MaxFaults /\ (faults > 0 => faults' > 0)
    BY <1>2, <2>1, FaultCounted
  <2>6. Shape'
    <3> QED
      BY <1>2, <2>1, <2>2, <2>3, <2>4, <2>5, NumbersGrow DEF Shape, Grows, GoesTo
  <2>7. Place'
    BY <1>2, <2>1, <2>2, <2>3, <2>4, <2>5 DEF Place, Putting, Running, GoesTo
  <2>8. Files'
    BY <1>2, <2>1, <2>2, <2>3, <2>4, <2>5 DEF Files, Place, Running, Putting, NeverMismatched, PairConsistent, StartsAgain, Publishing, Matches, Cert, Present, GoesTo
  <2>9. Orders'
    BY <1>2, <2>1, <2>2, <2>3, <2>4, <2>5 DEF Orders, Place, RefusalExplained, Due, Cert, Plan, GoesTo
  <2>10. Leftovers'
    BY <1>2, <2>1, <2>2, <2>3, <2>4, <2>5 DEF Leftovers, Place, Running, Answering, Answered, GoesTo
  <2> QED
    BY <2>6, <2>7, <2>8, <2>9, <2>10 DEF CertInv
<1> QED
  BY <1>1, <1>2 DEF PutCert

\* The key follows, and the pair is published.
LEMMA StepPutKey ==
    ASSUME CertInv, PutKey
    PROVE  CertInv'
<1>1. CASE /\ AfterPublish(TRUE) /\ faults' = faults
           /\ Changed([disk EXCEPT !.key = Cert(task.new).key, !.bak = NoFile, !.torn = FALSE])
  <2>1. Shape /\ Place /\ Files /\ Orders /\ Leftovers
    BY DEF CertInv
  <2>2. Grows /\ UNCHANGED <<set, clock, made, proc, live, ari, books, http, faults>>
    BY <1>1, <2>1, GrowsUnchanged DEF PutKey
  <2>3. task.pc = "put_key"
    BY DEF PutKey
  <2>4. /\ task' \in TaskType' /\ task'.pc = (IF set.acme THEN "settle" ELSE "done") /\ task'.ok = TRUE
        /\ task'.info = task.info /\ task'.ledgered = task.ledgered
    BY <1>1, <2>1, <2>2, TaskPublished
  <2>5. watcher' \in WatcherType' /\ watcher'.pc = watcher.pc /\ watcher'.read = watcher.read
    BY <1>1, <2>1, <2>2, WatcherHears
  <2>6. task.new \in 1..Len(made) /\ made[task.new].key \in Numbers' /\ made[task.new].key # NoFile
    <3>1. task.new \in Numbers /\ task.new # NoFile
      BY <2>1, <2>3 DEF Shape, TaskType, Place, Putting
    <3>2. task.new \in 1..Len(made)
      BY <3>1, <2>1, <2>2, StillSo DEF Known
    <3>3. made[task.new].key \in 1..Len(made) /\ Len(made) \in Nat
      BY <2>1, <3>2, MadeFacts
    <3> QED
      BY <2>2, <3>2, <3>3 DEF Numbers, NoFile
  <2>7. /\ disk' \in DiskType' /\ disk'.cert = disk.cert /\ disk'.key = made[task.new].key
        /\ disk'.bak = NoFile /\ disk'.torn = FALSE
    BY <2>1, <2>2, <1>1, <2>6, NumbersGrow DEF Shape, DiskType, Changed, Cert
  <2>8. Shape'
    <3> QED
      BY <2>1, <2>2, <2>3, <2>4, <2>5, <2>6, <2>7, NumbersGrow DEF Shape, Grows
  <2>9. Place'
    BY <2>1, <2>2, <2>3, <2>4, <2>5, <2>6, <2>7 DEF Place, Putting, Running
  <2>10. Files'
    BY <2>1, <2>2, <2>3, <2>4, <2>5, <2>6, <2>7 DEF Files, Place, Running, Putting, NeverMismatched, PairConsistent, StartsAgain, Publishing, Matches, Cert, Present
  <2>11. Orders'
    BY <2>1, <2>2, <2>3, <2>4, <2>5, <2>6, <2>7 DEF Orders, Place, RefusalExplained, Due, Cert, Plan
  <2>12. Leftovers'
    BY <2>1, <2>2, <2>3, <2>4, <2>5, <2>6, <2>7 DEF Leftovers, Place, Running, Answering, Answered
  <2> QED
    BY <2>8, <2>9, <2>10, <2>11, <2>12 DEF CertInv
<1>2. CASE Fault /\ Goto("undo") /\ UNCHANGED <<disk, watcher>>
  <2>1. Shape /\ Place /\ Files /\ Orders /\ Leftovers
    BY DEF CertInv
  <2>2. Grows /\ UNCHANGED <<set, clock, made, disk, proc, live, watcher, ari, books, http>>
    BY <1>2, <2>1, GrowsUnchanged DEF PutKey
  <2>3. task.pc = "put_key"
    BY DEF PutKey
  <2>4. GoesTo("undo")
    BY <2>1, <2>2, <1>2, TaskGoes DEF Pcs
  <2>5. faults' \in 0..MaxFaults /\ (faults > 0 => faults' > 0)
    BY <1>2, <2>1, FaultCounted
  <2>6. Shape'
    <3> QED
      BY <1>2, <2>1, <2>2, <2>3, <2>4, <2>5, NumbersGrow DEF Shape, Grows, GoesTo
  <2>7. Place'
    BY <1>2, <2>1, <2>2, <2>3, <2>4, <2>5 DEF Place, Putting, Running, GoesTo
  <2>8. Files'
    BY <1>2, <2>1, <2>2, <2>3, <2>4, <2>5 DEF Files, Place, Running, Putting, NeverMismatched, PairConsistent, StartsAgain, Publishing, Matches, Cert, Present, GoesTo
  <2>9. Orders'
    BY <1>2, <2>1, <2>2, <2>3, <2>4, <2>5 DEF Orders, Place, RefusalExplained, Due, Cert, Plan, GoesTo
  <2>10. Leftovers'
    BY <1>2, <2>1, <2>2, <2>3, <2>4, <2>5 DEF Leftovers, Place, Running, Answering, Answered, GoesTo
  <2> QED
    BY <2>6, <2>7, <2>8, <2>9, <2>10 DEF CertInv
<1> QED
  BY <1>1, <1>2 DEF PutKey

\* The old certificate is put back.
LEMMA StepRestore ==
    ASSUME CertInv, Restore
    PROVE  CertInv'
<1>1. CASE /\ task.had /\ Changed([disk EXCEPT !.cert = disk.bak, !.bak = NoFile]) /\ faults' = faults
           /\ AfterPublish(FALSE)
  <2>1. Shape /\ Place /\ Files /\ Orders /\ Leftovers
    BY DEF CertInv
  <2>2. Grows /\ UNCHANGED <<set, clock, made, proc, live, ari, books, http, faults>>
    BY <1>1, <2>1, GrowsUnchanged DEF Restore
  <2>3. task.pc = "restore" /\ task.had
    BY <1>1 DEF Restore
  <2>4. /\ task' \in TaskType' /\ task'.pc = (IF set.acme THEN "settle" ELSE "done") /\ task'.ok = FALSE
        /\ task'.info = task.info /\ task'.ledgered = task.ledgered
    BY <1>1, <2>1, <2>2, TaskPublished
  <2>5. watcher' \in WatcherType' /\ watcher'.pc = watcher.pc /\ watcher'.read = watcher.read
    BY <1>1, <2>1, <2>2, WatcherHears
  <2>6. /\ disk' \in DiskType' /\ disk'.cert = disk.bak /\ disk'.key = disk.key
        /\ disk'.bak = NoFile /\ disk'.torn = disk.torn
    BY <2>1, <2>2, <1>1, NumbersGrow DEF Shape, DiskType, Changed
  <2>7. Shape'
    <3> QED
      BY <2>1, <2>2, <2>3, <2>4, <2>5, <2>6, NumbersGrow DEF Shape, Grows
  <2>8. Place'
    BY <2>1, <2>2, <2>3, <2>4, <2>5, <2>6 DEF Place, Putting, Running
  <2>9. Files'
    BY <2>1, <2>2, <2>3, <2>4, <2>5, <2>6 DEF Files, Place, Running, Putting, NeverMismatched, PairConsistent, StartsAgain, Publishing, Matches, Cert, Present
  <2>10. Orders'
    BY <2>1, <2>2, <2>3, <2>4, <2>5, <2>6 DEF Orders, Place, RefusalExplained, Due, Cert, Plan
  <2>11. Leftovers'
    BY <2>1, <2>2, <2>3, <2>4, <2>5, <2>6 DEF Leftovers, Place, Running, Answering, Answered
  <2> QED
    BY <2>7, <2>8, <2>9, <2>10, <2>11 DEF CertInv
<1>2. CASE /\ ~task.had /\ Changed([disk EXCEPT !.torn = @ \/ disk.cert # NoFile]) /\ faults' = faults
           /\ AfterPublish(FALSE)
  <2>1. Shape /\ Place /\ Files /\ Orders /\ Leftovers
    BY DEF CertInv
  <2>2. Grows /\ UNCHANGED <<set, clock, made, proc, live, ari, books, http, faults>>
    BY <1>2, <2>1, GrowsUnchanged DEF Restore
  <2>3. task.pc = "restore" /\ ~task.had
    BY <1>2 DEF Restore
  <2>4. /\ task' \in TaskType' /\ task'.pc = (IF set.acme THEN "settle" ELSE "done") /\ task'.ok = FALSE
        /\ task'.info = task.info /\ task'.ledgered = task.ledgered
    BY <1>2, <2>1, <2>2, TaskPublished
  <2>5. watcher' \in WatcherType' /\ watcher'.pc = watcher.pc /\ watcher'.read = watcher.read
    BY <1>2, <2>1, <2>2, WatcherHears
  <2>6. /\ disk' \in DiskType' /\ disk'.cert = disk.cert /\ disk'.key = disk.key /\ disk'.bak = disk.bak
        /\ disk'.torn = (disk.torn \/ disk.cert # NoFile)
    <3>1. PICK torn \in BOOLEAN : torn = (disk.torn \/ disk.cert # NoFile)
      OBVIOUS
    <3>2. disk' = [disk EXCEPT !.torn = torn]
      BY <1>2, <3>1 DEF Changed
    <3> QED
      BY <2>1, <2>2, <3>1, <3>2, NumbersGrow DEF Shape, DiskType
  <2>7. Shape'
    <3> QED
      BY <2>1, <2>2, <2>3, <2>4, <2>5, <2>6, NumbersGrow DEF Shape, Grows
  <2>8. Place'
    BY <2>1, <2>2, <2>3, <2>4, <2>5, <2>6 DEF Place, Putting, Running
  <2>9. Files'
    BY <2>1, <2>2, <2>3, <2>4, <2>5, <2>6 DEF Files, Place, Running, Putting, NeverMismatched, PairConsistent, StartsAgain, Publishing, Matches, Cert, Present
  <2>10. Orders'
    BY <2>1, <2>2, <2>3, <2>4, <2>5, <2>6 DEF Orders, Place, RefusalExplained, Due, Cert, Plan
  <2>11. Leftovers'
    BY <2>1, <2>2, <2>3, <2>4, <2>5, <2>6 DEF Leftovers, Place, Running, Answering, Answered
  <2> QED
    BY <2>7, <2>8, <2>9, <2>10, <2>11 DEF CertInv
<1>3. CASE Fault /\ Changed([disk EXCEPT !.torn = TRUE]) /\ AfterPublish(FALSE)
  <2>1. Shape /\ Place /\ Files /\ Orders /\ Leftovers
    BY DEF CertInv
  <2>2. Grows /\ UNCHANGED <<set, clock, made, proc, live, ari, books, http>>
    BY <1>3, <2>1, GrowsUnchanged DEF Restore
  <2>3. task.pc = "restore"
    BY DEF Restore
  <2>4. /\ task' \in TaskType' /\ task'.pc = (IF set.acme THEN "settle" ELSE "done") /\ task'.ok = FALSE
        /\ task'.info = task.info /\ task'.ledgered = task.ledgered
    BY <1>3, <2>1, <2>2, TaskPublished
  <2>5. watcher' \in WatcherType' /\ watcher'.pc = watcher.pc /\ watcher'.read = watcher.read
    BY <1>3, <2>1, <2>2, WatcherHears
  <2>6. faults' \in 0..MaxFaults /\ (faults > 0 => faults' > 0)
    BY <1>3, <2>1, FaultCounted
  <2>7. /\ disk' \in DiskType' /\ disk'.cert = disk.cert /\ disk'.key = disk.key
        /\ disk'.bak = disk.bak /\ disk'.torn = TRUE
    BY <2>1, <2>2, <1>3, NumbersGrow DEF Shape, DiskType, Changed
  <2>8. Shape'
    <3> QED
      BY <2>1, <2>2, <2>3, <2>4, <2>5, <2>6, <2>7, NumbersGrow DEF Shape, Grows
  <2>9. Place'
    BY <2>1, <2>2, <2>3, <2>4, <2>5, <2>6, <2>7 DEF Place, Putting, Running
  <2>10. Files'
    BY <2>1, <2>2, <2>3, <2>4, <2>5, <2>6, <2>7 DEF Files, Place, Running, Putting, NeverMismatched, PairConsistent, StartsAgain, Publishing, Matches, Cert, Present
  <2>11. Orders'
    BY <2>1, <2>2, <2>3, <2>4, <2>5, <2>6, <2>7 DEF Orders, Place, RefusalExplained, Due, Cert, Plan
  <2>12. Leftovers'
    BY <2>1, <2>2, <2>3, <2>4, <2>5, <2>6, <2>7 DEF Leftovers, Place, Running, Answering, Answered
  <2> QED
    BY <2>8, <2>9, <2>10, <2>11, <2>12 DEF CertInv
<1> QED
  BY <1>1, <1>2, <1>3 DEF Restore

\* An hour passed: the certificate is read.
LEMMA StepWake ==
    ASSUME CertInv, Wake
    PROVE  CertInv'
<1>1. CASE Goto("check") /\ (faults' = faults \/ Fault)
  <2>1. Shape /\ Place /\ Files /\ Orders /\ Leftovers
    BY DEF CertInv
  <2>2. Grows /\ UNCHANGED <<set, clock, made, disk, proc, live, watcher, ari, books, http>>
    BY <1>1, <2>1, GrowsUnchanged DEF Wake
  <2>3. task.pc = "sleep"
    BY DEF Wake
  <2>4. GoesTo("check")
    BY <2>1, <2>2, <1>1, TaskGoes DEF Pcs
  <2>5. faults' \in 0..MaxFaults /\ (faults > 0 => faults' > 0)
    BY <1>1, <2>1, FaultCounted
  <2>6. Shape'
    <3> QED
      BY <2>1, <2>2, <2>3, <2>4, <2>5, NumbersGrow DEF Shape, Grows, GoesTo
  <2>7. Place'
    BY <2>1, <2>2, <2>3, <2>4, <2>5 DEF Place, Putting, Running, GoesTo
  <2>8. Files'
    BY <2>1, <2>2, <2>3, <2>4, <2>5 DEF Files, Place, Running, Putting, NeverMismatched, PairConsistent, StartsAgain, Publishing, Matches, Cert, Present, GoesTo
  <2>9. Orders'
    BY <2>1, <2>2, <2>3, <2>4, <2>5 DEF Orders, Place, RefusalExplained, Due, Cert, Plan, GoesTo
  <2>10. Leftovers'
    BY <2>1, <2>2, <2>3, <2>4, <2>5 DEF Leftovers, Place, Running, Answering, Answered, GoesTo
  <2> QED
    BY <2>6, <2>7, <2>8, <2>9, <2>10 DEF CertInv
<1>2. CASE disk.cert # NoFile /\ faults' = faults /\ task' = [task EXCEPT !.pc = "again_key", !.read = disk.cert]
  <2>1. Shape /\ Place /\ Files /\ Orders /\ Leftovers
    BY DEF CertInv
  <2>2. Grows /\ UNCHANGED <<set, clock, made, disk, proc, live, watcher, ari, books, http, faults>>
    BY <1>2, <2>1, GrowsUnchanged DEF Wake
  <2>3. task.pc = "sleep"
    BY DEF Wake
  <2>4. /\ task' \in TaskType' /\ task'.pc = "again_key" /\ task'.info = task.info
        /\ task'.read = disk.cert /\ task'.ari = task.ari /\ task'.new = task.new
        /\ task'.had = task.had /\ task'.ok = task.ok /\ task'.ledgered = task.ledgered
        /\ task'.checked = task.checked
    BY <2>1, <2>2, <1>2, NumbersGrow DEF Shape, TaskType, DiskType, Pcs
  <2>5. Shape'
    <3> QED
      BY <1>2, <2>1, <2>2, <2>3, <2>4, NumbersGrow DEF Shape, Grows
  <2>6. Place'
    BY <1>2, <2>1, <2>2, <2>3, <2>4 DEF Place, Putting, Running
  <2>7. Files'
    BY <1>2, <2>1, <2>2, <2>3, <2>4 DEF Files, Place, Running, Putting, NeverMismatched, PairConsistent, StartsAgain, Publishing, Matches, Cert, Present
  <2>8. Orders'
    BY <1>2, <2>1, <2>2, <2>3, <2>4 DEF Orders, Place, RefusalExplained, Due, Cert, Plan
  <2>9. Leftovers'
    BY <1>2, <2>1, <2>2, <2>3, <2>4 DEF Leftovers, Place, Running, Answering, Answered
  <2> QED
    BY <2>5, <2>6, <2>7, <2>8, <2>9 DEF CertInv
<1> QED
  BY <1>1, <1>2 DEF Wake

\* The key is read, and a new pair served.
LEMMA StepAgainKey ==
    ASSUME CertInv, AgainKey
    PROVE  CertInv'
<1>1. Shape /\ Place /\ Files /\ Orders /\ Leftovers
  BY DEF CertInv
<1>2. Grows /\ UNCHANGED <<set, clock, made, disk, proc, watcher, ari, books, http>>
  BY <1>1, GrowsUnchanged DEF AgainKey
<1>3. task.pc = "again_key" /\ Goto("check") /\ Reload(task.read)
  BY DEF AgainKey
<1>4. GoesTo("check")
  BY <1>1, <1>2, <1>3, TaskGoes DEF Pcs
<1>5. task.read \in Numbers /\ task.read # NoFile
  BY <1>1, <1>3 DEF Shape, TaskType, Place
<1>6. /\ live' \in LiveType'
      /\ live' = live \/ (live'.cert = task.read /\ live'.key = disk.key /\ Cert(task.read).key = disk.key)
  BY <1>1, <1>2, <1>3, <1>5, ReloadServes
<1>a. faults' \in 0..MaxFaults /\ (faults > 0 => faults' > 0)
  BY <1>1, <1>2, <1>3, <1>5, ReloadServes, FaultCounted
<1>7. Shape'
  <2> QED
    BY <1>1, <1>2, <1>3, <1>4, <1>5, <1>6, <1>a, NumbersGrow DEF Shape, Grows, GoesTo
<1>8. Place'
  BY <1>1, <1>2, <1>3, <1>4, <1>5, <1>6, <1>a DEF Place, Putting, Running, GoesTo
<1>9. Files'
  BY <1>1, <1>2, <1>3, <1>4, <1>5, <1>6, <1>a DEF Files, Place, Running, Putting, NeverMismatched, PairConsistent, StartsAgain, Publishing, Matches, Cert, Present, GoesTo
<1>10. Orders'
  BY <1>1, <1>2, <1>3, <1>4, <1>5, <1>6, <1>a DEF Orders, Place, RefusalExplained, Due, Cert, Plan, GoesTo
<1>11. Leftovers'
  BY <1>1, <1>2, <1>3, <1>4, <1>5, <1>6, <1>a DEF Leftovers, Place, Running, Answering, Answered, GoesTo
<1> QED
  BY <1>7, <1>8, <1>9, <1>10, <1>11 DEF CertInv

\* The certificate that is served is looked at.
LEMMA StepCheck ==
    ASSUME CertInv, Check
    PROVE  CertInv'
<1>1. Shape /\ Place /\ Files /\ Orders /\ Leftovers
  BY DEF CertInv
<1>2. Grows /\ UNCHANGED <<set, clock, made, disk, proc, live, watcher, ari, books, http, faults>>
  BY <1>1, GrowsUnchanged DEF Check
<1>3. task.pc = "check"
  BY DEF Check
<1>4. live.cert \in Numbers /\ live.cert # NoFile
  BY <1>1, <1>3 DEF Shape, LiveType, Place
<1>5. /\ task' \in TaskType' /\ task'.pc = (IF Plan = "acme" /\ set.ari THEN "window" ELSE "decide")
      /\ task'.info = live.cert /\ task'.ok = task.ok
  BY <1>1, <1>2, <1>4, NumbersGrow DEF Check, Shape, TaskType, Pcs
<1>6. Shape'
  <2> QED
    BY <1>1, <1>2, <1>3, <1>4, <1>5, NumbersGrow DEF Shape, Grows
<1>7. Place'
  BY <1>1, <1>2, <1>3, <1>4, <1>5 DEF Place, Putting, Running
<1>8. Files'
  BY <1>1, <1>2, <1>3, <1>4, <1>5 DEF Files, Place, Running, Putting, NeverMismatched, PairConsistent, StartsAgain, Publishing, Matches, Cert, Present
<1>9. Orders'
  BY <1>1, <1>2, <1>3, <1>4, <1>5 DEF Orders, Place, RefusalExplained, Due, Cert, Plan
<1>10. Leftovers'
  BY <1>1, <1>2, <1>3, <1>4, <1>5 DEF Leftovers, Place, Running, Answering, Answered
<1> QED
  BY <1>6, <1>7, <1>8, <1>9, <1>10 DEF CertInv

\* An issuance is over.
LEMMA StepDone ==
    ASSUME CertInv, Done
    PROVE  CertInv'
<1>1. CASE proc = "boot" /\ task.ok /\ Goto("ensure") /\ UNCHANGED <<proc, live, faults>>
  <2>1. Shape /\ Place /\ Files /\ Orders /\ Leftovers
    BY DEF CertInv
  <2>2. Grows /\ UNCHANGED <<set, clock, made, disk, proc, live, watcher, ari, books, http, faults>>
    BY <1>1, <2>1, GrowsUnchanged DEF Done
  <2>3. task.pc = "done"
    BY DEF Done
  <2>4. GoesTo("ensure")
    BY <2>1, <2>2, <1>1, TaskGoes DEF Pcs
  <2>5. Shape'
    <3> QED
      BY <1>1, <2>1, <2>2, <2>3, <2>4, NumbersGrow DEF Shape, Grows, GoesTo
  <2>6. Place'
    BY <1>1, <2>1, <2>2, <2>3, <2>4 DEF Place, Putting, Running, GoesTo
  <2>7. Files'
    BY <1>1, <2>1, <2>2, <2>3, <2>4 DEF Files, Place, Running, Putting, NeverMismatched, PairConsistent, StartsAgain, Publishing, Matches, Cert, Present, GoesTo
  <2>8. Orders'
    BY <1>1, <2>1, <2>2, <2>3, <2>4 DEF Orders, Place, RefusalExplained, Due, Cert, Plan, GoesTo
  <2>9. Leftovers'
    BY <1>1, <2>1, <2>2, <2>3, <2>4 DEF Leftovers, Place, Running, Answering, Answered, GoesTo
  <2> QED
    BY <2>5, <2>6, <2>7, <2>8, <2>9 DEF CertInv
<1>2. CASE proc = "boot" /\ proc' = "no issuance" /\ task' = Idle /\ UNCHANGED <<live, faults>>
  <2>1. Shape /\ Place /\ Files /\ Orders /\ Leftovers
    BY DEF CertInv
  <2>2. Grows /\ UNCHANGED <<set, clock, made, disk, live, watcher, ari, books, http, faults>>
    BY <1>2, <2>1, GrowsUnchanged DEF Done
  <2>3. task.pc = "done"
    BY DEF Done
  <2>4. task' \in TaskType' /\ task'.pc = "down" /\ ~task'.ok /\ ~task'.ledgered
    BY <1>2, <2>1, <2>2, TaskIdle
  <2>5. Shape'
    <3> QED
      BY <1>2, <2>1, <2>2, <2>3, <2>4, NumbersGrow DEF Shape, Grows
  <2>6. Place'
    BY <1>2, <2>1, <2>2, <2>3, <2>4 DEF Place, Putting, Running
  <2>7. Files'
    BY <1>2, <2>1, <2>2, <2>3, <2>4 DEF Files, Place, Running, Putting, NeverMismatched, PairConsistent, StartsAgain, Publishing, Matches, Cert, Present
  <2>8. Orders'
    BY <1>2, <2>1, <2>2, <2>3, <2>4 DEF Orders, Place, RefusalExplained, Due, Cert, Plan
  <2>9. Leftovers'
    BY <1>2, <2>1, <2>2, <2>3, <2>4 DEF Leftovers, Place, Running, Answering, Answered
  <2> QED
    BY <2>5, <2>6, <2>7, <2>8, <2>9 DEF CertInv
<1>3. CASE proc = "up" /\ task.ok /\ Reload(disk.cert) /\ Sleep /\ proc' = proc
  <2>1. Shape /\ Place /\ Files /\ Orders /\ Leftovers
    BY DEF CertInv
  <2>2. Grows /\ UNCHANGED <<set, clock, made, disk, proc, watcher, ari, books, http>>
    BY <1>3, <2>1, GrowsUnchanged DEF Done
  <2>3. task.pc = "done"
    BY DEF Done
  <2>4. /\ task' \in TaskType' /\ task'.pc = "sleep" /\ task'.info = NoFile /\ task'.read = NoFile
        /\ task'.ari = FALSE /\ task'.new = NoFile /\ task'.had = FALSE /\ task'.ok = FALSE
        /\ task'.ledgered = FALSE /\ task'.checked = TRUE
    BY <2>1, <2>2, <1>3, NumbersGrow DEF Shape, TaskType, Idle, Pcs, Sleep
  <2>5. disk.cert \in Numbers /\ disk.cert # NoFile
    BY <1>3, <2>1 DEF Shape, DiskType, Files, Matches
  <2>6. /\ live' \in LiveType'
        /\ live' = live \/ (live'.cert = disk.cert /\ live'.key = disk.key /\ Cert(disk.cert).key = disk.key)
    BY <2>1, <2>2, <1>3, <2>5, ReloadServes
  <2>a. faults' \in 0..MaxFaults /\ (faults > 0 => faults' > 0)
    BY <2>1, <2>2, <1>3, <2>5, ReloadServes, FaultCounted
  <2>7. Shape'
    <3> QED
      BY <1>3, <2>1, <2>2, <2>3, <2>4, <2>5, <2>6, <2>a, NumbersGrow DEF Shape, Grows
  <2>8. Place'
    BY <1>3, <2>1, <2>2, <2>3, <2>4, <2>5, <2>6, <2>a DEF Place, Putting, Running
  <2>9. Files'
    BY <1>3, <2>1, <2>2, <2>3, <2>4, <2>5, <2>6, <2>a DEF Files, Place, Running, Putting, NeverMismatched, PairConsistent, StartsAgain, Publishing, Matches, Cert, Present
  <2>10. Orders'
    BY <1>3, <2>1, <2>2, <2>3, <2>4, <2>5, <2>6, <2>a DEF Orders, Place, RefusalExplained, Due, Cert, Plan
  <2>11. Leftovers'
    BY <1>3, <2>1, <2>2, <2>3, <2>4, <2>5, <2>6, <2>a DEF Leftovers, Place, Running, Answering, Answered
  <2> QED
    BY <2>7, <2>8, <2>9, <2>10, <2>11 DEF CertInv
<1>4. CASE proc = "up" /\ ~task.ok /\ UNCHANGED <<live, faults>> /\ Sleep /\ proc' = proc
  <2>1. Shape /\ Place /\ Files /\ Orders /\ Leftovers
    BY DEF CertInv
  <2>2. Grows /\ UNCHANGED <<set, clock, made, disk, proc, live, watcher, ari, books, http, faults>>
    BY <1>4, <2>1, GrowsUnchanged DEF Done
  <2>3. task.pc = "done"
    BY DEF Done
  <2>4. /\ task' \in TaskType' /\ task'.pc = "sleep" /\ task'.info = NoFile /\ task'.read = NoFile
        /\ task'.ari = FALSE /\ task'.new = NoFile /\ task'.had = FALSE /\ task'.ok = FALSE
        /\ task'.ledgered = FALSE /\ task'.checked = TRUE
    BY <2>1, <2>2, <1>4, NumbersGrow DEF Shape, TaskType, Idle, Pcs, Sleep
  <2>5. Shape'
    <3> QED
      BY <1>4, <2>1, <2>2, <2>3, <2>4, NumbersGrow DEF Shape, Grows
  <2>6. Place'
    BY <1>4, <2>1, <2>2, <2>3, <2>4 DEF Place, Putting, Running
  <2>7. Files'
    BY <1>4, <2>1, <2>2, <2>3, <2>4 DEF Files, Place, Running, Putting, NeverMismatched, PairConsistent, StartsAgain, Publishing, Matches, Cert, Present
  <2>8. Orders'
    BY <1>4, <2>1, <2>2, <2>3, <2>4 DEF Orders, Place, RefusalExplained, Due, Cert, Plan
  <2>9. Leftovers'
    BY <1>4, <2>1, <2>2, <2>3, <2>4 DEF Leftovers, Place, Running, Answering, Answered
  <2> QED
    BY <2>5, <2>6, <2>7, <2>8, <2>9 DEF CertInv
<1> QED
  BY <1>1, <1>2, <1>3, <1>4 DEF Done, Refuse

\* The watcher takes an event.
LEMMA StepTakeEvent ==
    ASSUME CertInv, TakeEvent
    PROVE  CertInv'
<1>1. Shape /\ Place /\ Files /\ Orders /\ Leftovers
  BY DEF CertInv
<1>2. Grows /\ UNCHANGED <<set, clock, made, disk, proc, live, task, ari, books, http, faults>>
  BY <1>1, GrowsUnchanged DEF TakeEvent
<1>3. /\ watcher' \in WatcherType' /\ watcher'.pc = "waiting" /\ watcher'.read = watcher.read
      /\ watcher'.event = FALSE
  BY <1>1, <1>2, NumbersGrow DEF Shape, WatcherType, TakeEvent
<1>4. Shape'
  <2> QED
    BY <1>1, <1>2, <1>3, NumbersGrow DEF Shape, Grows
<1>5. Place'
  BY <1>1, <1>2, <1>3 DEF Place, Putting, Running
<1>6. Files'
  BY <1>1, <1>2, <1>3 DEF Files, Place, Running, Putting, NeverMismatched, PairConsistent, StartsAgain, Publishing, Matches, Cert, Present
<1>7. Orders'
  BY <1>1, <1>2, <1>3 DEF Orders, Place, RefusalExplained, Due, Cert, Plan
<1>8. Leftovers'
  BY <1>1, <1>2, <1>3 DEF Leftovers, Place, Running, Answering, Answered
<1> QED
  BY <1>4, <1>5, <1>6, <1>7, <1>8 DEF CertInv

\* The watcher reads the certificate.
LEMMA StepSettled ==
    ASSUME CertInv, Settled
    PROVE  CertInv'
<1>1. Shape /\ Place /\ Files /\ Orders /\ Leftovers
  BY DEF CertInv
<1>2. Grows /\ UNCHANGED <<set, clock, made, disk, proc, live, task, ari, books, http>>
  BY <1>1, GrowsUnchanged DEF Settled
<1>3. watcher' \in WatcherType' /\ (watcher'.pc = "key" => watcher'.read # NoFile)
  <2>1. CASE watcher' = NoEvent
    BY <2>1 DEF WatcherType, NoEvent, Numbers, NoFile
  <2>2. CASE disk.cert # NoFile /\ watcher' = [pc |-> "key", read |-> disk.cert, event |-> FALSE]
    BY <1>1, <1>2, <2>2, NumbersGrow DEF Shape, WatcherType, DiskType
  <2> QED
    BY <2>1, <2>2 DEF Settled
<1>a. faults' \in 0..MaxFaults /\ (faults > 0 => faults' > 0)
  BY <1>1, FaultCounted DEF Settled
<1>4. Shape'
  <2> QED
    BY <1>1, <1>2, <1>3, <1>a, NumbersGrow DEF Shape, Grows
<1>5. Place'
  BY <1>1, <1>2, <1>3, <1>a DEF Place, Putting, Running
<1>6. Files'
  BY <1>1, <1>2, <1>3, <1>a DEF Files, Place, Running, Putting, NeverMismatched, PairConsistent, StartsAgain, Publishing, Matches, Cert, Present
<1>7. Orders'
  BY <1>1, <1>2, <1>3, <1>a DEF Orders, Place, RefusalExplained, Due, Cert, Plan
<1>8. Leftovers'
  BY <1>1, <1>2, <1>3, <1>a DEF Leftovers, Place, Running, Answering, Answered
<1> QED
  BY <1>4, <1>5, <1>6, <1>7, <1>8 DEF CertInv

\* The watcher reads the key, and a new pair is served.
LEMMA StepWatchedKey ==
    ASSUME CertInv, WatchedKey
    PROVE  CertInv'
<1>1. Shape /\ Place /\ Files /\ Orders /\ Leftovers
  BY DEF CertInv
<1>2. Grows /\ UNCHANGED <<set, clock, made, disk, proc, task, ari, books, http>>
  BY <1>1, GrowsUnchanged DEF WatchedKey
<1>3. /\ watcher' \in WatcherType' /\ watcher'.pc = "idle" /\ watcher'.read = NoFile
      /\ watcher'.event = watcher.event
  BY <1>1, <1>2, NumbersGrow DEF Shape, WatcherType, WatchedKey
<1>4. watcher.read \in Numbers /\ watcher.read # NoFile /\ Reload(watcher.read)
  BY <1>1 DEF Shape, WatcherType, Place, WatchedKey
<1>5. /\ live' \in LiveType'
      /\ live' = live \/ (live'.cert = watcher.read /\ live'.key = disk.key /\ Cert(watcher.read).key = disk.key)
  BY <1>1, <1>2, <1>4, ReloadServes
<1>6. proc = "up"
  BY DEF WatchedKey
<1>a. faults' \in 0..MaxFaults /\ (faults > 0 => faults' > 0)
  BY <1>1, <1>2, <1>4, ReloadServes, FaultCounted
<1>7. Shape'
  <2> QED
    BY <1>1, <1>2, <1>3, <1>4, <1>5, <1>6, <1>a, NumbersGrow DEF Shape, Grows
<1>8. Place'
  BY <1>1, <1>2, <1>3, <1>4, <1>5, <1>6, <1>a DEF Place, Putting, Running
<1>9. Files'
  BY <1>1, <1>2, <1>3, <1>4, <1>5, <1>6, <1>a DEF Files, Place, Running, Putting, NeverMismatched, PairConsistent, StartsAgain, Publishing, Matches, Cert, Present
<1>10. Orders'
  BY <1>1, <1>2, <1>3, <1>4, <1>5, <1>6, <1>a DEF Orders, Place, RefusalExplained, Due, Cert, Plan
<1>11. Leftovers'
  BY <1>1, <1>2, <1>3, <1>4, <1>5, <1>6, <1>a DEF Leftovers, Place, Running, Answering, Answered
<1> QED
  BY <1>7, <1>8, <1>9, <1>10, <1>11 DEF CertInv

\* Time passes while no order is open.
LEMMA StepTick ==
    ASSUME CertInv, Tick
    PROVE  CertInv'
<1>1. Shape /\ Place /\ Files /\ Orders /\ Leftovers
  BY DEF CertInv
<1>2. Grows /\ UNCHANGED <<set, made, disk, proc, live, watcher, ari, books, http, faults>>
  BY <1>1, GrowsUnchanged DEF Tick
<1>3. clock' \in 0..LastTime
  <2>1. clock \in 0..LastTime /\ LastTime \in Nat
    BY <1>1, CertificatesAssumption DEF Shape
  <2> QED
    BY <2>1 DEF Tick
<1>4. /\ task' \in TaskType' /\ task'.pc = task.pc /\ task'.ok = task.ok /\ task'.ledgered = task.ledgered
      /\ task'.had = task.had /\ task'.new = task.new /\ task'.read = task.read /\ task'.info = task.info
  BY <1>1, <1>2, NumbersGrow DEF Shape, TaskType, Tick
<1>5. task.pc \in {"down", "sleep"}
  BY <1>1 DEF Place, Running, Tick, Quiet, Shape
<1>6. Shape'
  <2> QED
    BY <1>1, <1>2, <1>3, <1>4, <1>5, NumbersGrow DEF Shape, Grows
<1>7. Place'
  BY <1>1, <1>2, <1>3, <1>4, <1>5 DEF Place, Putting, Running
<1>8. Files'
  BY <1>1, <1>2, <1>3, <1>4, <1>5 DEF Files, Place, Running, Putting, NeverMismatched, PairConsistent, StartsAgain, Publishing, Matches, Cert, Present
<1>9. Orders'
  BY <1>1, <1>2, <1>3, <1>4, <1>5 DEF Orders, Place, RefusalExplained, Due, Cert, Plan
<1>10. Leftovers'
  BY <1>1, <1>2, <1>3, <1>4, <1>5 DEF Leftovers, Place, Running, Answering, Answered
<1> QED
  BY <1>6, <1>7, <1>8, <1>9, <1>10 DEF CertInv

\* The process crashes.
LEMMA StepCrash ==
    ASSUME CertInv, Crash
    PROVE  CertInv'
<1>1. Shape /\ Place /\ Files /\ Orders /\ Leftovers
  BY DEF CertInv
<1>2. Grows /\ UNCHANGED <<set, clock, made>>
  BY <1>1, GrowsUnchanged DEF Crash
<1>3. /\ task' \in TaskType' /\ task'.pc = "down" /\ ~task'.ok /\ ~task'.ledgered
      /\ proc \in Running /\ proc' = "down"
  BY <1>1, <1>2, TaskIdle DEF Crash, Running
<1>4. /\ disk' \in DiskType' /\ disk'.cert = disk.cert /\ disk'.key = disk.key
      /\ disk'.bak = disk.bak /\ disk'.torn = (disk.torn \/ Publishing)
  BY <1>1, <1>2, NumbersGrow DEF Shape, DiskType, Crash, Publishing
<1>5. live' \in LiveType' /\ live'.cert = NoFile
  BY <1>1, <1>2, NumbersGrow DEF Crash, LiveType
<1>6. watcher' \in WatcherType' /\ watcher'.pc = "idle"
  BY <1>1, <1>2, NumbersGrow DEF Crash, WatcherType, NoEvent
<1>7. ari' \in AriType' /\ ari'.window = "none"
  BY <1>1, <1>2, NumbersGrow DEF Crash, AriType
<1>8. /\ books' \in BooksType' /\ books'.ledger = books.ledger /\ books'.ca = books.ca
      /\ books'.off = books.off /\ books'.refused = books.refused /\ books'.lease = FALSE
  <2>1. PICK left \in BOOLEAN : books' = [books EXCEPT !.lease = FALSE, !.left = left]
    BY <1>1 DEF Shape, BooksType, Crash
  <2> QED
    BY <1>1, <2>1 DEF Shape, BooksType
<1>9. http' \in HttpType' /\ http'.port = "none" /\ ~http'.token /\ http'.record # "known"
  BY <1>1 DEF Crash, HttpType, NoHttp
<1>10. faults' \in 0..MaxFaults /\ faults' > 0
  BY <1>1, FaultCounted DEF Crash
<1>11. Shape'
  <2> QED
    BY <1>1, <1>2, <1>3, <1>4, <1>5, <1>6, <1>7, <1>8, <1>9, <1>10, NumbersGrow DEF Shape, Grows
<1>12. Place'
  BY <1>1, <1>2, <1>3, <1>4, <1>5, <1>6, <1>7, <1>8, <1>9, <1>10 DEF Place, Putting, Running
<1>13. Files'
  BY <1>1, <1>2, <1>3, <1>4, <1>5, <1>6, <1>7, <1>8, <1>9, <1>10 DEF Files, Place, Running, Putting, NeverMismatched, PairConsistent, StartsAgain, Publishing, Matches, Cert, Present
<1>14. Orders'
  BY <1>1, <1>2, <1>3, <1>4, <1>5, <1>6, <1>7, <1>8, <1>9, <1>10 DEF Orders, Place, RefusalExplained, Due, Cert, Plan
<1>15. Leftovers'
  BY <1>1, <1>2, <1>3, <1>4, <1>5, <1>6, <1>7, <1>8, <1>9, <1>10 DEF Leftovers, Place, Running, Answering, Answered
<1> QED
  BY <1>11, <1>12, <1>13, <1>14, <1>15 DEF CertInv

\* An operator's tool replaces the key.
LEMMA StepReplaceKey ==
    ASSUME CertInv, ReplaceKey
    PROVE  CertInv'
<1>1. Shape /\ Place /\ Files /\ Orders /\ Leftovers
  BY DEF CertInv
<1>2. Grows /\ UNCHANGED <<set, clock, made, proc, live, task, ari, books, http, faults>>
  BY <1>1, GrowsUnchanged DEF ReplaceKey
<1>3. watcher' \in WatcherType' /\ watcher'.pc = watcher.pc /\ watcher'.read = watcher.read
  BY <1>1, <1>2, WatcherHears DEF ReplaceKey
<1>4. set.operator => ~set.acme /\ ~set.self_signed
  BY <1>1, OperatorAlone
<1>5. Cert(disk.cert).key \in Numbers
  <2>1. disk.cert \in 1..Len(made)
    BY <1>1, <1>2, StillSo DEF Known, ReplaceKey
  <2>2. made[disk.cert].key \in 1..Len(made) /\ Len(made) \in Nat
    BY <1>1, <2>1, MadeFacts
  <2> QED
    BY <2>2 DEF Cert, Numbers
<1>6. /\ disk' \in DiskType' /\ disk'.cert = disk.cert /\ disk'.key = Cert(disk.cert).key
      /\ disk'.bak = disk.bak /\ disk'.torn = disk.torn
  BY <1>1, <1>2, <1>5, NumbersGrow DEF Shape, DiskType, Changed, ReplaceKey
<1>7. set.operator
  BY DEF ReplaceKey
<1>8. Shape'
  <2> QED
    BY <1>1, <1>2, <1>3, <1>4, <1>5, <1>6, <1>7, NumbersGrow DEF Shape, Grows
<1>9. Place'
  BY <1>1, <1>2, <1>3, <1>4, <1>5, <1>6, <1>7 DEF Place, Putting, Running
<1>10. Files'
  BY <1>1, <1>2, <1>3, <1>4, <1>5, <1>6, <1>7 DEF Files, Place, Running, Putting, NeverMismatched, PairConsistent, StartsAgain, Publishing, Matches, Cert, Present
<1>11. Orders'
  BY <1>1, <1>2, <1>3, <1>4, <1>5, <1>6, <1>7 DEF Orders, Place, RefusalExplained, Due, Cert, Plan
<1>12. Leftovers'
  BY <1>1, <1>2, <1>3, <1>4, <1>5, <1>6, <1>7 DEF Leftovers, Place, Running, Answering, Answered
<1> QED
  BY <1>8, <1>9, <1>10, <1>11, <1>12 DEF CertInv

\* An operator's tool replaces the certificate.
LEMMA StepReplaceCert ==
    ASSUME CertInv, ReplaceCert
    PROVE  CertInv'
<1>1. Shape /\ Place /\ Files /\ Orders /\ Leftovers
  BY DEF CertInv
<1>2. /\ Grows /\ Len(made') = Len(made) + 1
      /\ Len(made) + 1 \in Numbers' /\ Len(made) + 1 # NoFile
      /\ made'[Len(made) + 1].key = Len(made) + 1 /\ (\A n \in 1..Len(made) : made'[n].how = made[n].how)
      /\ \A n \in 1..Len(made') : made'[n].self = IF n \in 1..Len(made) THEN made[n].self ELSE FALSE
      /\ UNCHANGED <<set, clock, proc, live, task, ari, books, http, faults>>
  <2>1. Len(made) + 1 \in 1..(Len(made) + 1)
    BY <1>1, MadeFacts
  <2> QED
    BY <1>1, <2>1, MadeOne DEF ReplaceCert, Hows
<1>3. watcher' \in WatcherType' /\ watcher'.pc = watcher.pc /\ watcher'.read = watcher.read
  BY <1>1, <1>2, WatcherHears DEF ReplaceCert
<1>4. set.operator => ~set.acme /\ ~set.self_signed
  BY <1>1, OperatorAlone
<1>5. /\ disk' \in DiskType' /\ disk'.cert = Len(made) + 1 /\ disk'.key = disk.key
      /\ disk'.bak = disk.bak /\ disk'.torn = disk.torn
  BY <1>1, <1>2, NumbersGrow DEF Shape, DiskType, Changed, ReplaceCert
<1>6. set.operator
  BY DEF ReplaceCert
<1>7. Known
  BY <1>1, <1>2, StillSo
<1>8. Shape'
  <2> QED
    BY <1>1, <1>2, <1>3, <1>4, <1>5, <1>6, <1>7, NumbersGrow DEF Shape, Grows, Known
<1>9. Place'
  BY <1>1, <1>2, <1>3, <1>4, <1>5, <1>6, <1>7 DEF Place, Putting, Running, Known
<1>10. Files'
  BY <1>1, <1>2, <1>3, <1>4, <1>5, <1>6, <1>7 DEF Files, Place, Running, Putting, NeverMismatched, PairConsistent, StartsAgain, Publishing, Matches, Cert, Present, Known
<1>11. Orders'
  BY <1>1, <1>2, <1>3, <1>4, <1>5, <1>6, <1>7 DEF Orders, Place, RefusalExplained, Due, Cert, Plan, Known
<1>12. Leftovers'
  BY <1>1, <1>2, <1>3, <1>4, <1>5, <1>6, <1>7 DEF Leftovers, Place, Running, Answering, Answered, Known
<1> QED
  BY <1>8, <1>9, <1>10, <1>11, <1>12 DEF CertInv

\* The renewal window of the certificate is read, or what was read for it kept.
LEMMA StepWindow ==
    ASSUME CertInv, Window
    PROVE  CertInv'
<1>1. CASE ari.cert = task.info /\ Goto("decide") /\ UNCHANGED <<ari, made, faults>>
  <2>1. Shape /\ Place /\ Files /\ Orders /\ Leftovers
    BY DEF CertInv
  <2>2. Grows /\ UNCHANGED <<set, clock, made, disk, proc, live, watcher, ari, books, http, faults>>
    BY <1>1, <2>1, GrowsUnchanged DEF Window
  <2>3. task.pc = "window"
    BY DEF Window
  <2>4. GoesTo("decide")
    BY <2>1, <2>2, <1>1, TaskGoes DEF Pcs
  <2>5. Shape'
    <3> QED
      BY <1>1, <2>1, <2>2, <2>3, <2>4, NumbersGrow DEF Shape, Grows, GoesTo
  <2>6. Place'
    BY <1>1, <2>1, <2>2, <2>3, <2>4 DEF Place, Putting, Running, GoesTo
  <2>7. Files'
    BY <1>1, <2>1, <2>2, <2>3, <2>4 DEF Files, Place, Running, Putting, NeverMismatched, PairConsistent, StartsAgain, Publishing, Matches, Cert, Present, GoesTo
  <2>8. Orders'
    BY <1>1, <2>1, <2>2, <2>3, <2>4 DEF Orders, Place, RefusalExplained, Due, Cert, Plan, GoesTo
  <2>9. Leftovers'
    BY <1>1, <2>1, <2>2, <2>3, <2>4 DEF Leftovers, Place, Running, Answering, Answered, GoesTo
  <2> QED
    BY <2>5, <2>6, <2>7, <2>8, <2>9 DEF CertInv
<1>2. CASE /\ \E w \in {"none", "closed"} : ari' = [cert |-> task.info, window |-> w]
           /\ Goto("decide") /\ UNCHANGED <<made, faults>>
  <2>1. Shape /\ Place /\ Files /\ Orders /\ Leftovers
    BY DEF CertInv
  <2>2. Grows /\ UNCHANGED <<set, clock, made, disk, proc, live, watcher, books, http, faults>>
    BY <1>2, <2>1, GrowsUnchanged DEF Window
  <2>3. task.pc = "window"
    BY DEF Window
  <2>4. GoesTo("decide")
    BY <2>1, <2>2, <1>2, TaskGoes DEF Pcs
  <2>5. task.info \in Numbers /\ task.info # NoFile
    BY <2>1, <2>3 DEF Shape, TaskType, Place
  <2>6. ari' \in AriType' /\ ari'.cert = task.info /\ ari'.window # "open"
    <3>1. PICK w \in {"none", "closed"} : ari' = [cert |-> task.info, window |-> w]
      BY <1>2
    <3>2. task.info \in Numbers'
      BY <2>1, <2>2, <2>5, NumbersGrow
    <3> QED
      BY <3>1, <3>2 DEF AriType
  <2>7. Shape'
    <3> QED
      BY <2>1, <2>2, <2>3, <2>4, <2>5, <2>6, NumbersGrow DEF Shape, Grows, GoesTo
  <2>8. Place'
    BY <2>1, <2>2, <2>3, <2>4, <2>5, <2>6 DEF Place, Putting, Running, GoesTo
  <2>9. Files'
    BY <2>1, <2>2, <2>3, <2>4, <2>5, <2>6 DEF Files, Place, Running, Putting, NeverMismatched, PairConsistent, StartsAgain, Publishing, Matches, Cert, Present, GoesTo
  <2>10. Orders'
    BY <2>1, <2>2, <2>3, <2>4, <2>5, <2>6 DEF Orders, Place, RefusalExplained, Due, Cert, Plan, GoesTo
  <2>11. Leftovers'
    BY <2>1, <2>2, <2>3, <2>4, <2>5, <2>6 DEF Leftovers, Place, Running, Answering, Answered, GoesTo
  <2> QED
    BY <2>7, <2>8, <2>9, <2>10, <2>11 DEF CertInv
<1>3. CASE /\ ari' = [cert |-> task.info, window |-> "open"] /\ made' = [made EXCEPT ![task.info].open = TRUE]
           /\ Goto("decide") /\ Fault
  <2>1. Shape /\ Place /\ Files /\ Orders /\ Leftovers
    BY DEF CertInv
  <2>2. /\ Grows /\ Len(made') = Len(made) /\ made'[task.info].open
        /\ UNCHANGED <<set, clock, disk, proc, live, watcher, books, http>>
    <3>1. task.info \in Numbers /\ task.info # NoFile /\ Len(made) \in Nat
      BY <2>1, MadeFacts DEF Shape, TaskType, Place, Window
    <3>2. task.info \in 1..Len(made)
      BY <3>1 DEF Numbers, NoFile
    <3> QED
      BY <1>3, <2>1, <3>2, GrowsOpen DEF Window
  <2>3. task.pc = "window"
    BY DEF Window
  <2>4. GoesTo("decide")
    BY <2>1, <2>2, <1>3, TaskGoes DEF Pcs
  <2>5. task.info \in Numbers /\ task.info # NoFile
    BY <2>1, <2>3 DEF Shape, TaskType, Place
  <2>6. ari' \in AriType' /\ ari'.cert = task.info /\ ari'.window = "open"
    BY <1>3, <2>1, <2>2, <2>5, NumbersGrow DEF AriType, Shape
  <2>7. faults' \in 0..MaxFaults /\ (faults > 0 => faults' > 0)
    BY <1>3, <2>1, FaultCounted
  <2>8. Known
    BY <2>1, <2>2, StillSo
  <2>9. \A n \in 1..Len(made') : n \in 1..Len(made) /\ made'[n].self = made[n].self /\ made'[n].how = made[n].how
    BY <2>2 DEF Grows
  <2>10. Shape'
    <3> QED
      BY <2>1, <2>2, <2>3, <2>4, <2>5, <2>6, <2>7, <2>8, <2>9, NumbersGrow DEF Shape, Grows, GoesTo, Known
  <2>11. Place'
    BY <2>1, <2>2, <2>3, <2>4, <2>5, <2>6, <2>7, <2>8, <2>9 DEF Place, Putting, Running, GoesTo, Known
  <2>12. Files'
    BY <2>1, <2>2, <2>3, <2>4, <2>5, <2>6, <2>7, <2>8, <2>9 DEF Files, Place, Running, Putting, NeverMismatched, PairConsistent, StartsAgain, Publishing, Matches, Cert, Present, GoesTo, Known
  <2>13. Orders'
    BY <2>1, <2>2, <2>3, <2>4, <2>5, <2>6, <2>7, <2>8, <2>9 DEF Orders, Place, RefusalExplained, Due, Cert, Plan, GoesTo, Known
  <2>14. Leftovers'
    BY <2>1, <2>2, <2>3, <2>4, <2>5, <2>6, <2>7, <2>8, <2>9 DEF Leftovers, Place, Running, Answering, Answered, GoesTo, Known
  <2> QED
    BY <2>10, <2>11, <2>12, <2>13, <2>14 DEF CertInv
<1>4. CASE /\ ari' = [cert |-> task.info, window |-> IF ari.cert = task.info THEN ari.window ELSE "none"]
           /\ made' = made /\ Goto("decide") /\ Fault
  <2>1. Shape /\ Place /\ Files /\ Orders /\ Leftovers
    BY DEF CertInv
  <2>2. Grows /\ UNCHANGED <<set, clock, made, disk, proc, live, watcher, books, http>>
    BY <1>4, <2>1, GrowsUnchanged DEF Window
  <2>3. task.pc = "window"
    BY DEF Window
  <2>4. GoesTo("decide")
    BY <2>1, <2>2, <1>4, TaskGoes DEF Pcs
  <2>5. task.info \in Numbers /\ task.info # NoFile
    BY <2>1, <2>3 DEF Shape, TaskType, Place
  <2>6. ari' \in AriType' /\ ari'.cert = task.info /\ ari'.window = IF ari.cert = task.info THEN ari.window ELSE "none"
    BY <1>4, <2>1, <2>2, <2>5, NumbersGrow DEF AriType, Shape
  <2>7. faults' \in 0..MaxFaults /\ (faults > 0 => faults' > 0)
    BY <1>4, <2>1, FaultCounted
  <2>8. Shape'
    <3> QED
      BY <2>1, <2>2, <2>3, <2>4, <2>5, <2>6, <2>7, NumbersGrow DEF Shape, Grows, GoesTo
  <2>9. Place'
    BY <2>1, <2>2, <2>3, <2>4, <2>5, <2>6, <2>7 DEF Place, Putting, Running, GoesTo
  <2>10. Files'
    BY <2>1, <2>2, <2>3, <2>4, <2>5, <2>6, <2>7 DEF Files, Place, Running, Putting, NeverMismatched, PairConsistent, StartsAgain, Publishing, Matches, Cert, Present, GoesTo
  <2>11. Orders'
    BY <2>1, <2>2, <2>3, <2>4, <2>5, <2>6, <2>7 DEF Orders, Place, RefusalExplained, Due, Cert, Plan, GoesTo
  <2>12. Leftovers'
    BY <2>1, <2>2, <2>3, <2>4, <2>5, <2>6, <2>7 DEF Leftovers, Place, Running, Answering, Answered, GoesTo
  <2> QED
    BY <2>8, <2>9, <2>10, <2>11, <2>12 DEF CertInv
<1> QED
  BY <1>1, <1>2, <1>3, <1>4 DEF Window

\* The certificate is renewed, or slept on.
LEMMA StepDecide ==
    ASSUME CertInv, Decide
    PROVE  CertInv'
<1>1. CASE Sleep /\ UNCHANGED <<made, faults>>
  <2>1. Shape /\ Place /\ Files /\ Orders /\ Leftovers
    BY DEF CertInv
  <2>2. Grows /\ UNCHANGED <<set, clock, made, disk, proc, live, watcher, ari, books, http, faults>>
    BY <1>1, <2>1, GrowsUnchanged DEF Decide
  <2>3. task.pc = "decide"
    BY DEF Decide
  <2>4. /\ task' \in TaskType' /\ task'.pc = "sleep" /\ task'.info = NoFile /\ task'.read = NoFile
        /\ task'.ari = FALSE /\ task'.new = NoFile /\ task'.had = FALSE /\ task'.ok = FALSE
        /\ task'.ledgered = FALSE /\ task'.checked = TRUE
    BY <2>1, <2>2, <1>1, NumbersGrow DEF Shape, TaskType, Idle, Pcs, Sleep
  <2>5. Shape'
    <3> QED
      BY <1>1, <2>1, <2>2, <2>3, <2>4, NumbersGrow DEF Shape, Grows
  <2>6. Place'
    BY <1>1, <2>1, <2>2, <2>3, <2>4 DEF Place, Putting, Running
  <2>7. Files'
    BY <1>1, <2>1, <2>2, <2>3, <2>4 DEF Files, Place, Running, Putting, NeverMismatched, PairConsistent, StartsAgain, Publishing, Matches, Cert, Present
  <2>8. Orders'
    BY <1>1, <2>1, <2>2, <2>3, <2>4 DEF Orders, Place, RefusalExplained, Due, Cert, Plan
  <2>9. Leftovers'
    BY <1>1, <2>1, <2>2, <2>3, <2>4 DEF Leftovers, Place, Running, Answering, Answered
  <2> QED
    BY <2>5, <2>6, <2>7, <2>8, <2>9 DEF CertInv
<1>2. CASE /\ Plan = "acme" /\ UNCHANGED <<made, faults>>
           /\ Due(task.info) \/ (set.ari /\ ari.window = "open")
           /\ \E told \in BOOLEAN : task' = [Idle EXCEPT !.pc = "lease", !.info = task.info, !.ari = told]
  <2>1. Shape /\ Place /\ Files /\ Orders /\ Leftovers
    BY DEF CertInv
  <2>2. Grows /\ UNCHANGED <<set, clock, made, disk, proc, live, watcher, ari, books, http, faults>>
    BY <1>2, <2>1, GrowsUnchanged DEF Decide
  <2>3. task.pc = "decide"
    BY DEF Decide
  <2>4. task.info \in Numbers /\ task.info # NoFile
    BY <2>1, <2>3 DEF Shape, TaskType, Place
  <2>5. /\ task' \in TaskType' /\ task'.pc = "lease" /\ task'.info = task.info /\ ~task'.ok /\ ~task'.ledgered
    BY <1>2, <2>1, <2>2, <2>4, NumbersGrow DEF Idle, Pcs, TaskType
  <2>6. Plan = "acme" /\ (Due(task.info) \/ (set.ari /\ ari.window = "open"))
    BY <1>2 DEF Decide
  <2>7. Shape'
    <3> QED
      BY <2>1, <2>2, <2>3, <2>4, <2>5, <2>6, NumbersGrow DEF Shape, Grows
  <2>8. Place'
    BY <2>1, <2>2, <2>3, <2>4, <2>5, <2>6 DEF Place, Putting, Running, Plan
  <2>9. Files'
    BY <2>1, <2>2, <2>3, <2>4, <2>5, <2>6 DEF Files, Place, Running, Putting, NeverMismatched, PairConsistent, StartsAgain, Publishing, Matches, Cert, Present
  <2>10. Orders'
    BY <2>1, <2>2, <2>3, <2>4, <2>5, <2>6 DEF Orders, Place, RefusalExplained, Due, Cert, Plan
  <2>11. Leftovers'
    BY <2>1, <2>2, <2>3, <2>4, <2>5, <2>6 DEF Leftovers, Place, Running, Answering, Answered
  <2> QED
    BY <2>7, <2>8, <2>9, <2>10, <2>11 DEF CertInv
<1>3. CASE /\ Plan = "self_signed" /\ Len(made) < MaxPairs /\ made' = Append(made, Renewed(Len(made) + 1))
           /\ faults' = faults
           /\ task' = [Idle EXCEPT !.pc = "stage", !.info = task.info, !.new = Len(made) + 1]
  <2>1. Shape /\ Place /\ Files /\ Orders /\ Leftovers
    BY DEF CertInv
  <2>2. /\ Grows /\ Len(made') = Len(made) + 1
        /\ Len(made) + 1 \in Numbers' /\ Len(made) + 1 # NoFile
        /\ made'[Len(made) + 1].key = (IF set.rotate \/ disk.key = NoFile THEN Len(made) + 1 ELSE disk.key)
        /\ \A n \in 1..Len(made') : made'[n].self = IF n \in 1..Len(made) THEN made[n].self ELSE TRUE
        /\ \A n \in 1..Len(made) : made'[n].how = made[n].how
        /\ UNCHANGED <<set, clock, disk, proc, live, watcher, ari, books, http, faults>>
    <3>1. disk.key \in Numbers /\ Len(made) \in Nat
      BY <2>1, MadeFacts DEF Shape, DiskType
    <3>2. (IF set.rotate \/ disk.key = NoFile THEN Len(made) + 1 ELSE disk.key) \in 1..(Len(made) + 1)
      BY <3>1 DEF Numbers, NoFile
    <3> QED
      BY <1>3, <2>1, <3>2, MadeOne DEF Decide, Renewed, Hows
  <2>3. task.pc = "decide"
    BY DEF Decide
  <2>4. task.info \in Numbers /\ task.info # NoFile
    BY <2>1, <2>3 DEF Shape, TaskType, Place
  <2>5. /\ task' \in TaskType' /\ task'.pc = "stage" /\ task'.info = task.info
        /\ task'.read = NoFile /\ task'.ari = FALSE /\ task'.new = Len(made) + 1
        /\ task'.had = FALSE /\ task'.ok = FALSE /\ task'.ledgered = FALSE /\ task'.checked = TRUE
    BY <2>1, <2>2, <1>3, <2>4, NumbersGrow DEF Shape, TaskType, Idle, Pcs
  <2>6. Known
    BY <2>1, <2>2, StillSo
  <2>7. set.operator => ~set.acme /\ ~set.self_signed
    BY <2>1, OperatorAlone
  <2>8. ~set.acme /\ set.self_signed
    BY <1>3 DEF Plan
  <2>9. Shape'
    <3> QED
      BY <2>1, <2>2, <2>3, <2>4, <2>5, <2>6, <2>7, <2>8, NumbersGrow DEF Shape, Grows, Known
  <2>10. Place'
    BY <2>1, <2>2, <2>3, <2>4, <2>5, <2>6, <2>7, <2>8 DEF Place, Putting, Running, Known
  <2>11. Files'
    BY <2>1, <2>2, <2>3, <2>4, <2>5, <2>6, <2>7, <2>8 DEF Files, Place, Running, Putting, NeverMismatched, PairConsistent, StartsAgain, Publishing, Matches, Cert, Present, Known
  <2>12. Orders'
    BY <2>1, <2>2, <2>3, <2>4, <2>5, <2>6, <2>7, <2>8 DEF Orders, Place, RefusalExplained, Due, Cert, Plan, Known
  <2>13. Leftovers'
    BY <2>1, <2>2, <2>3, <2>4, <2>5, <2>6, <2>7, <2>8 DEF Leftovers, Place, Running, Answering, Answered, Known
  <2> QED
    BY <2>9, <2>10, <2>11, <2>12, <2>13 DEF CertInv
<1>4. CASE /\ Plan = "self_signed" /\ Len(made) < MaxPairs /\ made' = Append(made, Rekeyed(Len(made) + 1))
           /\ Fault
           /\ task' = [Idle EXCEPT !.pc = "stage", !.info = task.info, !.new = Len(made) + 1]
  <2>1. Shape /\ Place /\ Files /\ Orders /\ Leftovers
    BY DEF CertInv
  <2>2. /\ Grows /\ Len(made') = Len(made) + 1
        /\ Len(made) + 1 \in Numbers' /\ Len(made) + 1 # NoFile
        /\ made'[Len(made) + 1].key = Len(made) + 1 /\ made'[Len(made) + 1].how = "rekeyed"
        /\ \A n \in 1..Len(made') : made'[n].self = IF n \in 1..Len(made) THEN made[n].self ELSE TRUE
        /\ \A n \in 1..Len(made) : made'[n].how = made[n].how
        /\ UNCHANGED <<set, clock, disk, proc, live, watcher, ari, books, http>>
    <3>2. Len(made) + 1 \in 1..(Len(made) + 1)
      BY <2>1, MadeFacts
    <3> QED
      BY <1>4, <2>1, <3>2, MadeOne DEF Decide, Rekeyed, Hows
  <2>3. task.pc = "decide"
    BY DEF Decide
  <2>4. task.info \in Numbers /\ task.info # NoFile
    BY <2>1, <2>3 DEF Shape, TaskType, Place
  <2>5. /\ task' \in TaskType' /\ task'.pc = "stage" /\ task'.info = task.info
        /\ task'.read = NoFile /\ task'.ari = FALSE /\ task'.new = Len(made) + 1
        /\ task'.had = FALSE /\ task'.ok = FALSE /\ task'.ledgered = FALSE /\ task'.checked = TRUE
    BY <2>1, <2>2, <1>4, <2>4, NumbersGrow DEF Shape, TaskType, Idle, Pcs
  <2>6. Known
    BY <2>1, <2>2, StillSo
  <2>7. set.operator => ~set.acme /\ ~set.self_signed
    BY <2>1, OperatorAlone
  <2>8. ~set.acme /\ set.self_signed
    BY <1>4 DEF Plan
  <2>a. faults' \in 0..MaxFaults /\ (faults > 0 => faults' > 0)
    BY <1>4, <2>1, FaultCounted
  <2>9. Shape'
    <3> QED
      BY <2>1, <2>2, <2>3, <2>4, <2>5, <2>6, <2>7, <2>8, <2>a, NumbersGrow DEF Shape, Grows, Known
  <2>10. Place'
    BY <2>1, <2>2, <2>3, <2>4, <2>5, <2>6, <2>7, <2>8, <2>a DEF Place, Putting, Running, Known
  <2>11. Files'
    BY <2>1, <2>2, <2>3, <2>4, <2>5, <2>6, <2>7, <2>8, <2>a DEF Files, Place, Running, Putting, NeverMismatched, PairConsistent, StartsAgain, Publishing, Matches, Cert, Present, Known
  <2>12. Orders'
    BY <2>1, <2>2, <2>3, <2>4, <2>5, <2>6, <2>7, <2>8, <2>a DEF Orders, Place, RefusalExplained, Due, Cert, Plan, Known
  <2>13. Leftovers'
    BY <2>1, <2>2, <2>3, <2>4, <2>5, <2>6, <2>7, <2>8, <2>a DEF Leftovers, Place, Running, Answering, Answered, Known
  <2> QED
    BY <2>9, <2>10, <2>11, <2>12, <2>13 DEF CertInv
<1> QED
  BY <1>1, <1>2, <1>3, <1>4 DEF Decide

----------------------------------------------------------------------------
(* The theorems. *)

\* The initial states: no process, and no certificate or one pair.
LEMMA InvInit == CertInit => CertInv
<1> SUFFICES ASSUME CertInit PROVE CertInv
  OBVIOUS
<1>a. \E b \in BOOLEAN :
         \/ made = <<>> /\ disk = NoDisk
         \/ made = <<New(1, b, "found")>> /\ disk = [NoDisk EXCEPT !.cert = 1, !.key = 1]
  BY DEF CertInit
<1>a1. PICK b \in BOOLEAN :
         \/ made = <<>> /\ disk = NoDisk
         \/ made = <<New(1, b, "found")>> /\ disk = [NoDisk EXCEPT !.cert = 1, !.key = 1]
  BY <1>a
<1>b. PICK c : c = New(1, b, "found")
  OBVIOUS
<1>1. /\ \/ made = <<>> /\ disk = NoDisk
         \/ made = <<c>> /\ disk = [NoDisk EXCEPT !.cert = 1, !.key = 1]
      /\ set \in Settings /\ clock = 0 /\ proc = "down" /\ faults = 0 /\ task = Idle
      /\ live = [cert |-> NoFile, key |-> NoFile] /\ watcher = NoEvent /\ books = NoBooks /\ http = NoHttp
      /\ ari = [cert |-> NoFile, window |-> "none"]
  BY <1>a1, <1>b DEF CertInit
<1>2. c \in MadeType /\ c.key = 1 /\ c.how = "found"
  BY <1>1, <1>b DEF MadeType, New, Hows
<1>3. made \in Seq(MadeType) /\ (Len(made) = 0 \/ (Len(made) = 1 /\ made[1] = c))
  <2>1. <<>> \in Seq(MadeType) /\ Len(<<>>) = 0 /\ <<c>> \in Seq(MadeType) /\ Len(<<c>>) = 1 /\ <<c>>[1] = c
    BY <1>2, SeqOfOne
  <2> QED
    BY <1>1, <2>1
<1>4. \A n \in 1..Len(made) : n = 1 /\ made[n] = c
  <2>1. CASE Len(made) = 0
    BY <2>1, 1..0 = {}
  <2>2. CASE Len(made) = 1 /\ made[1] = c
    BY <2>2, 1..1 = {1}
  <2> QED
    BY <1>3, <2>1, <2>2
<1>5. /\ disk \in DiskType /\ ~disk.torn
      /\ \/ disk.cert = NoFile /\ disk.key = NoFile
         \/ Len(made) = 1 /\ disk.cert = 1 /\ disk.key = 1
  <2>1. CASE disk = NoDisk
    BY <1>3, <2>1 DEF DiskType, NoDisk, NoFile, Numbers
  <2>2. CASE made = <<c>> /\ disk = [NoDisk EXCEPT !.cert = 1, !.key = 1]
    <3>1. Len(made) = 1
      BY <2>2
    <3>2. disk = [cert |-> 1, key |-> 1, bak |-> NoFile, torn |-> FALSE]
      BY <2>2 DEF NoDisk
    <3>3. 1 \in Numbers /\ NoFile \in Numbers
      BY <3>1 DEF Numbers, NoFile
    <3> QED
      BY <3>1, <3>2, <3>3 DEF DiskType
  <2> QED
    BY <1>1, <2>1, <2>2
<1>6. task \in TaskType /\ task.pc = "down" /\ ~task.ok
  BY <1>1, <1>3 DEF TaskType, Idle, Pcs, Numbers, NoFile
<1>7. live \in LiveType /\ live.cert = NoFile /\ ari \in AriType /\ ari.window = "none"
  BY <1>1, <1>3 DEF LiveType, AriType, Numbers, NoFile
<1>8. watcher \in WatcherType /\ watcher.pc = "idle"
  BY <1>1, <1>3 DEF WatcherType, NoEvent, Numbers, NoFile
<1>9. books \in BooksType /\ ~books.refused /\ books.ca = None /\ books.ledger = None /\ ~books.lease /\ ~books.left
  BY <1>1 DEF BooksType, NoBooks, Stored
<1>10. http \in HttpType /\ http.port = "none" /\ ~http.token /\ http.record = "none"
  BY <1>1 DEF HttpType, NoHttp
<1>11. Shape
  <2>1. MadeOK
    BY <1>2, <1>3, <1>4, CertificatesAssumption DEF MadeOK
  <2> QED
    BY <1>1, <1>5, <1>6, <1>7, <1>8, <1>9, <1>10, <2>1, CertificatesAssumption DEF Shape
<1>12. Place
  BY <1>1, <1>6, <1>7, <1>8 DEF Place, Running, Putting
<1>13. Files
  BY <1>1, <1>2, <1>4, <1>5, <1>6, <1>7 DEF Files, NeverMismatched, PairConsistent, StartsAgain, Publishing, Matches, Cert, Present, Putting, NoFile
<1>14. Orders
  BY <1>1, <1>6, <1>7, <1>9 DEF Orders, RefusalExplained, None
<1>15. Leftovers
  BY <1>1, <1>6, <1>9, <1>10 DEF Leftovers, Answering
<1> QED
  BY <1>11, <1>12, <1>13, <1>14, <1>15 DEF CertInv

\* Every step keeps the invariant.
LEMMA InvStep == CertInv /\ [CertNext]_certVars => CertInv'
<1> SUFFICES ASSUME CertInv, [CertNext]_certVars PROVE CertInv'
  OBVIOUS
<1>1. CASE Working
  BY <1>1, StepEnsure, StepLoadCert, StepLoadKey, StepListen, StepLease, StepLedger, StepNewOrder,
     StepChallenge, StepValidate, StepSettle, StepOutcome, StepStage, StepAside, StepPutCert, StepPutKey,
     StepUndo, StepRestore, StepWake, StepAgainKey, StepCheck, StepWindow, StepDecide, StepDone
  DEF Working
<1>2. CASE Start \/ Watching \/ Tick \/ Crash \/ ReplaceCert \/ ReplaceKey
  BY <1>2, StepStart, StepTakeEvent, StepSettled, StepWatchedKey, StepTick, StepCrash, StepReplaceCert,
     StepReplaceKey DEF Watching
<1>3. CASE UNCHANGED certVars
  <2>1. UNCHANGED <<set, clock, made, disk, proc, live, task, watcher, ari, books, http, faults>>
    BY <1>3 DEF certVars
  <2>2. Shape'
    <3>1. Shape
      BY DEF CertInv
    <3>2. Numbers' = Numbers
      BY <2>1 DEF Numbers
    <3>3. /\ DiskType' = DiskType /\ LiveType' = LiveType /\ TaskType' = TaskType
          /\ WatcherType' = WatcherType /\ AriType' = AriType
      BY <3>2, Zenon DEF DiskType, LiveType, TaskType, WatcherType, AriType
    <3>4. MadeOK'
      BY <2>1, <3>1 DEF Shape, MadeOK
    <3> QED
      BY <2>1, <3>1, <3>3, <3>4 DEF Shape
  <2>5. Place'
    BY <2>1 DEF CertInv, Place
  <2>3. Files'
    BY <2>1 DEF CertInv, Files, NeverMismatched, PairConsistent, StartsAgain, Publishing, Matches,
                Cert, Present
  <2>4. Orders' /\ Leftovers'
    BY <2>1 DEF CertInv, Orders, Leftovers, RefusalExplained, Due, Cert, Plan, Answered
  <2> QED
    BY <2>2, <2>3, <2>4, <2>5 DEF CertInv
<1> QED
  BY <1>1, <1>2, <1>3 DEF CertNext

\* The inductive invariant holds in every reachable state.
LEMMA InvAlways == CertSpec => []CertInv
  BY InvInit, InvStep, PTL DEF CertSpec

\* The invariant is enough.
LEMMA InvPairKept == CertInv => PairKept
<1> SUFFICES ASSUME CertInv PROVE PairKept
  OBVIOUS
<1>1. Shape /\ Files
  BY DEF CertInv
<1>2. Len(made) \in Nat /\ MaxPairs \in Nat /\ Len(made) <= MaxPairs
  BY <1>1, MadeFacts
<1>3. Numbers \subseteq 0..MaxPairs
  BY <1>2 DEF Numbers
<1>4. disk \in [cert : 0..MaxPairs, key : 0..MaxPairs, bak : 0..MaxPairs, torn : BOOLEAN]
  BY <1>1, <1>3 DEF Shape, DiskType
<1>5. live \in [cert : 0..MaxPairs, key : 0..MaxPairs]
  BY <1>1, <1>3 DEF Shape, LiveType
<1>6. CertTypeOK
  BY <1>1, <1>2, <1>4, <1>5 DEF CertTypeOK, Shape, HttpType
<1>7. NeverDowngraded
  <2>1. live.cert # NoFile => live.cert \in 1..Len(made)
    <3>1. live.cert \in Numbers
      BY <1>1 DEF Shape, LiveType
    <3> QED
      BY <1>2, <3>1 DEF Numbers, NoFile
  <2> QED
    BY <1>1, <2>1 DEF NeverDowngraded, Files, Cert
<1> QED
  BY <1>1, <1>6, <1>7 DEF PairKept, Files

\* The invariant gives the order property: every refusal is explained and every renewal justified.
LEMMA InvOrdersKept == CertInv => OrdersKept
<1> SUFFICES ASSUME CertInv PROVE OrdersKept
  OBVIOUS
<1>1. Shape /\ Place /\ Orders /\ Leftovers
  BY DEF CertInv
<1>2. http.port \in {"none", "challenge", "redirect"}
  BY <1>1 DEF Shape, HttpType
<1>3. RefusalExplained /\ RenewalJustified
  BY <1>1 DEF Orders, RenewalJustified
<1>4. PortIsFree
  BY <1>1, <1>2 DEF PortIsFree, Leftovers, Place, SharedMap, Answering
<1>5. ChallengeAnswered /\ LeaseClosed
  BY <1>1 DEF ChallengeAnswered, LeaseClosed, Leftovers, Answering
<1> QED
  BY <1>3, <1>4, <1>5 DEF OrdersKept

\* For any settings and bounds: handshakes never get a certificate with another's key, a publication
\* that fails leaves the pair that was there, a restart finds or makes a pair, and with ACME on no
\* self-signed certificate is served but one that was there before the first start (publish_pair,
\* load_pair, the order of `run`).
THEOREM PairSurvives == CertSpec => []PairKept
  BY InvAlways, InvPairKept, PTL

\* For any settings, limit of the CA and bounds: an order the CA refuses for its rate came when some
\* order had no entry in the ledger, a renewal was due or told to be, and an order finds its port free
\* and its challenge answered, and leaves no port or challenge behind, nor a lease unless the grant or
\* the report was lost or the process crashed (check_budget, run_order, ari_window).
THEOREM OrdersAccounted == CertSpec => []OrdersKept
  BY InvAlways, InvOrdersKept, PTL

\* A self-signed certificate renewed without rotation keeps its key: the key on disk changes only
\* where there was none, a publication was cut short, or the renewal that is being published could not
\* read it and made a new one (selfsigned::renew, publish_pair).
THEOREM PinnedKeyKept == CertSpec => KeyKept
<1>1. ASSUME CertInv, [CertNext]_certVars
      PROVE  set.self_signed /\ ~set.acme /\ ~set.rotate /\ ~disk.torn
                => \/ disk.key' = disk.key \/ disk.key = NoFile
                   \/ disk.cert # NoFile /\ Cert(disk.cert).how = "rekeyed"
  <2>1. Shape /\ Files
    BY <1>1 DEF CertInv
  <2>2. disk \in DiskType /\ (set.operator => ~set.self_signed)
    BY <2>1, OperatorAlone DEF Shape
  <2>3. CASE PutKey
    <3>1. task.pc = "put_key" /\ (disk'.key = disk.key \/ disk'.key = Cert(task.new).key)
      BY <2>2, <2>3 DEF PutKey, Changed, DiskType
    <3>2. disk.cert = task.new /\ task.new # NoFile
      BY <1>1, <2>1, <3>1 DEF Files, CertInv, Place, Putting
    <3> QED
      BY <2>1, <3>1, <3>2 DEF Files, Putting
  <2>4. CASE ReplaceKey
    BY <2>2, <2>4 DEF ReplaceKey
  <2>5. CASE disk' = disk
    BY <2>5
  <2>6. ASSUME [CertNext]_certVars, ~PutKey, ~ReplaceKey
        PROVE  disk' = disk \/ disk'.key = disk.key
    <3>1. CASE Stage \/ Aside \/ PutCert \/ Undo \/ Restore \/ Crash \/ ReplaceCert
      BY <2>2, <3>1 DEF Stage, Aside, PutCert, Undo, Restore, Crash, ReplaceCert, Changed, DiskType
    <3>2. CASE UNCHANGED certVars
      BY <3>2 DEF certVars
    <3>3. CASE ~(Stage \/ Aside \/ PutCert \/ Undo \/ Restore \/ Crash \/ ReplaceCert) /\ CertNext
      BY <2>6, <3>3 DEF CertNext, Working, Watching, Start, Ensure, LoadCert, LoadKey, Listen, Lease, Ledger,
         NewOrder, Challenge, Validate, Settle, Outcome, Wake, AgainKey, Check, Window, Decide, Done,
         TakeEvent, Settled, WatchedKey, Tick
    <3> QED
      BY <2>6, <3>1, <3>2, <3>3
  <2> QED
    BY <1>1, <2>3, <2>4, <2>5, <2>6
<1> QED
  BY <1>1, InvAlways, PTL DEF CertSpec, KeyKept

----------------------------------------------------------------------------
(* The clients that the edge opens (Outbound). *)

ClientFields == {"section", "build", "pair", "cfg", "held", "live"}

\* A client is one that its configuration asks for.
IsClient(k) == /\ DOMAIN k = ClientFields
               /\ k.cfg \in OutConfigs /\ k.section \in EnabledSet(k.cfg) /\ k.pair = PairOf(k.cfg, k.section)
               /\ k.build \in Nat

\* A client is told by its build and its section.
Apart(cs) == \A k, l \in cs : k.build = l.build /\ k.section = l.section => k = l

DraftOk == /\ DOMAIN draft = {"on", "cfg", "todo", "built"} /\ reads \in Nat
           /\ draft.on => draft.cfg \in OutConfigs /\ draft.todo \subseteq Enabled(draft.cfg)
           /\ ~draft.on => draft.built = {}
           /\ \A k \in draft.built : k = Built(k.section)
ClientsOk == /\ \A k \in clients : IsClient(k) /\ k.build <= reads /\ (draft.on => k.build < reads)
             /\ \A k \in draft.built : IsClient(k)
             /\ Apart(clients)
ClaimsOk == claims = ClaimsOf(clients \cup draft.built)
OutInv == DraftOk /\ ClientsOk /\ ClaimsOk /\ PresentsCurrent

\* The claims of clients.
LEMMA ClaimsAre ==
    ASSUME NEW cs, NEW x
    PROVE  x \in ClaimsOf(cs) <=> \E k \in cs : k.pair # "" /\ x = Claim(k)
  BY DEF ClaimsOf

\* A claim says which client it is of.
LEMMA ClaimTells ==
    ASSUME NEW k, NEW l
    PROVE  /\ Claim(k) = Claim(l) => k.build = l.build /\ k.section = l.section /\ k.pair = l.pair
           /\ k.build = l.build /\ k.section = l.section /\ k.pair = l.pair => Claim(k) = Claim(l)
  BY DEF Claim

\* The claims of two sets of clients.
LEMMA ClaimsOfBoth ==
    ASSUME NEW cs, NEW ds
    PROVE  ClaimsOf(cs \cup ds) = ClaimsOf(cs) \cup ClaimsOf(ds)
  BY DEF ClaimsOf

\* The claims of clients that are told apart go one by one.
LEMMA ClaimsWithout ==
    ASSUME NEW cs, NEW ds, \A k \in cs, l \in ds : ~(k.build = l.build /\ k.section = l.section)
    PROVE  ClaimsOf(cs \cup ds) \ ClaimsOf(ds) = ClaimsOf(cs)
<1>1. \A x : x \in ClaimsOf(cs) => x \notin ClaimsOf(ds)
  <2>1. SUFFICES ASSUME NEW x, x \in ClaimsOf(cs), x \in ClaimsOf(ds) PROVE FALSE
    OBVIOUS
  <2>2. PICK k \in cs : x = Claim(k)
    BY <2>1, ClaimsAre
  <2>3. PICK l \in ds : x = Claim(l)
    BY <2>1, ClaimsAre
  <2>4. k.build = l.build /\ k.section = l.section
    BY <2>2, <2>3, Zenon, ClaimTells
  <2> QED
    BY <2>4
<1> QED
  BY <1>1, ClaimsOfBoth

\* What a client is built as.
LEMMA BuiltIs ==
    ASSUME OutInv, draft.on, NEW i \in draft.todo
    PROVE  /\ IsClient(Built(Sections[i])) /\ Built(Sections[i]).build = reads
           /\ Built(Sections[i]).section = Sections[i]
<1>1. draft.cfg \in OutConfigs /\ i \in Enabled(draft.cfg) /\ reads \in Nat
  BY DEF OutInv, DraftOk
<1>2. Sections[i] \in EnabledSet(draft.cfg)
  BY <1>1 DEF EnabledSet
<1>3. PICK k : k = Built(Sections[i])
  OBVIOUS
<1>4. /\ DOMAIN k = ClientFields /\ k.section = Sections[i] /\ k.build = reads /\ k.pair = PairOf(draft.cfg, Sections[i])
      /\ k.cfg = draft.cfg
  BY <1>3 DEF Built, ClientFields
<1> QED
  BY <1>1, <1>2, <1>3, <1>4 DEF IsClient

\* The draft's clients are of its own build.
LEMMA DraftApart ==
    ASSUME OutInv
    PROVE  /\ \A k \in draft.built : k.build = reads
           /\ \A k \in clients, l \in draft.built : ~(k.build = l.build /\ k.section = l.section)
<1>1. ASSUME NEW k \in draft.built PROVE k.build = reads
  <2>1. k = Built(k.section)
    BY DEF OutInv, DraftOk
  <2>2. Built(k.section).build = reads
    BY DEF Built
  <2> QED
    BY <2>1, <2>2
<1>2. ASSUME NEW k \in clients, NEW l \in draft.built PROVE k.build # l.build
  <2>1. draft.on
    BY DEF OutInv, DraftOk
  <2>2. k.build < reads /\ reads \in Nat /\ k.build \in Nat
    BY <2>1 DEF OutInv, DraftOk, ClientsOk, IsClient
  <2> QED
    BY <1>1, <2>2
<1> QED
  BY <1>1, <1>2

\* It holds at first.
LEMMA OutFirst ==
    ASSUME OutInit
    PROVE  OutInv
<1>1. draft = NoDraft /\ clients = {} /\ claims = {} /\ reads = 0 /\ shown.gen = 0 /\ shown.current = 0
  BY DEF OutInit
<1>2. DOMAIN draft = {"on", "cfg", "todo", "built"} /\ draft.on = FALSE /\ draft.built = {}
  BY <1>1 DEF NoDraft
<1>3. ClaimsOf({}) = {}
  BY DEF ClaimsOf
<1> QED
  BY <1>1, <1>2, <1>3 DEF OutInv, DraftOk, ClientsOk, Apart, ClaimsOk, PresentsCurrent

\* A build that is dropped.
LEMMA DropStep ==
    ASSUME OutInv, draft' = NoDraft, claims' = claims \ ClaimsOf(draft.built), UNCHANGED <<clients, reads, shown>>
    PROVE  OutInv'
<1>1. DOMAIN draft' = {"on", "cfg", "todo", "built"} /\ draft'.on = FALSE /\ draft'.built = {}
  BY DEF NoDraft
<1>2. DraftOk'
  BY <1>1 DEF OutInv, DraftOk
<1>3. ClientsOk'
  BY <1>1 DEF OutInv, ClientsOk
<1>4. claims' = ClaimsOf(clients)
  BY DraftApart, ClaimsWithout DEF OutInv, ClaimsOk
<1>5. ClaimsOk'
  BY <1>1, <1>4 DEF ClaimsOk
<1> QED
  BY <1>2, <1>3, <1>5 DEF OutInv, PresentsCurrent

\* A build begins.
LEMMA BeginBuildStep ==
    ASSUME OutInv, BeginBuild
    PROVE  OutInv'
<1>1. /\ ~draft.on /\ reads' = reads + 1 /\ clients' = clients /\ claims' = claims /\ shown' = shown
      /\ draft.built = {} /\ reads \in Nat
  BY DEF BeginBuild, OutInv, DraftOk
<1>2. \A k \in clients : k.build < reads' /\ k.build <= reads' /\ IsClient(k)
  <2>1. SUFFICES ASSUME NEW k \in clients PROVE k.build < reads' /\ k.build <= reads' /\ IsClient(k)
    OBVIOUS
  <2>2. k.build \in Nat /\ k.build <= reads /\ IsClient(k)
    BY DEF OutInv, ClientsOk, IsClient
  <2> QED
    BY <1>1, <2>2
<1>3. DOMAIN draft' = {"on", "cfg", "todo", "built"} /\ draft'.built = {}
      /\ (draft'.on => draft'.cfg \in OutConfigs /\ draft'.todo \subseteq Enabled(draft'.cfg))
  <2>1. PICK c \in OutConfigs :
          \/ draft' = [on |-> TRUE, cfg |-> c, built |-> {}, todo |-> {i \in Enabled(c) : phase = "serving" => Sections[i] \notin Once}]
          \/ draft' = draft
    BY DEF BeginBuild
  <2>2. CASE draft' = draft
    BY <1>1, <2>2 DEF OutInv, DraftOk
  <2>3. CASE draft' = [on |-> TRUE, cfg |-> c, built |-> {}, todo |-> {i \in Enabled(c) : phase = "serving" => Sections[i] \notin Once}]
    <3>1. DOMAIN draft' = {"on", "cfg", "todo", "built"} /\ draft'.built = {} /\ draft'.cfg = c
          /\ draft'.todo = {i \in Enabled(c) : phase = "serving" => Sections[i] \notin Once}
      BY <2>3
    <3> QED
      BY <3>1
  <2> QED
    BY <2>1, <2>2, <2>3
<1>4. DraftOk'
  BY <1>1, <1>3 DEF DraftOk
<1>5. ClientsOk'
  BY <1>1, <1>2, <1>3 DEF OutInv, ClientsOk
<1>6. ClaimsOk'
  BY <1>1, <1>3 DEF OutInv, ClaimsOk
<1> QED
  BY <1>1, <1>4, <1>5, <1>6 DEF OutInv, PresentsCurrent

\* A client is built, or the build dropped.
LEMMA BuildClientStep ==
    ASSUME OutInv, BuildClient
    PROVE  OutInv'
<1>1. PICK i \in draft.todo :
        \/ /\ draft' = [draft EXCEPT !.todo = @ \ {i}, !.built = @ \cup {Built(Sections[i])}]
           /\ claims' = claims \cup ClaimsOf({Built(Sections[i])})
        \/ draft' = NoDraft /\ DropDraft
  BY Zenon DEF BuildClient
<1>2. draft.on /\ UNCHANGED <<clients, reads, shown>>
  BY DEF BuildClient
<1>3. CASE draft' = NoDraft /\ DropDraft
  BY <1>2, <1>3, DropStep DEF DropDraft
<1>4. CASE /\ draft' = [draft EXCEPT !.todo = @ \ {i}, !.built = @ \cup {Built(Sections[i])}]
           /\ claims' = claims \cup ClaimsOf({Built(Sections[i])})
  <2>1. PICK b : b = Built(Sections[i])
    OBVIOUS
  <2>2. IsClient(b) /\ b.build = reads /\ b.section = Sections[i]
    BY <1>2, <2>1, BuiltIs
  <2>3. PICK todo, built : todo = draft.todo \ {i} /\ built = draft.built \cup {b}
    OBVIOUS
  <2>4. draft' = [draft EXCEPT !.todo = todo, !.built = built]
    BY <1>4, <2>1, <2>3
  <2>5. /\ DOMAIN draft' = {"on", "cfg", "todo", "built"} /\ draft'.on = draft.on /\ draft'.cfg = draft.cfg
        /\ draft'.todo = todo /\ draft'.built = built
    BY <2>4 DEF OutInv, DraftOk
  <2>6. ASSUME NEW s PROVE Built(s)' = Built(s)
    BY <1>2, <2>5 DEF Built
  <2>7. \A k \in built : k = Built(k.section)
    BY <2>1, <2>2, <2>3 DEF OutInv, DraftOk
  <2>8. DraftOk'
    <3>1. ASSUME NEW k \in draft'.built PROVE k = Built(k.section)'
      BY <2>5, <2>6, <2>7
    <3>2. /\ draft'.cfg \in OutConfigs /\ draft'.todo \subseteq Enabled(draft'.cfg) /\ draft'.on
          /\ reads' \in Nat
      BY <1>2, <2>3, <2>5 DEF OutInv, DraftOk
    <3> QED
      BY <2>5, <3>1, <3>2 DEF DraftOk
  <2>9. ClientsOk'
    BY <1>2, <2>2, <2>3, <2>5 DEF OutInv, ClientsOk
  <2>10. ClaimsOk'
    <3>1. claims' = ClaimsOf(clients \cup draft.built) \cup ClaimsOf({b})
      BY <1>4, <2>1 DEF OutInv, ClaimsOk
    <3>2. claims' = ClaimsOf((clients \cup draft.built) \cup {b})
      BY <3>1, ClaimsOfBoth
    <3>3. (clients \cup draft.built) \cup {b} = clients' \cup draft'.built
      BY <1>2, <2>3, <2>5
    <3> QED
      BY <3>2, <3>3 DEF ClaimsOk
  <2> QED
    BY <1>2, <2>8, <2>9, <2>10 DEF OutInv, PresentsCurrent
<1> QED
  BY <1>1, <1>3, <1>4

\* A runtime is published.
LEMMA PublishStep ==
    ASSUME OutInv, Publish
    PROVE  OutInv'
<1> DEFINE Retired(k) == IF k.section \in Once THEN k ELSE [k EXCEPT !.live = FALSE]
<1>1. /\ draft.on /\ clients' = {Retired(k) : k \in clients} \cup draft.built
      /\ draft' = NoDraft /\ UNCHANGED <<claims, reads, shown>>
  BY DEF Publish
<1>2. DOMAIN draft' = {"on", "cfg", "todo", "built"} /\ draft'.on = FALSE /\ draft'.built = {}
  BY <1>1 DEF NoDraft
<1>3. DraftOk'
  BY <1>1, <1>2 DEF OutInv, DraftOk
<1>4. ASSUME NEW k \in clients
      PROVE  /\ Retired(k).build = k.build /\ Retired(k).section = k.section /\ Retired(k).pair = k.pair
             /\ IsClient(Retired(k)) /\ Retired(k).build <= reads
  <2>1. IsClient(k) /\ k.build <= reads
    BY DEF OutInv, ClientsOk
  <2>2. /\ Retired(k).build = k.build /\ Retired(k).section = k.section /\ Retired(k).pair = k.pair /\ Retired(k).cfg = k.cfg
        /\ DOMAIN Retired(k) = ClientFields
    BY <2>1 DEF IsClient, ClientFields
  <2> HIDE DEF Retired
  <2> QED
    BY <2>1, <2>2 DEF IsClient
<1> HIDE DEF Retired
<1>5. ASSUME NEW k \in draft.built PROVE IsClient(k) /\ k.build = reads /\ k.build <= reads
  BY DraftApart DEF OutInv, DraftOk, ClientsOk
<1>6. Apart(clients')
  <2>1. SUFFICES ASSUME NEW k \in clients', NEW l \in clients', k.build = l.build, k.section = l.section PROVE k = l
    BY DEF Apart
  <2>2. \/ k \in draft.built
        \/ \E x \in clients : k = Retired(x)
    BY <1>1
  <2>3. \/ l \in draft.built
        \/ \E y \in clients : l = Retired(y)
    BY <1>1
  <2>4. CASE k \in draft.built /\ l \in draft.built
    <3>1. k = Built(k.section) /\ l = Built(l.section)
      BY <2>4 DEF OutInv, DraftOk
    <3> QED
      BY <2>1, <3>1
  <2>5. ASSUME k \in draft.built, NEW y \in clients, l = Retired(y) PROVE FALSE
    BY <1>4, <2>1, <2>5, DraftApart
  <2>6. ASSUME l \in draft.built, NEW x \in clients, k = Retired(x) PROVE FALSE
    BY <1>4, <2>1, <2>6, DraftApart
  <2>7. ASSUME NEW x \in clients, k = Retired(x), NEW y \in clients, l = Retired(y) PROVE k = l
    <3>1. x.build = y.build /\ x.section = y.section
      BY <1>4, <2>1, <2>7
    <3>2. x = y
      BY <3>1 DEF OutInv, ClientsOk, Apart
    <3> QED
      BY <2>7, <3>2
  <2> QED
    BY <2>2, <2>3, <2>4, <2>5, <2>6, <2>7
<1>7. ClientsOk'
  <2>1. ASSUME NEW k \in clients' PROVE IsClient(k) /\ k.build <= reads
    BY <1>1, <1>4, <1>5
  <2> QED
    BY <1>1, <1>2, <1>6, <2>1 DEF ClientsOk
<1>8. ClaimsOk'
  <2>1. ClaimsOf({Retired(k) : k \in clients}) = ClaimsOf(clients)
    <3>1. ASSUME NEW k \in clients PROVE Claim(Retired(k)) = Claim(k) /\ (Retired(k).pair # "" <=> k.pair # "")
      BY <1>4, ClaimTells
    <3>2. \A x : x \in ClaimsOf({Retired(k) : k \in clients}) <=> x \in ClaimsOf(clients)
      <4>1. SUFFICES ASSUME NEW x PROVE x \in ClaimsOf({Retired(k) : k \in clients}) <=> x \in ClaimsOf(clients)
        OBVIOUS
      <4>2. x \in ClaimsOf({Retired(k) : k \in clients}) <=> \E k \in clients : Retired(k).pair # "" /\ x = Claim(Retired(k))
        <5>1. PICK cs : cs = {Retired(k) : k \in clients}
          OBVIOUS
        <5>2. x \in ClaimsOf(cs) <=> \E l \in cs : l.pair # "" /\ x = Claim(l)
          BY ClaimsAre
        <5>3. \A l : l \in cs <=> \E k \in clients : l = Retired(k)
          BY <5>1
        <5>4. (\E l \in cs : l.pair # "" /\ x = Claim(l)) <=> \E k \in clients : Retired(k).pair # "" /\ x = Claim(Retired(k))
          BY <5>3, Zenon
        <5> QED
          BY <5>1, <5>2, <5>4
      <4>3. x \in ClaimsOf(clients) <=> \E k \in clients : k.pair # "" /\ x = Claim(k)
        BY ClaimsAre
      <4> QED
        BY <3>1, <4>2, <4>3
    <3> QED
      BY <3>2
  <2>2. claims' = ClaimsOf(clients) \cup ClaimsOf(draft.built)
    BY <1>1, ClaimsOfBoth DEF OutInv, ClaimsOk
  <2>3. ClaimsOf(clients') = ClaimsOf({Retired(k) : k \in clients}) \cup ClaimsOf(draft.built)
    BY <1>1, ClaimsOfBoth
  <2> QED
    BY <1>2, <2>1, <2>2, <2>3 DEF ClaimsOk
<1> QED
  BY <1>1, <1>3, <1>7, <1>8 DEF OutInv, PresentsCurrent

\* The last holder lets go of a client.
LEMMA ReleaseStep ==
    ASSUME OutInv, Release
    PROVE  OutInv'
<1>1. PICK k \in clients : clients' = clients \ {k} /\ claims' = claims \ ClaimsOf({k})
  BY DEF Release
<1>2. UNCHANGED <<draft, reads, shown>>
  BY DEF Release
<1>3. DraftOk'
  <2>1. \A s : Built(s)' = Built(s)
    BY <1>2 DEF Built
  <2> QED
    BY <1>2, <2>1 DEF OutInv, DraftOk
<1>4. ClientsOk'
  BY <1>1, <1>2 DEF OutInv, ClientsOk, Apart
<1>5. claims' = ClaimsOf((clients \ {k}) \cup draft.built)
  <2> DEFINE cs == (clients \ {k}) \cup draft.built
  <2>1. \A x \in cs, l \in {k} : ~(x.build = l.build /\ x.section = l.section)
    BY DraftApart DEF OutInv, ClientsOk, Apart
  <2>2. cs \cup {k} = clients \cup draft.built
    OBVIOUS
  <2> HIDE DEF cs
  <2>3. ClaimsOf(cs \cup {k}) \ ClaimsOf({k}) = ClaimsOf(cs)
    BY <2>1, ClaimsWithout
  <2>4. claims' = ClaimsOf(cs)
    BY <1>1, <2>2, <2>3 DEF OutInv, ClaimsOk
  <2> QED
    BY <2>4 DEF cs
<1> QED
  BY <1>1, <1>2, <1>3, <1>4, <1>5 DEF OutInv, ClaimsOk, PresentsCurrent

\* A request of a client.
LEMMA AskStep ==
    ASSUME OutInv, Ask
    PROVE  OutInv'
<1>0. PICK k \in clients, fresh \in BOOLEAN : \E gen, held :
        /\ k.pair # "" /\ (~fresh => PoolsOf(k))
        /\ gen = IF fresh THEN stores[k.pair] ELSE k.held
        /\ shown' = [by |-> k.section, gen |-> gen, current |-> stores[k.pair], fresh |-> fresh]
        /\ clients' = (clients \ {k}) \cup {[k EXCEPT !.held = held]}
  BY DEF Ask
<1>1. PICK gen, held :
        /\ k.pair # "" /\ (~fresh => PoolsOf(k))
        /\ gen = IF fresh THEN stores[k.pair] ELSE k.held
        /\ shown' = [by |-> k.section, gen |-> gen, current |-> stores[k.pair], fresh |-> fresh]
        /\ clients' = (clients \ {k}) \cup {[k EXCEPT !.held = held]}
  BY <1>0
<1>2. UNCHANGED <<draft, claims, reads>>
  BY DEF Ask
<1>3. PICK h : h = [k EXCEPT !.held = held]
  OBVIOUS
<1>4. IsClient(k) /\ k.build <= reads /\ (draft.on => k.build < reads)
  BY DEF OutInv, ClientsOk
<1>5. /\ h.build = k.build /\ h.section = k.section /\ h.pair = k.pair /\ h.cfg = k.cfg /\ DOMAIN h = ClientFields
  BY <1>3, <1>4 DEF IsClient, ClientFields
<1>6. IsClient(h) /\ h.build <= reads /\ (draft.on => h.build < reads)
  BY <1>4, <1>5 DEF IsClient
<1>7. clients' = (clients \ {k}) \cup {h}
  BY <1>1, <1>3
<1>8. DraftOk'
  <2>1. \A s : Built(s)' = Built(s)
    BY <1>2 DEF Built
  <2> QED
    BY <1>2, <2>1 DEF OutInv, DraftOk
<1>9. Apart(clients')
  BY <1>5, <1>7 DEF OutInv, ClientsOk, Apart
<1>10. ClientsOk'
  <2>1. \A x \in clients' : IsClient(x) /\ x.build <= reads /\ (draft.on => x.build < reads)
    BY <1>6, <1>7 DEF OutInv, ClientsOk
  <2> QED
    BY <1>2, <1>9, <2>1 DEF OutInv, ClientsOk
<1>11. ClaimsOk'
  <2>1. Claim(h) = Claim(k)
    BY <1>5, ClaimTells
  <2>2. \A x : x \in ClaimsOf(clients' \cup draft.built) <=> x \in ClaimsOf(clients \cup draft.built)
    <3>1. SUFFICES ASSUME NEW x PROVE x \in ClaimsOf(clients' \cup draft.built) <=> x \in ClaimsOf(clients \cup draft.built)
      OBVIOUS
    <3>2. x \in ClaimsOf(clients' \cup draft.built) <=> \E c \in clients' \cup draft.built : c.pair # "" /\ x = Claim(c)
      BY ClaimsAre
    <3>3. x \in ClaimsOf(clients \cup draft.built) <=> \E c \in clients \cup draft.built : c.pair # "" /\ x = Claim(c)
      BY ClaimsAre
    <3> QED
      BY <1>5, <1>7, <2>1, <3>2, <3>3
  <2> QED
    BY <1>2, <2>2 DEF OutInv, ClaimsOk
<1>12. PresentsCurrent'
  <2>1. shown'.by = k.section /\ shown'.gen = gen /\ shown'.current = stores[k.pair] /\ shown'.fresh = fresh
    BY <1>1
  <2>2. k.section \notin Upstreams => fresh
    BY <1>1 DEF PoolsOf
  <2>3. fresh => gen = stores[k.pair]
    BY <1>1
  <2> QED
    BY <2>1, <2>2, <2>3 DEF PresentsCurrent
<1> QED
  BY <1>8, <1>10, <1>11, <1>12 DEF OutInv

\* Files, watchers and stores do not change clients.
LEMMA OtherSteps ==
    ASSUME OutInv, UNCHANGED <<draft, clients, claims, reads, shown>>
    PROVE  OutInv'
<1>1. \A s : Built(s)' = Built(s)
  BY DEF Built
<1> QED
  BY <1>1 DEF OutInv, DraftOk, ClientsOk, ClaimsOk, PresentsCurrent

\* What [outbound] changes of a section's settings.
LEMMA SettingsAre ==
    ASSUME NEW c \in OutConfigs, NEW s
    PROVE  LET bare == SettingsOf(WithoutDefaults(c), s)
               all == SettingsOf(c, s)
               own == c.of[s]
           IN /\ bare = [trust |-> IF own.ca # "" THEN {own.ca} ELSE {"public"}, pair |-> own.pair, proxy |-> own.proxy]
              /\ s \in Upstreams => all = bare
              /\ s \notin Upstreams =>
                   all = [trust |-> IF own.ca # "" THEN {own.ca}
                                    ELSE {"public"} \cup (IF own.https /\ c.extra # "" THEN {c.extra} ELSE {}),
                          pair |-> IF own.pair # "" THEN own.pair ELSE IF own.https THEN c.pair ELSE "",
                          proxy |-> IF own.proxy = "" THEN c.proxy ELSE own.proxy]
<1>1. PICK w : w = WithoutDefaults(c)
  OBVIOUS
<1>2. w.of = c.of /\ w.extra = "" /\ w.pair = "" /\ w.proxy = ""
  BY <1>1, OutboundAssumption DEF WithoutDefaults
<1>3. Defaults(w, s) = [extra |-> "", pair |-> "", proxy |-> ""]
  BY <1>2 DEF Defaults
<1>4. SettingsOf(w, s) = [trust |-> IF c.of[s].ca # "" THEN {c.of[s].ca} ELSE {"public"}, pair |-> c.of[s].pair, proxy |-> c.of[s].proxy]
  <2>0. w.of[s] = c.of[s] /\ Defaults(w, s).extra = "" /\ Defaults(w, s).pair = "" /\ Defaults(w, s).proxy = ""
    <3>1. PICK none : none = ""
      OBVIOUS
    <3>2. Defaults(w, s) = [extra |-> none, pair |-> none, proxy |-> none]
      BY <1>3, <3>1, Zenon
    <3>3. Defaults(w, s).extra = none /\ Defaults(w, s).pair = none /\ Defaults(w, s).proxy = none
      BY <3>2
    <3> QED
      BY <1>2, <3>1, <3>3
  <2>1. TrustOf(w, s) = IF c.of[s].ca # "" THEN {c.of[s].ca} ELSE {"public"}
    BY <2>0 DEF TrustOf
  <2>2. PairOf(w, s) = c.of[s].pair
    BY <2>0 DEF PairOf
  <2>3. ProxyOf(w, s) = c.of[s].proxy
    BY <2>0 DEF ProxyOf
  <2> QED
    BY <2>1, <2>2, <2>3 DEF SettingsOf
<1>5. ASSUME s \in Upstreams
      PROVE  SettingsOf(c, s) = SettingsOf(w, s)
  <2>1. Defaults(c, s) = [extra |-> "", pair |-> "", proxy |-> ""]
    BY <1>5 DEF Defaults
  <2>2. TrustOf(c, s) = TrustOf(w, s)
    BY <1>2, <1>3, <2>1 DEF TrustOf
  <2>3. PairOf(c, s) = PairOf(w, s)
    BY <1>2, <1>3, <2>1 DEF PairOf
  <2>4. ProxyOf(c, s) = ProxyOf(w, s)
    BY <1>2, <1>3, <2>1 DEF ProxyOf
  <2> QED
    BY <2>2, <2>3, <2>4 DEF SettingsOf
<1>6. ASSUME s \notin Upstreams
      PROVE  SettingsOf(c, s) =
               [trust |-> IF c.of[s].ca # "" THEN {c.of[s].ca}
                          ELSE {"public"} \cup (IF c.of[s].https /\ c.extra # "" THEN {c.extra} ELSE {}),
                pair |-> IF c.of[s].pair # "" THEN c.of[s].pair ELSE IF c.of[s].https THEN c.pair ELSE "",
                proxy |-> IF c.of[s].proxy = "" THEN c.proxy ELSE c.of[s].proxy]
  <2>1. Defaults(c, s) = [extra |-> c.extra, pair |-> c.pair, proxy |-> c.proxy]
    BY <1>6 DEF Defaults
  <2>2. Defaults(c, s).extra = c.extra /\ Defaults(c, s).pair = c.pair /\ Defaults(c, s).proxy = c.proxy
    BY <2>1
  <2> QED
    BY <2>2 DEF SettingsOf, TrustOf, PairOf, ProxyOf
<1> QED
  BY <1>1, <1>4, <1>5, <1>6

Keeps(bare, all) == /\ bare.trust \subseteq all.trust
                    /\ bare.trust # {"public"} => all.trust = bare.trust
                    /\ bare.pair # "" => all.pair = bare.pair
                    /\ bare.proxy # "" => all.proxy = bare.proxy
Tells(c, s, bare, all) == /\ s \in Upstreams => all = bare
                          /\ s \notin Upstreams => (Inherited(c, s) # {} <=> all # bare)
                          /\ all.pair = PairOf(c, s) /\ bare.pair = c.of[s].pair

\* A client keeps what its section says, and is told of what it takes from [outbound].
LEMMA ClientHolds ==
    ASSUME NEW c \in OutConfigs, NEW s, NEW bare, NEW all,
           bare = SettingsOf(WithoutDefaults(c), s), all = SettingsOf(c, s)
    PROVE  Keeps(bare, all) /\ Tells(c, s, bare, all)
<1>1. PICK own : own = c.of[s]
  OBVIOUS
<1>2. /\ bare = [trust |-> IF own.ca # "" THEN {own.ca} ELSE {"public"}, pair |-> own.pair, proxy |-> own.proxy]
      /\ s \in Upstreams => all = bare
      /\ s \notin Upstreams =>
           all = [trust |-> IF own.ca # "" THEN {own.ca}
                            ELSE {"public"} \cup (IF own.https /\ c.extra # "" THEN {c.extra} ELSE {}),
                  pair |-> IF own.pair # "" THEN own.pair ELSE IF own.https THEN c.pair ELSE "",
                  proxy |-> IF own.proxy = "" THEN c.proxy ELSE own.proxy]
  BY <1>1, SettingsAre
<1>3. c.extra # "public"
  BY OutboundAssumption
<1>4. bare.trust = (IF own.ca # "" THEN {own.ca} ELSE {"public"}) /\ bare.pair = own.pair /\ bare.proxy = own.proxy
  <2>1. PICK roots : roots = IF own.ca # "" THEN {own.ca} ELSE {"public"}
    OBVIOUS
  <2>2. bare = [trust |-> roots, pair |-> own.pair, proxy |-> own.proxy]
    BY <1>2, <2>1, Zenon
  <2>3. bare.trust = roots /\ bare.pair = own.pair /\ bare.proxy = own.proxy
    BY <2>2
  <2> QED
    BY <2>1, <2>3
<1>5. all.pair = PairOf(c, s)
  BY DEF SettingsOf
<1>6. CASE s \in Upstreams
  BY <1>1, <1>2, <1>4, <1>5, <1>6 DEF Keeps, Tells
<1>7. CASE s \notin Upstreams
  <2>1. /\ all.trust = IF own.ca # "" THEN {own.ca}
                       ELSE {"public"} \cup (IF own.https /\ c.extra # "" THEN {c.extra} ELSE {})
        /\ all.pair = IF own.pair # "" THEN own.pair ELSE IF own.https THEN c.pair ELSE ""
        /\ all.proxy = IF own.proxy = "" THEN c.proxy ELSE own.proxy
    <3>1. PICK roots, pair, proxy :
            /\ roots = IF own.ca # "" THEN {own.ca}
                       ELSE {"public"} \cup (IF own.https /\ c.extra # "" THEN {c.extra} ELSE {})
            /\ pair = IF own.pair # "" THEN own.pair ELSE IF own.https THEN c.pair ELSE ""
            /\ proxy = IF own.proxy = "" THEN c.proxy ELSE own.proxy
      OBVIOUS
    <3>2. all = [trust |-> roots, pair |-> pair, proxy |-> proxy]
      BY <1>2, <1>7, <3>1, Zenon
    <3>3. all.trust = roots /\ all.pair = pair /\ all.proxy = proxy
      BY <3>2
    <3> QED
      BY <3>1, <3>3
  <2>2. all # bare <=> all.trust # bare.trust \/ all.pair # bare.pair \/ all.proxy # bare.proxy
    <3>2. all = [trust |-> all.trust, pair |-> all.pair, proxy |-> all.proxy]
      BY <1>2, <1>7
    <3>3. bare = [trust |-> bare.trust, pair |-> bare.pair, proxy |-> bare.proxy]
      BY <1>2
    <3> QED
      BY <3>2, <3>3
  <2>3. all.trust # bare.trust <=> c.extra # "" /\ own.ca = "" /\ own.https
    BY <1>3, <1>4, <2>1
  <2>4. all.pair # bare.pair <=> own.pair = "" /\ own.https /\ c.pair # ""
    BY <1>4, <2>1
  <2>5. all.proxy # bare.proxy <=> own.proxy = "" /\ c.proxy # ""
    BY <1>4, <2>1
  <2>6. Inherited(c, s) # {} <=> \/ c.extra # "" /\ own.ca = "" /\ own.https
                                 \/ own.pair = "" /\ own.https /\ c.pair # ""
                                 \/ own.proxy = "" /\ c.proxy # ""
    <3>1. "extra_ca_path" \in Inherited(c, s) <=> c.extra # "" /\ own.ca = "" /\ own.https
      BY <1>1 DEF Inherited
    <3>2. "client_cert_path" \in Inherited(c, s) <=> own.pair = "" /\ own.https /\ c.pair # ""
      BY <1>1 DEF Inherited
    <3>3. "proxy" \in Inherited(c, s) <=> own.proxy = "" /\ c.proxy # ""
      BY <1>1 DEF Inherited
    <3>4. Inherited(c, s) \subseteq {"extra_ca_path", "client_cert_path", "proxy"}
      BY DEF Inherited
    <3> QED
      BY <3>1, <3>2, <3>3, <3>4
  <2>7. Inherited(c, s) # {} <=> all # bare
    BY <2>2, <2>3, <2>4, <2>5, <2>6
  <2> QED
    BY <1>1, <1>4, <1>5, <1>7, <2>1, <2>7 DEF Keeps, Tells
<1> QED
  BY <1>6, <1>7

\* What the invariant says of the clients.
LEMMA OutInvGives ==
    ASSUME OutInv
    PROVE  ClientsAsConfigured
<1>1. ReportedIsPresented
  BY DEF OutInv, ClaimsOk, ReportedIsPresented, InUse
<1>2. OwnSettingsHold
  <2>1. SUFFICES ASSUME NEW k \in clients, NEW bare, NEW all,
                        bare = SettingsOf(WithoutDefaults(k.cfg), k.section), all = SettingsOf(k.cfg, k.section)
                 PROVE  /\ bare.trust \subseteq all.trust
                        /\ bare.trust # {"public"} => all.trust = bare.trust
                        /\ bare.pair # "" => all.pair = bare.pair
                        /\ bare.proxy # "" => all.proxy = bare.proxy
    BY Zenon DEF OwnSettingsHold
  <2>2. k.cfg \in OutConfigs
    BY DEF OutInv, ClientsOk, IsClient
  <2>3. Keeps(bare, all)
    BY <2>1, <2>2, ClientHolds
  <2> QED
    BY <2>3 DEF Keeps
<1>3. OutboundToldTrue
  <2>1. SUFFICES ASSUME NEW k \in clients
                 PROVE  /\ k.section \in Inheritors(k.cfg)
                             <=> SettingsOf(k.cfg, k.section) # SettingsOf(WithoutDefaults(k.cfg), k.section)
                        /\ k.pair # "" => k.pair \in ClientCertPaths(k.cfg)
    BY Zenon DEF OutboundToldTrue
  <2>2. k.cfg \in OutConfigs /\ k.section \in EnabledSet(k.cfg) /\ k.pair = PairOf(k.cfg, k.section)
    BY DEF OutInv, ClientsOk, IsClient
  <2>3. PICK c, s : c = k.cfg /\ s = k.section
    OBVIOUS
  <2>4. PICK bare, all : bare = SettingsOf(WithoutDefaults(c), s) /\ all = SettingsOf(c, s)
    OBVIOUS
  <2>5. /\ s \in Upstreams => all = bare
        /\ s \notin Upstreams => (Inherited(c, s) # {} <=> all # bare)
        /\ all.pair = PairOf(c, s) /\ bare.pair = c.of[s].pair
    <3>1. Tells(c, s, bare, all)
      BY <2>2, <2>3, <2>4, ClientHolds
    <3> QED
      BY <3>1 DEF Tells
  <2>6. s \in Inheritors(c) <=> s \notin Upstreams /\ Inherited(c, s) # {}
    BY <2>2, <2>3 DEF Inheritors
  <2>7. s \in Inheritors(c) <=> all # bare
    BY <2>5, <2>6
  <2>8. ASSUME k.pair # "" PROVE k.pair \in ClientCertPaths(c)
    <3>1. CASE s \in Upstreams
      <4>1. k.pair = c.of[s].pair
        BY <2>2, <2>3, <2>5, <3>1
      <4> QED
        BY <2>8, <3>1, <4>1 DEF ClientCertPaths
    <3>2. CASE s \notin Upstreams
      BY <2>2, <2>3, <2>8, <3>2 DEF ClientCertPaths
    <3> QED
      BY <3>1, <3>2
  <2> QED
    BY <2>3, <2>4, <2>7, <2>8
<1> QED
  BY <1>1, <1>2, <1>3 DEF OutInv, ClientsAsConfigured

\* Every client of the edge (src/outbound.rs) keeps what its own section says of its CA, its certificate
\* and its proxy; what it takes from [outbound] is told; it presents the certificate last read; and it
\* is reported for as long as it lives, through reloads that fail midway.
THEOREM ClientsAreAsConfigured == OutSpec => []ClientsAsConfigured
<1>1. OutInit => OutInv
  BY OutFirst
<1>2. OutInv /\ [OutNext]_outVars => OutInv'
  <2>1. SUFFICES ASSUME OutInv, [OutNext]_outVars PROVE OutInv'
    OBVIOUS
  <2>2. CASE WatchIdentities
    BY <2>1, <2>2, OtherSteps DEF WatchIdentities
  <2>3. CASE Replace
    BY <2>1, <2>3, OtherSteps DEF Replace
  <2>4. CASE \E p \in Pairs : Reread(p)
    BY <2>1, <2>4, OtherSteps DEF Reread
  <2>5. CASE UNCHANGED outVars
    BY <2>1, <2>5, OtherSteps DEF outVars
  <2> QED
    BY <2>1, <2>2, <2>3, <2>4, <2>5, BeginBuildStep, BuildClientStep, PublishStep, ReleaseStep, AskStep DEF OutNext
<1>3. OutInv => ClientsAsConfigured
  BY OutInvGives
<1> QED
  BY <1>1, <1>2, <1>3, PTL DEF OutSpec

----------------------------------------------------------------------------
(* The connections to upstreams. *)

\* A sequence is one over a larger set too.
LEMMA SeqWider ==
    ASSUME NEW S, NEW T, NEW s \in Seq(S), S \subseteq T
    PROVE  s \in Seq(T)
<1>1. Len(s) \in Nat /\ s \in [1..Len(s) -> S]
  BY LenProperties
<1>2. s \in [1..Len(s) -> T]
  BY <1>1
<1> QED
  BY <1>1, <1>2

\* A piece of a sequence.
LEMMA Piece ==
    ASSUME NEW S, NEW s \in Seq(S), NEW m \in Nat, NEW n \in Nat, n <= Len(s)
    PROVE  /\ SubSeq(s, m + 1, n) \in Seq(S)
           /\ Len(SubSeq(s, m + 1, n)) = IF m < n THEN n - m ELSE 0
           /\ \A i \in 1..(n - m) : SubSeq(s, m + 1, n)[i] = s[m + i]
<1>1. \A i \in (m + 1)..n : s[i] \in S
  BY LenProperties
<1>2. /\ SubSeq(s, m + 1, n) \in Seq(S)
      /\ Len(SubSeq(s, m + 1, n)) = IF m + 1 <= n THEN n - (m + 1) + 1 ELSE 0
      /\ \A i \in 1..(n - (m + 1) + 1) : SubSeq(s, m + 1, n)[i] = s[m + 1 + i - 1]
  BY <1>1, SubSeqProperties
<1>3. n - (m + 1) + 1 = n - m /\ (m + 1 <= n <=> m < n)
  OBVIOUS
<1>4. ASSUME NEW i \in 1..(n - m) PROVE m + 1 + i - 1 = m + i
  BY SMT
<1> QED
  BY <1>2, <1>3, <1>4

\* The first n of a sequence.
LEMMA HeadIs ==
    ASSUME NEW S, NEW s \in Seq(S), NEW n \in Nat
    PROVE  /\ Head0(s, n) \in Seq(S)
           /\ Len(Head0(s, n)) = IF n < Len(s) THEN n ELSE Len(s)
           /\ \A i \in 1..Len(Head0(s, n)) : Head0(s, n)[i] = s[i]
<1>1. PICK m \in Nat : m = (IF n < Len(s) THEN n ELSE Len(s)) /\ m <= Len(s)
  BY LenProperties
<1>2. Head0(s, n) = SubSeq(s, 1, m)
  BY <1>1 DEF Head0
<1>3. PICK h : h = SubSeq(s, 1, m)
  OBVIOUS
<1>4. h \in Seq(S) /\ Len(h) = m /\ \A i \in 1..m : h[i] = s[i]
  <2>1. \A i \in 1..m : s[i] \in S
    BY <1>1, LenProperties
  <2>2. h \in Seq(S) /\ Len(h) = (IF 1 <= m THEN m - 1 + 1 ELSE 0) /\ \A i \in 1..(m - 1 + 1) : h[i] = s[1 + i - 1]
    BY <1>3, <2>1, SubSeqProperties
  <2>3. m - 1 + 1 = m /\ \A i \in 1..m : 1 + i - 1 = i
    OBVIOUS
  <2> QED
    BY <2>2, <2>3
<1> QED
  BY <1>1, <1>2, <1>3, <1>4

\* The first m of text are found in the first n of s.
FoundIn(text, s, m, n) == \E i \in 0..(n - m) : \A j \in 1..m : s[i + j] = text[j]

\* A text is found where its bytes are.
LEMMA ContainedIs ==
    ASSUME NEW S, NEW text \in Seq(S), NEW s \in Seq(S), NEW m, NEW n, m = Len(text), n = Len(s)
    PROVE  Contained(text, s) <=> FoundIn(text, s, m, n)
<1>1. ASSUME NEW i \in 0..(Len(s) - Len(text))
      PROVE  SubSeq(s, i + 1, i + Len(text)) = text <=> \A j \in 1..Len(text) : s[i + j] = text[j]
  <2>1. Len(s) \in Nat /\ Len(text) \in Nat
    BY LenProperties
  <2>2. PICK k \in Nat : k = i + Len(text) /\ k <= Len(s) /\ k - i = Len(text) /\ i \in Nat
    BY <2>1
  <2>3. PICK p : p = SubSeq(s, i + 1, k)
    OBVIOUS
  <2>4. p \in Seq(S) /\ Len(p) = (IF i < k THEN k - i ELSE 0) /\ \A j \in 1..(k - i) : p[j] = s[i + j]
    <3>1. i \in Nat /\ k \in Nat /\ k <= Len(s)
      BY <2>2
    <3> QED
      BY <2>3, <3>1, Piece
  <2>5. Len(p) = Len(text) /\ \A j \in 1..Len(text) : p[j] = s[i + j]
    <3>1. (IF i < k THEN k - i ELSE 0) = Len(text)
      BY <2>1, <2>2
    <3> QED
      BY <2>2, <2>4, <3>1, Zenon
  <2>6. p = text <=> \A j \in 1..Len(text) : p[j] = text[j]
    BY <2>4, <2>5, SeqEqual
  <2> QED
    BY <2>2, <2>3, <2>5, <2>6
<1> QED
  BY <1>1 DEF Contained, FoundIn

\* A search that begins where the bytes already searched cannot complete the text misses nothing.
LEMMA TailSearch ==
    ASSUME NEW S, Expected \in Seq(S), Expected # <<>>, NEW s \in Seq(S), NEW old \in Seq(S),
           Len(old) <= Len(s), \A i \in 1..Len(old) : old[i] = s[i], ~Contained(Expected, old)
    PROVE  Contained(Expected, SubSeq(s, SearchFrom(Len(old)) + 1, Len(s))) <=> Contained(Expected, s)
<1>1. PICK e \in Nat, n \in Nat, o \in Nat : e = Len(Expected) /\ n = Len(s) /\ o = Len(old) /\ o <= n /\ e # 0
  BY LenProperties, EmptySeq
<1>2. PICK from \in Nat : from = SearchFrom(o) /\ from = IF o > e - 1 THEN o - (e - 1) ELSE 0
  <2>1. SearchFrom(o) = IF o > e - 1 THEN o - (e - 1) ELSE 0
    BY <1>1 DEF SearchFrom
  <2>2. (IF o > e - 1 THEN o - (e - 1) ELSE 0) \in Nat
    OBVIOUS
  <2> QED
    BY <2>1, <2>2
<1>3. from <= n
  BY <1>1, <1>2
<1>4. PICK t : t = SubSeq(s, from + 1, n)
  OBVIOUS
<1>5. t \in Seq(S) /\ Len(t) = n - from /\ \A i \in 1..(n - from) : t[i] = s[from + i]
  <2>1. t \in Seq(S) /\ Len(t) = (IF from < n THEN n - from ELSE 0) /\ \A i \in 1..(n - from) : t[i] = s[from + i]
    BY <1>1, <1>3, <1>4, Piece
  <2> QED
    BY <1>3, <2>1
<1>6. ASSUME Contained(Expected, t) PROVE Contained(Expected, s)
  <2>1. PICK i \in 0..(n - from - e) : \A j \in 1..e : t[i + j] = Expected[j]
    <3>1. FoundIn(Expected, t, e, n - from)
      BY <1>1, <1>5, <1>6, ContainedIs
    <3> QED
      BY <3>1 DEF FoundIn
  <2>2. from + i \in 0..(n - e)
    BY <1>3
  <2>3. ASSUME NEW j \in 1..e PROVE s[(from + i) + j] = Expected[j]
    <3>1. i + j \in 1..(n - from) /\ from + (i + j) = (from + i) + j
      BY <2>1
    <3> QED
      BY <1>5, <2>1, <3>1
  <2>4. FoundIn(Expected, s, e, n)
    BY <2>2, <2>3 DEF FoundIn
  <2> QED
    BY <1>1, <2>4, ContainedIs
<1>7. ASSUME Contained(Expected, s) PROVE Contained(Expected, t)
  <2>1. PICK i \in 0..(n - e) : \A j \in 1..e : s[i + j] = Expected[j]
    <3>1. FoundIn(Expected, s, e, n)
      BY <1>1, <1>7, ContainedIs
    <3> QED
      BY <3>1 DEF FoundIn
  <2>2. i >= from
    <3>1. SUFFICES ASSUME i < from PROVE FALSE
      OBVIOUS
    <3>2. i \in 0..(o - e) /\ i + e <= o
      BY <1>1, <1>2, <3>1
    <3>3. ASSUME NEW j \in 1..e PROVE old[i + j] = Expected[j]
      <4>1. i + j \in 1..o
        BY <3>2
      <4> QED
        BY <1>1, <2>1, <4>1
    <3>4. FoundIn(Expected, old, e, o)
      BY <3>2, <3>3 DEF FoundIn
    <3> QED
      BY <1>1, <3>4, ContainedIs
  <2>3. i - from \in 0..(n - from - e)
    BY <2>2
  <2>4. ASSUME NEW j \in 1..e PROVE t[(i - from) + j] = Expected[j]
    <3>1. (i - from) + j \in 1..(n - from) /\ from + ((i - from) + j) = i + j
      BY <2>2, <2>3
    <3> QED
      BY <1>5, <2>1, <3>1
  <2>5. FoundIn(Expected, t, e, n - from)
    BY <2>3, <2>4 DEF FoundIn
  <2> QED
    BY <1>1, <1>5, <2>5, ContainedIs
<1> QED
  BY <1>1, <1>2, <1>4, <1>6, <1>7

Symbols == {Expected[k] : k \in DOMAIN Expected} \cup {upconf.body[k] : k \in DOMAIN upconf.body}

\* The connections opened are those of the configuration.
ConnOf(check, t) == IF check THEN CheckOf(upconf, t) ELSE RequestTo(upconf, t)
OpenedOk == \A q \in opened : /\ q.of \in TargetsOf(upconf) /\ q.check \in BOOLEAN
                              /\ q.check => upconf.check.kind = "http"
                              /\ q.conn = ConnOf(q.check, q.of)

\* A check has read the body's first bytes, without the text, and has the others still to read.
Reading == /\ probe.seen \in Seq(Symbols) /\ probe.rest \in Seq(Symbols)
           /\ Len(probe.seen) <= BodyLimit /\ Len(probe.seen) <= Len(upconf.body)
           /\ \A i \in 1..Len(probe.seen) : probe.seen[i] = upconf.body[i]
           /\ Len(probe.seen) < BodyLimit =>
                /\ Len(probe.rest) = Len(upconf.body) - Len(probe.seen)
                /\ \A i \in 1..Len(probe.rest) : probe.rest[i] = upconf.body[Len(probe.seen) + i]
           /\ ~upconf.regex => ~Contained(Expected, probe.seen)
ProbeOk == /\ DOMAIN probe = {"on", "seen", "rest", "verdict"}
           /\ probe.on => probe.verdict = "none" /\ Reading

FailedOk == failed.chain # <<>> => failed.chain = upconf.chain /\ failed.result = Classify(upconf.chain)

UpInv == upconf \in UpConfigs /\ OpenedOk /\ ProbeOk /\ VerdictIgnoresFrames /\ FailedOk

\* The bytes of the text and of the body.
LEMMA SymbolsHold ==
    ASSUME upconf \in UpConfigs
    PROVE  /\ Expected \in Seq(Symbols) /\ Expected # <<>> /\ upconf.body \in Seq(Symbols) /\ BodyLimit \in Nat
           /\ <<>> \in Seq(Symbols) /\ Len(upconf.body) \in Nat
<1>1. /\ Expected \in Seq({Expected[k] : k \in DOMAIN Expected}) /\ Expected # <<>>
      /\ upconf.body \in Seq({upconf.body[k] : k \in DOMAIN upconf.body}) /\ BodyLimit \in Nat
  BY UpstreamAssumption
<1>2. Expected \in Seq(Symbols)
  BY <1>1, SeqWider DEF Symbols
<1>3. upconf.body \in Seq(Symbols)
  BY <1>1, SeqWider DEF Symbols
<1> QED
  BY <1>1, <1>2, <1>3, LenProperties, EmptySeq

\* A check meets the target as a request does.
LEMMA CheckLike ==
    ASSUME NEW c \in UpConfigs, NEW t \in TargetsOf(c)
    PROVE  /\ t.url.scheme \in {"http", "https"} /\ BaseFor(t, c.check).scheme \in {"http", "https"}
           /\ t.url.scheme = "https" /\ BaseFor(t, c.check).scheme = "https" => CheckAs(t, c.check) = DialledAt(t.url)
           /\ t.url.scheme = "http" => CheckAs(t, c.check) = DialledAt(BaseFor(t, c.check))
<1>1. PICK i \in DOMAIN c.targets : t = c.targets[i]
  BY DEF TargetsOf
<1>2. t.url.scheme \in {"http", "https"} /\ c.check.scheme \in {"", "http", "https"}
  BY <1>1, UpstreamAssumption
<1>3. Rebase(t, c.check).scheme \in {"http", "https"}
  <2>1. Rebase(t, c.check).scheme = IF c.check.scheme = "" THEN t.url.scheme ELSE c.check.scheme
    <3>1. PICK a, h, p : /\ a = IF c.check.scheme = "" THEN t.url.scheme ELSE c.check.scheme
                         /\ h = IF t.check_host = "" THEN t.url.host ELSE t.check_host
                         /\ p = IF c.check.port # 0 THEN c.check.port ELSE DialledAt(t.url).port
      OBVIOUS
    <3>2. Rebase(t, c.check) = [scheme |-> a, host |-> h, port |-> p]
      BY <3>1, Zenon DEF Rebase
    <3>3. Rebase(t, c.check).scheme = a
      BY <3>2
    <3> QED
      BY <3>1, <3>3
  <2> QED
    BY <1>2, <2>1
<1>4. BaseFor(t, c.check) = t.url \/ BaseFor(t, c.check) = Rebase(t, c.check)
  BY DEF BaseFor
<1>5. BaseFor(t, c.check).scheme \in {"http", "https"}
  BY <1>2, <1>3, <1>4
<1>6. CheckAs(t, c.check) = IF BaseFor(t, c.check) # t.url /\ t.url.scheme = "https" /\ BaseFor(t, c.check).scheme = "https"
                            THEN DialledAt(t.url) ELSE DialledAt(BaseFor(t, c.check))
  BY DEF CheckAs
<1> QED
  BY <1>2, <1>5, <1>6

Plain(k) == k.tls = FALSE /\ k.entry = {}
Secured(c, as, k) == /\ k.tls = TRUE /\ k.entry = EntriesAt(c, as) /\ k.ca = ProfileAt(c, as).ca
                     /\ k.pair = ProfileAt(c, as).pair /\ k.verified = Or(ProfileAt(c, as).name, as.host)

\* What a connection is opened with.
LEMMA ConnIs ==
    ASSUME NEW c, NEW url, NEW as, NEW k, k = ConnectAs(c, url, as)
    PROVE  IF url.scheme = "http" THEN Plain(k) ELSE Secured(c, as, k)
<1>1. PICK p, v, e, d : p = ProfileAt(c, as) /\ v = Or(ProfileAt(c, as).name, as.host) /\ e = EntriesAt(c, as) /\ d = DialledAt(url)
  OBVIOUS
<1>2. CASE url.scheme = "http"
  <2>1. k = [tls |-> FALSE, at |-> d, entry |-> {}]
    BY <1>1, <1>2 DEF ConnectAs
  <2> QED
    BY <1>2, <2>1 DEF Plain
<1>3. CASE url.scheme # "http"
  <2>1. k = [tls |-> TRUE, at |-> d, ca |-> p.ca, pair |-> p.pair, verified |-> v, entry |-> e]
    BY <1>1, <1>3 DEF ConnectAs
  <2>2. k.tls = TRUE /\ k.ca = p.ca /\ k.pair = p.pair /\ k.verified = v /\ k.entry = e
    BY <2>1
  <2> QED
    BY <1>1, <1>3, <2>2 DEF Secured
<1> QED
  BY <1>2, <1>3

\* Requests and checks over TLS verify and present alike.
LEMMA OpenedGives ==
    ASSUME UpInv
    PROVE  CheckedAsRequested
<1>1. SUFFICES ASSUME NEW q \in opened, NEW k \in opened, q.of = k.of, ~q.check, k.check, q.conn.tls, k.conn.tls
               PROVE  q.conn.ca = k.conn.ca /\ q.conn.pair = k.conn.pair /\ q.conn.verified = k.conn.verified
  BY DEF CheckedAsRequested
<1>2. PICK t : t = q.of
  OBVIOUS
<1>3. t \in TargetsOf(upconf) /\ upconf \in UpConfigs /\ q.conn = RequestTo(upconf, t) /\ k.conn = CheckOf(upconf, t)
  BY <1>1, <1>2 DEF UpInv, OpenedOk, ConnOf
<1>4. PICK r : r = q.conn
  OBVIOUS
<1>5. PICK h : h = k.conn
  OBVIOUS
<1>6. r = ConnectAs(upconf, t.url, DialledAt(t.url)) /\ h = ConnectAs(upconf, BaseFor(t, upconf.check), CheckAs(t, upconf.check))
  BY <1>3, <1>4, <1>5 DEF RequestTo, CheckOf
<1>7. PICK as, u, b : as = CheckAs(t, upconf.check) /\ u = t.url /\ b = BaseFor(t, upconf.check)
  OBVIOUS
<1>8. (IF u.scheme = "http" THEN Plain(r) ELSE Secured(upconf, DialledAt(u), r)) /\ (IF b.scheme = "http" THEN Plain(h) ELSE Secured(upconf, as, h))
  BY <1>6, <1>7, ConnIs
<1>9. u.scheme # "http" /\ b.scheme # "http"
  BY <1>1, <1>4, <1>5, <1>8 DEF Plain
<1>10. as = DialledAt(u)
  BY <1>3, <1>7, <1>9, CheckLike
<1>11. Secured(upconf, as, r) /\ Secured(upconf, as, h)
  BY <1>8, <1>9, <1>10
<1> QED
  BY <1>4, <1>5, <1>11 DEF Secured

\* A connection is one that a request or a check opens.
Conns == {RequestTo(upconf, t) : t \in TargetsOf(upconf)}
           \cup (IF upconf.check.kind = "http" THEN {CheckOf(upconf, t) : t \in TargetsOf(upconf)} ELSE {})

\* The entries of a connection are those of where it is told to be.
LEMMA EntryIs ==
    ASSUME NEW c, NEW url, NEW as, NEW i
    PROVE  i \in ConnectAs(c, url, as).entry
             <=> url.scheme # "http" /\ i \in DOMAIN c.entries /\ DialledAt(c.entries[i].url) = as
<1>1. PICK k : k = ConnectAs(c, url, as)
  OBVIOUS
<1>2. IF url.scheme = "http" THEN Plain(k) ELSE Secured(c, as, k)
  BY <1>1, ConnIs
<1>3. k.entry = IF url.scheme = "http" THEN {} ELSE EntriesAt(c, as)
  BY <1>2 DEF Plain, Secured
<1> QED
  BY <1>1, <1>3 DEF EntriesAt

\* The entries that `doctor` takes to be used are those that connections use.
LEMMA LintIs ==
    ASSUME upconf \in UpConfigs, NEW i \in DOMAIN upconf.entries
    PROVE  DialledAt(upconf.entries[i].url) \in LintedKeys(upconf) <=> \E k \in Conns : i \in k.entry
<1>1. PICK c, a, T : c = upconf /\ a = DialledAt(upconf.entries[i].url) /\ T = TargetsOf(upconf)
  OBVIOUS
<1>2. ASSUME NEW t \in T
      PROVE  /\ t.url.scheme \in {"http", "https"} /\ BaseFor(t, c.check).scheme \in {"http", "https"}
             /\ t.url.scheme = "https" /\ BaseFor(t, c.check).scheme = "https" => CheckAs(t, c.check) = DialledAt(t.url)
             /\ t.url.scheme = "http" => CheckAs(t, c.check) = DialledAt(BaseFor(t, c.check))
  BY <1>1, CheckLike
<1>3. ASSUME NEW t \in T
      PROVE  i \in RequestTo(c, t).entry <=> t.url.scheme = "https" /\ DialledAt(t.url) = a
  <2>1. i \in RequestTo(c, t).entry <=> t.url.scheme # "http" /\ DialledAt(c.entries[i].url) = DialledAt(t.url)
    BY <1>1, EntryIs DEF RequestTo
  <2> QED
    BY <1>1, <1>2, <2>1
<1>4. ASSUME NEW t \in T
      PROVE  i \in CheckOf(c, t).entry <=> BaseFor(t, c.check).scheme = "https" /\ CheckAs(t, c.check) = a
  <2>1. i \in CheckOf(c, t).entry <=> BaseFor(t, c.check).scheme # "http" /\ DialledAt(c.entries[i].url) = CheckAs(t, c.check)
    BY <1>1, EntryIs DEF CheckOf
  <2> QED
    BY <1>1, <1>2, <2>1
<1> DEFINE Asked(t) == t.url.scheme = "https" /\ DialledAt(t.url) = a
           Alone(t) == t.url.scheme # "https" /\ BaseFor(t, c.check).scheme = "https" /\ DialledAt(BaseFor(t, c.check)) = a
           Checked(t) == BaseFor(t, c.check).scheme = "https" /\ CheckAs(t, c.check) = a
           AnyAsked == \E t \in T : Asked(t)
           AnyAlone == \E t \in T : Alone(t)
           AnyChecked == \E t \in T : Checked(t)
<1>5. a \in LintedKeys(c) <=> AnyAsked \/ (c.check.kind = "http" /\ AnyAlone)
  <2>1. PICK checks : checks = IF c.check.kind # "http" THEN {}
                               ELSE {BaseFor(t, c.check) : t \in {t \in TargetsOf(c) : t.url.scheme # "https"}}
    OBVIOUS
  <2>2. \A u : u \in checks <=> c.check.kind = "http" /\ \E t \in T : t.url.scheme # "https" /\ u = BaseFor(t, c.check)
    BY <1>1, <2>1
  <2>3. PICK urls : urls = {t.url : t \in TargetsOf(c)} \cup checks
    OBVIOUS
  <2>4. LintedKeys(c) = {DialledAt(u) : u \in {u \in urls : HasTlsKey(u)}}
    BY <2>1, <2>3, Zenon DEF LintedKeys
  <2>5. a \in LintedKeys(c) <=> \E u \in urls : u.scheme = "https" /\ DialledAt(u) = a
    BY <2>4 DEF HasTlsKey
  <2>6. \A u : u \in urls <=> u \in checks \/ \E t \in T : u = t.url
    BY <1>1, <2>3
  <2>7. ASSUME AnyAsked PROVE a \in LintedKeys(c)
    BY <2>5, <2>6, <2>7
  <2>8. ASSUME c.check.kind = "http", AnyAlone PROVE a \in LintedKeys(c)
    BY <2>2, <2>5, <2>6, <2>8
  <2>9. ASSUME a \in LintedKeys(c) PROVE AnyAsked \/ (c.check.kind = "http" /\ AnyAlone)
    <3>1. PICK u \in urls : u.scheme = "https" /\ DialledAt(u) = a
      BY <2>5, <2>9
    <3> QED
      BY <2>2, <2>6, <3>1
  <2> HIDE DEF AnyAsked, AnyAlone
  <2> QED
    BY <2>7, <2>8, <2>9
<1>6. (\E k \in Conns : i \in k.entry) <=> \/ \E t \in T : i \in RequestTo(c, t).entry
                                           \/ c.check.kind = "http" /\ \E t \in T : i \in CheckOf(c, t).entry
  BY <1>1 DEF Conns
<1>7. (\E k \in Conns : i \in k.entry) <=> AnyAsked \/ (c.check.kind = "http" /\ AnyChecked)
  BY <1>3, <1>4, <1>6
<1>8. ASSUME NEW t \in T PROVE (Checked(t) => Asked(t) \/ Alone(t)) /\ (Alone(t) => Checked(t))
  BY <1>2
<1>9. (AnyChecked => AnyAsked \/ AnyAlone) /\ (AnyAlone => AnyChecked)
  <2> HIDE DEF Checked, Asked, Alone
  <2> QED
    BY <1>8
<1>10. a \in LintedKeys(c) <=> \E k \in Conns : i \in k.entry
  <2> HIDE DEF AnyAsked, AnyAlone, AnyChecked
  <2> QED
    BY <1>5, <1>7, <1>9
<1> QED
  BY <1>1, <1>10

\* `doctor` warns of the entries that no connection uses.
LEMMA WarnedGives ==
    ASSUME UpInv
    PROVE  UnusedEntriesWarned
<1>1. upconf \in UpConfigs
  BY DEF UpInv
<1>2. WarnedEntries(upconf) = DOMAIN upconf.entries \ UNION {k.entry : k \in Conns}
  BY <1>1, LintIs DEF WarnedEntries
<1>3. ASSUME NEW q \in opened PROVE q.conn.entry \cap WarnedEntries(upconf) = {}
  <2>1. q.conn \in Conns
    BY DEF UpInv, OpenedOk, ConnOf, Conns
  <2> QED
    BY <1>2, <2>1
<1> QED
  BY <1>2, <1>3 DEF UnusedEntriesWarned, Conns

\* A check that is over has its verdict.
LEMMA VerdictIs ==
    ASSUME NEW of, Verdict(of)
    PROVE  DOMAIN probe' = {"on", "seen", "rest", "verdict"} /\ probe'.on = FALSE /\ probe'.verdict = of
<1>1. probe' = [on |-> FALSE, seen |-> <<>>, rest |-> <<>>, verdict |-> of]
  BY DEF Verdict, Idle0
<1> QED
  BY <1>1

\* A verdict that is right keeps the invariant.
LEMMA OverStep ==
    ASSUME UpInv, NEW of, Verdict(of), UNCHANGED <<upconf, opened, failed>>,
           of \in {"pass", "fail"} =>
             (of = "pass" <=> IF upconf.regex THEN MatchesEnd(Head0(upconf.body, BodyLimit))
                              ELSE Contained(Expected, Head0(upconf.body, BodyLimit)))
    PROVE  UpInv'
<1>1. DOMAIN probe' = {"on", "seen", "rest", "verdict"} /\ probe'.on = FALSE /\ probe'.verdict = of
  BY VerdictIs
<1>2. ProbeOk'
  BY <1>1 DEF ProbeOk
<1>3. VerdictIgnoresFrames'
  <2>1. PICK p : p = probe'
    OBVIOUS
  <2>2. p.verdict = of
    BY <1>1, <2>1
  <2>3. p.verdict \in {"pass", "fail"} =>
          (p.verdict = "pass" <=> IF upconf.regex THEN MatchesEnd(Head0(upconf.body, BodyLimit))
                                  ELSE Contained(Expected, Head0(upconf.body, BodyLimit)))
    BY <2>2
  <2> QED
    BY <2>1, <2>3 DEF VerdictIgnoresFrames
<1>4. OpenedOk' /\ FailedOk'
  BY DEF UpInv, OpenedOk, FailedOk, ConnOf
<1> QED
  BY <1>2, <1>3, <1>4 DEF UpInv

\* What the invariant says of the body read so far.
LEMMA ReadingHolds ==
    ASSUME UpInv, probe.on
    PROVE  Reading /\ upconf \in UpConfigs /\ Len(probe.seen) \in Nat /\ Len(probe.rest) \in Nat
<1>1. Reading /\ upconf \in UpConfigs
  BY DEF UpInv, ProbeOk
<1> QED
  BY <1>1, LenProperties DEF Reading

\* A frame read.
LEMMA ReadFrameStep ==
    ASSUME UpInv, NEW n \in 0..BodyLimit, ReadFrame(n)
    PROVE  UpInv'
<1>1. probe.on /\ Len(probe.seen) < BodyLimit /\ n <= Len(probe.rest) /\ UNCHANGED <<upconf, opened, failed>>
  BY DEF ReadFrame
<1>2. /\ Reading /\ upconf \in UpConfigs /\ Expected \in Seq(Symbols) /\ Expected # <<>>
      /\ upconf.body \in Seq(Symbols) /\ BodyLimit \in Nat /\ n \in Nat /\ Len(upconf.body) \in Nat
  BY <1>1, ReadingHolds, SymbolsHold
<1>3. PICK old, rest, b : old = probe.seen /\ rest = probe.rest /\ b = upconf.body
  OBVIOUS
<1>4. PICK o \in Nat, B \in Nat : o = Len(old) /\ B = Len(b) /\ o <= BodyLimit /\ o <= B
  BY <1>1, <1>2, <1>3, ReadingHolds DEF Reading
<1>5. /\ old \in Seq(Symbols) /\ rest \in Seq(Symbols) /\ Len(rest) = B - o /\ n <= B - o
      /\ \A i \in 1..o : old[i] = b[i]
      /\ \A i \in 1..(B - o) : rest[i] = b[o + i]
      /\ ~upconf.regex => ~Contained(Expected, old)
  BY <1>1, <1>2, <1>3, <1>4 DEF Reading
<1>6. PICK f : f = Head0(rest, n)
  OBVIOUS
<1>7. f \in Seq(Symbols) /\ Len(f) = n /\ \A i \in 1..n : f[i] = rest[i]
  <2>1. /\ f \in Seq(Symbols) /\ Len(f) = (IF n < Len(rest) THEN n ELSE Len(rest))
        /\ \A i \in 1..Len(f) : f[i] = rest[i]
    BY <1>2, <1>5, <1>6, HeadIs
  <2>2. (IF n < Len(rest) THEN n ELSE Len(rest)) = n
    <3>1. PICK r \in Nat : r = Len(rest) /\ n <= r
      BY <1>5, LenProperties
    <3> QED
      BY <1>2, <3>1
  <2> QED
    BY <2>1, <2>2
<1>8. PICK g : g = old \o f
  OBVIOUS
<1>9. g \in Seq(Symbols) /\ Len(g) = o + n /\ \A i \in 1..(o + n) : g[i] = b[i]
  <2>1. /\ g \in Seq(Symbols) /\ Len(g) = Len(old) + Len(f)
        /\ \A i \in 1..(Len(old) + Len(f)) : g[i] = IF i <= Len(old) THEN old[i] ELSE f[i - Len(old)]
    BY <1>5, <1>7, <1>8, ConcatProperties
  <2>2. g \in Seq(Symbols) /\ Len(g) = o + n /\ \A i \in 1..(o + n) : g[i] = IF i <= o THEN old[i] ELSE f[i - o]
    BY <1>4, <1>7, <2>1
  <2>3. ASSUME NEW i \in 1..(o + n) PROVE g[i] = b[i]
    <3>1. CASE i <= o
      <4>1. i \in 1..o
        BY <3>1
      <4> QED
        BY <1>5, <2>2, <3>1, <4>1
    <3>2. CASE ~(i <= o)
      <4>1. i - o \in 1..n /\ i - o \in 1..(B - o) /\ o + (i - o) = i
        BY <1>2, <1>4, <1>5, <3>2
      <4> QED
        BY <1>5, <1>7, <2>2, <3>2, <4>1
    <3> QED
      BY <3>1, <3>2
  <2> QED
    BY <2>2, <2>3
<1>10. PICK seen : seen = Head0(g, BodyLimit)
  OBVIOUS
<1>11. PICK s \in Nat : s = IF BodyLimit < o + n THEN BodyLimit ELSE o + n
  BY <1>2
<1>12. seen \in Seq(Symbols) /\ Len(seen) = s /\ \A i \in 1..s : seen[i] = b[i]
  <2>1. /\ seen \in Seq(Symbols) /\ Len(seen) = (IF BodyLimit < Len(g) THEN BodyLimit ELSE Len(g))
        /\ \A i \in 1..Len(seen) : seen[i] = g[i]
    BY <1>2, <1>9, <1>10, HeadIs
  <2>2. Len(seen) = s
    BY <1>9, <1>11, <2>1
  <2>3. \A i \in 1..s : i \in 1..(o + n)
    BY <1>2, <1>11
  <2> QED
    BY <1>9, <2>1, <2>2, <2>3
<1>13. s <= BodyLimit /\ s <= B /\ o <= s /\ (s < BodyLimit => s = o + n)
  BY <1>2, <1>4, <1>5, <1>11
<1>14. ~upconf.regex => (Contained(Expected, SubSeq(seen, SearchFrom(o) + 1, Len(seen))) <=> Contained(Expected, seen))
  <2>1. \A i \in 1..Len(old) : old[i] = seen[i]
    BY <1>4, <1>5, <1>12, <1>13
  <2>2. Len(old) <= Len(seen)
    BY <1>4, <1>12, <1>13
  <2> QED
    BY <1>2, <1>4, <1>5, <1>12, <2>1, <2>2, TailSearch
<1>15. CASE ~upconf.regex /\ Contained(Expected, SubSeq(seen, SearchFrom(o) + 1, Len(seen)))
  <2>1. Verdict("pass")
    BY <1>3, <1>4, <1>6, <1>8, <1>10, <1>15 DEF ReadFrame
  <2>2. PICK h : h = Head0(b, BodyLimit)
    OBVIOUS
  <2>3. PICK m \in Nat : m = (IF BodyLimit < B THEN BodyLimit ELSE B) /\ s <= m
    BY <1>2, <1>13
  <2>4. h \in Seq(Symbols) /\ Len(h) = m /\ \A i \in 1..m : h[i] = b[i]
    <3>1. h \in Seq(Symbols) /\ Len(h) = (IF BodyLimit < Len(b) THEN BodyLimit ELSE Len(b)) /\ \A i \in 1..Len(h) : h[i] = b[i]
      BY <1>2, <1>3, <2>2, HeadIs
    <3> QED
      BY <1>4, <2>3, <3>1
  <2>5. Contained(Expected, h)
    <3>1. PICK e \in Nat : e = Len(Expected)
      BY <1>2, LenProperties
    <3>2. FoundIn(Expected, seen, e, s)
      BY <1>2, <1>12, <1>14, <1>15, <3>1, ContainedIs
    <3>3. PICK i \in 0..(s - e) : \A j \in 1..e : seen[i + j] = Expected[j]
      BY <3>2 DEF FoundIn
    <3>4. i \in 0..(m - e)
      BY <2>3
    <3>5. ASSUME NEW j \in 1..e PROVE h[i + j] = Expected[j]
      <4>1. i + j \in 1..s /\ i + j \in 1..m
        BY <2>3, <3>3
      <4> QED
        BY <1>12, <2>4, <3>3, <4>1
    <3>6. FoundIn(Expected, h, e, m)
      BY <3>4, <3>5 DEF FoundIn
    <3> QED
      BY <1>2, <2>4, <3>1, <3>6, ContainedIs
  <2>6. ("pass" = "pass" <=> IF upconf.regex THEN MatchesEnd(Head0(upconf.body, BodyLimit))
                             ELSE Contained(Expected, Head0(upconf.body, BodyLimit)))
    BY <1>3, <1>15, <2>2, <2>5
  <2> QED
    BY <1>1, <2>1, <2>6, OverStep
<1>16. CASE ~(~upconf.regex /\ Contained(Expected, SubSeq(seen, SearchFrom(o) + 1, Len(seen))))
  <2>1. PICK left : left = SubSeq(rest, n + 1, Len(rest))
    OBVIOUS
  <2>2. probe' = [probe EXCEPT !.seen = seen, !.rest = left]
    BY <1>3, <1>4, <1>6, <1>8, <1>10, <1>16, <2>1 DEF ReadFrame
  <2>3. /\ DOMAIN probe' = {"on", "seen", "rest", "verdict"} /\ probe'.on = probe.on /\ probe'.verdict = probe.verdict
        /\ probe'.seen = seen /\ probe'.rest = left
    BY <2>2 DEF UpInv, ProbeOk
  <2>4. left \in Seq(Symbols) /\ Len(left) = B - o - n /\ \A i \in 1..(B - o - n) : left[i] = b[(o + n) + i]
    <3>1. PICK r \in Nat : r = Len(rest) /\ r = B - o
      BY <1>4, <1>5, LenProperties
    <3>2. /\ left \in Seq(Symbols) /\ Len(left) = (IF n < r THEN r - n ELSE 0)
          /\ \A i \in 1..(r - n) : left[i] = rest[n + i]
      <4>1. rest \in Seq(Symbols) /\ n \in Nat /\ r <= Len(rest)
        BY <1>2, <1>5, <3>1
      <4>2. left = SubSeq(rest, n + 1, r)
        BY <2>1, <3>1
      <4> QED
        BY <4>1, <4>2, Piece
    <3>3. ASSUME NEW i \in 1..(B - o - n) PROVE left[i] = b[(o + n) + i]
      <4>1. i \in 1..(r - n) /\ n + i \in 1..(B - o) /\ o + (n + i) = (o + n) + i
        BY <1>2, <1>4, <3>1
      <4> QED
        BY <1>5, <3>2, <4>1
    <3>4. (IF n < r THEN r - n ELSE 0) = B - o - n
      BY <1>2, <1>4, <1>5, <3>1
    <3> QED
      BY <3>2, <3>3, <3>4
  <2>5. Symbols' = Symbols
    BY <1>1 DEF Symbols
  <2>6. ~upconf.regex => ~Contained(Expected, seen)
    BY <1>14, <1>16
  <2>7. Reading'
    <3>1. /\ seen \in Seq(Symbols) /\ left \in Seq(Symbols) /\ Len(seen) <= BodyLimit /\ Len(seen) <= Len(b)
          /\ \A i \in 1..Len(seen) : seen[i] = b[i]
      BY <1>4, <1>12, <1>13, <2>4
    <3>2. ASSUME Len(seen) < BodyLimit
          PROVE  Len(left) = Len(b) - Len(seen) /\ \A i \in 1..Len(left) : left[i] = b[Len(seen) + i]
      <4>1. Len(seen) = o + n
        BY <1>12, <1>13, <3>2
      <4>2. Len(left) = Len(b) - Len(seen)
        BY <1>4, <1>2, <2>4, <4>1
      <4> QED
        BY <2>4, <4>1, <4>2
    <3> QED
      BY <1>1, <1>3, <2>3, <2>5, <2>6, <3>1, <3>2 DEF Reading
  <2>8. ProbeOk'
    BY <1>1, <2>3, <2>7 DEF UpInv, ProbeOk
  <2>9. probe'.verdict = "none"
    BY <1>1, <2>3 DEF UpInv, ProbeOk
  <2>10. VerdictIgnoresFrames'
    BY <2>9 DEF VerdictIgnoresFrames
  <2>11. OpenedOk' /\ FailedOk'
    BY <1>1 DEF UpInv, OpenedOk, FailedOk, ConnOf
  <2> QED
    BY <1>1, <1>2, <2>8, <2>10, <2>11 DEF UpInv
<1> QED
  BY <1>15, <1>16

\* The end of a body, or of what a check reads of it.
LEMMA EndOfBodyStep ==
    ASSUME UpInv, EndOfBody
    PROVE  UpInv'
<1>1. /\ probe.on /\ (probe.rest = <<>> \/ Len(probe.seen) >= BodyLimit) /\ UNCHANGED <<upconf, opened, failed>>
      /\ Verdict(IF upconf.regex /\ MatchesEnd(probe.seen) THEN "pass" ELSE "fail")
  BY DEF EndOfBody
<1>2. PICK of : of = IF upconf.regex /\ MatchesEnd(probe.seen) THEN "pass" ELSE "fail"
  OBVIOUS
<1>3. /\ Reading /\ upconf \in UpConfigs /\ upconf.body \in Seq(Symbols) /\ BodyLimit \in Nat /\ Len(upconf.body) \in Nat
      /\ Len(probe.seen) \in Nat /\ Len(probe.rest) \in Nat
  BY <1>1, ReadingHolds, SymbolsHold
<1>4. PICK h : h = Head0(upconf.body, BodyLimit)
  OBVIOUS
<1>5. /\ h \in Seq(Symbols) /\ Len(h) = (IF BodyLimit < Len(upconf.body) THEN BodyLimit ELSE Len(upconf.body))
      /\ \A i \in 1..Len(h) : h[i] = upconf.body[i]
  BY <1>3, <1>4, HeadIs
<1>6. Len(probe.seen) = Len(h)
  <2>1. PICK o \in Nat, B \in Nat : o = Len(probe.seen) /\ B = Len(upconf.body)
    BY <1>3
  <2>2. o <= BodyLimit /\ o <= B
    BY <1>3, <2>1 DEF Reading
  <2>3. CASE o >= BodyLimit
    BY <1>3, <1>5, <2>1, <2>2, <2>3
  <2>4. CASE o < BodyLimit
    <3>1. PICK r \in Nat : r = Len(probe.rest)
      BY <1>3
    <3>2. probe.rest = <<>>
      BY <1>1, <1>3, <2>1, <2>4
    <3>3. r = 0
      BY <3>1, <3>2
    <3>4. r = B - o
      BY <1>3, <2>1, <2>4, <3>1 DEF Reading
    <3>5. o = B
      BY <3>3, <3>4
    <3>6. (IF BodyLimit < B THEN BodyLimit ELSE B) = B
      BY <1>3, <2>4, <3>5
    <3> QED
      BY <1>5, <2>1, <3>5, <3>6
  <2> QED
    BY <1>3, <2>1, <2>3, <2>4
<1>7. probe.seen = h
  <2>1. probe.seen \in Seq(Symbols) /\ \A i \in 1..Len(probe.seen) : probe.seen[i] = h[i]
    BY <1>3, <1>5, <1>6 DEF Reading
  <2> QED
    BY <1>5, <1>6, <2>1, SeqEqual
<1>8. ~upconf.regex => ~Contained(Expected, h)
  BY <1>3, <1>7 DEF Reading
<1>9. of = "pass" <=> IF upconf.regex THEN MatchesEnd(h) ELSE Contained(Expected, h)
  BY <1>2, <1>7, <1>8
<1>10. of \in {"pass", "fail"} => (of = "pass" <=> IF upconf.regex THEN MatchesEnd(Head0(upconf.body, BodyLimit))
                                                   ELSE Contained(Expected, Head0(upconf.body, BodyLimit)))
  BY <1>4, <1>9
<1> QED
  BY <1>1, <1>2, <1>10, OverStep

\* A check begins.
LEMMA BeginCheckStep ==
    ASSUME UpInv, NEW t \in TargetsOf(upconf), BeginCheck(t)
    PROVE  UpInv'
<1>1. UNCHANGED <<upconf, failed>> /\ upconf \in UpConfigs
  BY DEF BeginCheck, UpInv
<1>2. CASE upconf.check.kind # "http"
  <2>1. UNCHANGED <<opened, probe>>
    BY <1>2 DEF BeginCheck
  <2> QED
    BY <1>1, <2>1 DEF UpInv, OpenedOk, ProbeOk, Reading, Symbols, VerdictIgnoresFrames, FailedOk, ConnOf
<1>3. CASE upconf.check.kind = "http"
  <2>1. /\ opened' = opened \cup {[of |-> t, check |-> TRUE, conn |-> CheckOf(upconf, t)]}
        /\ probe' \in {[Idle0 EXCEPT !.on = TRUE, !.rest = upconf.body], [Idle0 EXCEPT !.verdict = "status"]}
    BY <1>3 DEF BeginCheck
  <2>2. OpenedOk' /\ FailedOk'
    <3>1. PICK q : q = [of |-> t, check |-> TRUE, conn |-> CheckOf(upconf, t)]
      OBVIOUS
    <3>2. q.of = t /\ q.check = TRUE /\ q.conn = CheckOf(upconf, t)
      BY <3>1
    <3>3. opened' = opened \cup {q}
      BY <2>1, <3>1
    <3> QED
      BY <1>1, <1>3, <3>2, <3>3 DEF UpInv, OpenedOk, FailedOk, ConnOf
  <2>3. CASE probe' = [Idle0 EXCEPT !.verdict = "status"]
    <3>1. Verdict("status")
      BY <2>3 DEF Verdict
    <3>2. DOMAIN probe' = {"on", "seen", "rest", "verdict"} /\ probe'.on = FALSE /\ probe'.verdict = "status"
      BY <3>1, VerdictIs
    <3> QED
      BY <1>1, <2>2, <3>2 DEF UpInv, ProbeOk, VerdictIgnoresFrames
  <2>4. CASE probe' = [Idle0 EXCEPT !.on = TRUE, !.rest = upconf.body]
    <3>1. PICK b, none : b = upconf.body /\ none = "none"
      OBVIOUS
    <3>2. probe' = [on |-> TRUE, seen |-> <<>>, rest |-> b, verdict |-> none]
      BY <2>4, <3>1 DEF Idle0
    <3>3. /\ DOMAIN probe' = {"on", "seen", "rest", "verdict"} /\ probe'.on = TRUE /\ probe'.verdict = none
          /\ probe'.seen = <<>> /\ probe'.rest = b
      BY <3>2
    <3>4. /\ Expected \in Seq(Symbols) /\ Expected # <<>> /\ b \in Seq(Symbols) /\ BodyLimit \in Nat /\ <<>> \in Seq(Symbols)
          /\ Len(b) \in Nat
      BY <1>1, <3>1, SymbolsHold
    <3>5. PICK s : s = <<>>
      OBVIOUS
    <3>6. s \in Seq(Symbols) /\ Len(s) = 0
      BY <3>4, <3>5
    <3>7. ~Contained(Expected, s)
      <4>1. PICK e \in Nat : e = Len(Expected) /\ e # 0
        BY <3>4, LenProperties, EmptySeq
      <4>2. ~FoundIn(Expected, s, e, 0)
        BY <4>1 DEF FoundIn
      <4> QED
        BY <3>4, <3>6, <4>1, <4>2, ContainedIs
    <3>8. Symbols' = Symbols
      BY <1>1 DEF Symbols
    <3>9. Reading'
      <4>1. probe'.seen = s /\ probe'.rest = b /\ upconf'.body = b /\ upconf'.regex = upconf.regex
        BY <1>1, <3>1, <3>3, <3>5
      <4>2. Len(s) <= BodyLimit /\ Len(s) <= Len(b) /\ \A i \in 1..Len(s) : s[i] = b[i]
        BY <3>4, <3>6
      <4>3. Len(b) = Len(b) - Len(s) /\ \A i \in 1..Len(b) : b[i] = b[Len(s) + i]
        BY <3>4, <3>6
      <4> QED
        BY <3>4, <3>6, <3>7, <3>8, <4>1, <4>2, <4>3 DEF Reading
    <3> QED
      BY <1>1, <2>2, <3>1, <3>3, <3>9 DEF UpInv, ProbeOk, VerdictIgnoresFrames
  <2> QED
    BY <2>1, <2>3, <2>4
<1> QED
  BY <1>2, <1>3

\* A request is forwarded.
LEMMA ForwardStep ==
    ASSUME UpInv, NEW t \in TargetsOf(upconf), ForwardTo(t)
    PROVE  UpInv'
<1>1. UNCHANGED <<upconf, probe, failed>>
  BY DEF ForwardTo
<1>2. PICK q : q = [of |-> t, check |-> FALSE, conn |-> RequestTo(upconf, t)]
  OBVIOUS
<1>3. q.of = t /\ q.check = FALSE /\ q.conn = RequestTo(upconf, t)
  BY <1>2
<1>4. opened' = opened \cup {q}
  BY <1>2 DEF ForwardTo
<1>5. OpenedOk'
  BY <1>1, <1>3, <1>4 DEF UpInv, OpenedOk, ConnOf
<1>6. ProbeOk' /\ VerdictIgnoresFrames' /\ FailedOk'
  BY <1>1 DEF UpInv, ProbeOk, Reading, Symbols, VerdictIgnoresFrames, FailedOk
<1> QED
  BY <1>1, <1>5, <1>6 DEF UpInv

\* An exchange fails.
LEMMA FailStep ==
    ASSUME UpInv, Fail
    PROVE  UpInv'
<1>1. UNCHANGED <<upconf, opened, probe>>
  BY DEF Fail
<1>2. PICK r : r = Classify(upconf.chain)
  OBVIOUS
<1>3. failed' = [chain |-> upconf.chain, result |-> r]
  BY <1>2 DEF Fail
<1>4. failed'.chain = upconf.chain /\ failed'.result = r
  BY <1>3
<1>5. FailedOk'
  BY <1>1, <1>2, <1>4 DEF FailedOk
<1> QED
  BY <1>1, <1>5 DEF UpInv, OpenedOk, ConnOf, ProbeOk, Reading, Symbols, VerdictIgnoresFrames

\* What went wrong is what it is called.
LEMMA FailedGives ==
    ASSUME UpInv
    PROVE  CauseIsNamed
<1>1. PICK chain : chain = failed.chain
  OBVIOUS
<1>2. SUFFICES ASSUME chain # <<>>
               PROVE  /\ chain[Len(chain)] \in {"tls", "io_tls"} <=> failed.result = "tls_error"
                      /\ (failed.result = "reset" => "client_connect" \notin {chain[i] : i \in DOMAIN chain})
  BY <1>1 DEF CauseIsNamed
<1>3. upconf \in UpConfigs /\ chain = upconf.chain /\ failed.result = Classify(chain)
  BY <1>1, <1>2 DEF UpInv, FailedOk
<1>4. chain \in Seq({chain[k] : k \in DOMAIN chain}) /\ \A i \in 1..(Len(chain) - 1) : chain[i] \notin {"tls", "io_tls"}
  BY <1>3, UpstreamAssumption
<1>5. Len(chain) \in Nat /\ DOMAIN chain = 1..Len(chain) /\ Len(chain) # 0
  BY <1>2, <1>4, LenProperties, EmptySeq
<1>6. Has(chain, {"tls", "io_tls"}) <=> chain[Len(chain)] \in {"tls", "io_tls"}
  <2>1. Len(chain) \in DOMAIN chain
    BY <1>5
  <2>2. \A i \in DOMAIN chain : i = Len(chain) \/ i \in 1..(Len(chain) - 1)
    BY <1>5
  <2> QED
    BY <1>4, <2>1, <2>2 DEF Has
<1>7. failed.result = "tls_error" <=> Has(chain, {"tls", "io_tls"})
  BY <1>3 DEF Classify
<1>8. failed.result = "reset" => ~Has(chain, {"client_connect"})
  BY <1>3 DEF Classify
<1> QED
  BY <1>6, <1>7, <1>8 DEF Has

\* Requests and health checks (src/upstream.rs, src/pool.rs) meet a target under the same TLS settings
\* whatever port or host a check dials, `doctor` warns of exactly the entries no connection uses, a
\* check's verdict does not depend on how the body was framed, and a failure is called what it is.
THEOREM TargetsAreAsConfigured == UpSpec => []TargetsAsConfigured
<1>1. UpInit => UpInv
  <2>1. SUFFICES ASSUME UpInit PROVE UpInv
    OBVIOUS
  <2>2. upconf \in UpConfigs /\ opened = {} /\ probe = Idle0 /\ failed = [chain |-> <<>>, result |-> "none"]
    BY <2>1 DEF UpInit, UpstreamOf
  <2>3. DOMAIN probe = {"on", "seen", "rest", "verdict"} /\ probe.on = FALSE /\ probe.verdict = "none"
    BY <2>2 DEF Idle0
  <2>4. failed.chain = <<>>
    BY <2>2
  <2> QED
    BY <2>2, <2>3, <2>4 DEF UpInv, OpenedOk, ProbeOk, VerdictIgnoresFrames, FailedOk
<1>2. UpInv /\ [UpNext]_upVars => UpInv'
  <2>1. SUFFICES ASSUME UpInv, [UpNext]_upVars PROVE UpInv'
    OBVIOUS
  <2>2. CASE BodyBreaks
    BY <2>1, <2>2, OverStep DEF BodyBreaks
  <2>3. CASE UNCHANGED upVars
    BY <2>1, <2>3 DEF upVars, UpInv, OpenedOk, ConnOf, ProbeOk, Reading, Symbols, VerdictIgnoresFrames, FailedOk
  <2> QED
    BY <2>1, <2>2, <2>3, ForwardStep, BeginCheckStep, ReadFrameStep, EndOfBodyStep, FailStep DEF UpNext
<1>3. UpInv => TargetsAsConfigured
  BY OpenedGives, WarnedGives, FailedGives DEF UpInv, TargetsAsConfigured
<1> QED
  BY <1>1, <1>2, <1>3, PTL DEF UpSpec

\* Whatever the edge connects to, for itself (src/outbound.rs) or for a request (src/upstream.rs,
\* src/pool.rs), it meets as the configuration says and says so.
THEOREM ConnectionsAreAsConfigured == OutSpec /\ UpSpec => []ConnectsAsConfigured
<1>1. OutSpec => []ClientsAsConfigured
  BY ClientsAreAsConfigured
<1>2. UpSpec => []TargetsAsConfigured
  BY TargetsAreAsConfigured
<1>3. ClientsAsConfigured /\ TargetsAsConfigured => ConnectsAsConfigured
  BY DEF ConnectsAsConfigured
<1> QED
  BY <1>1, <1>2, <1>3, PTL
=============================================================================
