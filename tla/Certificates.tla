---------------------------- MODULE Certificates ----------------------------
(***************************************************************************)
(* The listener's certificate: the pair of files it is kept in             *)
(* (src/selfsigned.rs), the store that serves it and picks up a new one    *)
(* (src/certstore.rs), how it is issued and renewed (src/acme.rs), the     *)
(* ledger and the fleet's leases that say whether an order may be sent     *)
(* (src/acme_budget.rs), and where `run` (src/main.rs) starts all of it.   *)
(*                                                                         *)
(* A file holds the number of the certificate or key that is in it, or     *)
(* NoFile; a rename is one step, and so is a read.  A process that         *)
(* publishes a pair takes a step for each system call, so the watcher, the *)
(* hourly check and a crash come between any two of them.  One step of     *)
(* the clock is a third of a certificate's life.                           *)
(***************************************************************************)
EXTENDS Gcra, Sequences

CONSTANTS Settings,   \* configurations of [tls]: see SettingsType
          CaLimit,    \* the CA's limit on orders, as a Gcra
          MaxPairs,   \* bound: certificates made
          MaxFaults,  \* bound: crashes, failed writes, refusals and lost answers
          LastTime    \* bound: the time the model runs

\* acme.enabled, self_signed, (acme.)renew, self_signed_rotate_key, watch, acme.ari, a control plane,
\* acme.budget_enabled, redirect_port = 80, acme.challenge = "dns-01"; `operator`: something outside
\* replaces the files.
SettingsType == [acme : BOOLEAN, self_signed : BOOLEAN, renew : BOOLEAN, rotate : BOOLEAN,
                 watch : BOOLEAN, ari : BOOLEAN, managed : BOOLEAN, budget : BOOLEAN,
                 port80 : BOOLEAN, dns : BOOLEAN, operator : BOOLEAN]

ASSUME CertificatesAssumption ==
    /\ Settings \subseteq SettingsType
    /\ \A s \in Settings : s.operator => ~s.acme /\ ~s.self_signed
    /\ CaLimit \in [interval : Nat \ {0}, tolerance : Nat]
    /\ CaLimit.tolerance >= CaLimit.interval
    /\ MaxPairs \in Nat \ {0} /\ MaxFaults \in Nat /\ LastTime \in Nat

VARIABLES set,    \* the settings
          clock,
          made,   \* the certificates made so far: key, issued when, self-signed, renewal window open,
                  \* and how it came to be (see Hows)
          disk,   \* the live paths, the backup, and whether the last publication was cut short
          proc,   \* the process: down, boot, up, or why it refused to start
          live,   \* the pair that handshakes get
          task,   \* the boot, then the maintenance loop
          watcher,\* the file watcher: where it is, what it read, and an event not yet taken
          ari,    \* the renewal window last read, and for which certificate
          books,  \* what is known of the orders sent (see NoBooks)
          http,   \* who listens on port 80, whether a challenge is answered there, and the TXT record
          faults  \* how many of MaxFaults happened

certVars == <<set, clock, made, disk, proc, live, task, watcher, ari, books, http, faults>>

NoFile == 0
Lifetime == 3

\* Found on disk by the first start, made, or made with a new key because the old one could not be read.
Hows == {"found", "made", "rekeyed"}
New(key, self, how) == [key |-> key, born |-> clock, self |-> self, open |-> FALSE, how |-> how]

Cert(n) == made[n]
Due(n) == clock >= Cert(n).born + (Lifetime \div 3) * 2
Matches(d) == d.cert # NoFile /\ d.key # NoFile /\ Cert(d.cert).key = d.key

\* The ledger on disk and the CA's own count, as arrival times; whether an order was sent that no
\* entry of the ledger stands for; whether the CA refused one for its rate; an open lease; whether the
\* control plane keeps a lease open that nobody will report on; whether an issuance was ever put off.
NoBooks == [ledger |-> None, ca |-> None, off |-> FALSE, refused |-> FALSE, lease |-> FALSE,
            left |-> FALSE, deferred |-> FALSE]

Idle == [pc |-> "down", info |-> NoFile, read |-> NoFile, ari |-> FALSE, new |-> NoFile,
         had |-> FALSE, ok |-> FALSE, ledgered |-> FALSE, checked |-> TRUE]

NoDisk == [cert |-> NoFile, key |-> NoFile, bak |-> NoFile, torn |-> FALSE]
NoHttp == [port |-> "none", token |-> FALSE, record |-> "none"]
NoEvent == [pc |-> "idle", read |-> NoFile, event |-> FALSE]

\* The first start finds no files, or a pair, whoever issued it: the settings may have been others.
CertInit ==
    /\ set \in Settings
    /\ clock = 0
    /\ \/ made = <<>> /\ disk = NoDisk
       \/ /\ \E self \in BOOLEAN : made = <<New(1, self, "found")>>
          /\ disk = [NoDisk EXCEPT !.cert = 1, !.key = 1]
    /\ proc = "down"
    /\ live = [cert |-> NoFile, key |-> NoFile]
    /\ task = Idle
    /\ watcher = NoEvent
    /\ ari = [cert |-> NoFile, window |-> "none"]
    /\ books = NoBooks
    /\ http = NoHttp
    /\ faults = 0

\* Something goes wrong here.
Fault == faults < MaxFaults /\ faults' = faults + 1

\* A change in the directory wakes the watcher, which lives as long as the process.
Changed(d) ==
    /\ disk' = d
    /\ watcher' = [watcher EXCEPT !.event = set.watch /\ proc = "up"]

Goto(pc) == task' = [task EXCEPT !.pc = pc]

----------------------------------------------------------------------------
(* Boot (`run`): ACME before the self-signed floor, then the store.  A process that refused to start
   is started again. *)

Start ==
    /\ proc \notin {"boot", "up"}
    /\ proc' = "boot"
    /\ LET present == disk.cert # NoFile /\ disk.key # NoFile
       IN task' = [Idle EXCEPT !.pc = IF set.acme /\ ~present THEN "lease" ELSE "ensure"]
    /\ UNCHANGED <<set, ari, clock, made, disk, live, watcher, books, http, faults>>

Refuse(why) == proc' = why /\ task' = Idle

\* selfsigned::ensure and, when a pair has to be made, write_to; without either, the files are the
\* operator's.  At the bound on pairs none is made, and the start fails.
Ensure ==
    /\ task.pc = "ensure"
    /\ LET missing == set.self_signed /\ (disk.cert = NoFile \/ disk.key = NoFile)
       IN \/ /\ missing /\ Len(made) < MaxPairs
             /\ made' = Append(made, New(Len(made) + 1, TRUE, "made"))
             /\ task' = [task EXCEPT !.pc = "stage", !.new = Len(made) + 1] /\ proc' = proc
          \/ missing /\ Len(made) = MaxPairs /\ Refuse("no issuance") /\ made' = made
          \/ ~missing /\ Goto("load_cert") /\ UNCHANGED <<made, proc>>
    /\ UNCHANGED <<set, ari, clock, disk, live, watcher, books, http, faults>>

\* CertStore::load: the certificate, then the key; the redirect listener binds after it.  Either file
\* may be there and not be readable.
LoadCert ==
    /\ task.pc = "load_cert"
    /\ \/ /\ IF disk.cert = NoFile
             THEN Refuse("no pair")
             ELSE task' = [task EXCEPT !.pc = "load_key", !.read = disk.cert] /\ proc' = proc
          /\ faults' = faults
       \/ Fault /\ Refuse("unreadable")
    /\ UNCHANGED <<set, ari, clock, made, disk, live, watcher, books, http>>

LoadKey ==
    /\ task.pc = "load_key"
    /\ \/ /\ IF Cert(task.read).key = disk.key
             THEN /\ live' = [cert |-> task.read, key |-> disk.key]
                  /\ Goto("listen") /\ proc' = proc
             ELSE Refuse("no pair") /\ live' = live
          /\ faults' = faults
       \/ Fault /\ Refuse("unreadable") /\ live' = live
    /\ UNCHANGED <<set, ari, clock, made, disk, watcher, books, http>>

\* The tasks start, and the redirect listener takes port 80 if nobody has it.
Listen ==
    /\ task.pc = "listen"
    /\ IF set.port80 /\ http.port # "none"
       THEN Refuse("no port") /\ http' = http
       ELSE /\ proc' = "up"
            /\ task' = [Idle EXCEPT !.pc = "sleep", !.checked = FALSE]
            /\ http' = [http EXCEPT !.port = IF set.port80 THEN "redirect" ELSE @]
    /\ UNCHANGED <<set, ari, clock, made, disk, live, watcher, books, faults>>

----------------------------------------------------------------------------
(* Whether an order may be sent (check_budget), and the order (run_order). *)

\* The fleet's verdict: granted, once perhaps without the id a report would name, or put off.  A
\* request that fails falls back on the ledger, though the lease may have been granted; so do a
\* control plane that keeps no such books and an edge that has none.
Lease ==
    /\ task.pc = "lease"
    /\ \/ /\ set.managed
          /\ Goto("order")
          /\ books' = [books EXCEPT !.lease = TRUE] /\ faults' = faults
       \/ /\ set.managed /\ Fault
          /\ Goto("order")
          /\ books' = [books EXCEPT !.left = TRUE]
       \/ /\ set.managed /\ Fault
          /\ Goto("done")
          /\ books' = [books EXCEPT !.deferred = TRUE]
       \/ /\ set.managed /\ Fault
          /\ Goto("ledger")
          /\ \E granted \in BOOLEAN : books' = [books EXCEPT !.left = @ \/ granted]
       \/ Goto("ledger") /\ UNCHANGED <<books, faults>>
    /\ UNCHANGED <<set, ari, clock, made, disk, proc, live, watcher, http>>

\* The ledger is checked, debited and written before the order; it is not refunded, and an order
\* goes out even if it could not be written.  A ledger that cannot be read counts as empty, and what
\* is written over it has forgotten the orders before this one.
Ledger ==
    /\ task.pc = "ledger"
    /\ \/ /\ ~set.budget
          /\ Goto("order") /\ UNCHANGED <<books, faults>>
       \/ /\ set.budget /\ ~Admits(books.ledger, clock, CaLimit)
          /\ Goto("done")
          /\ books' = [books EXCEPT !.deferred = TRUE] /\ faults' = faults
       \/ /\ set.budget /\ Admits(books.ledger, clock, CaLimit)
          /\ task' = [task EXCEPT !.pc = "order", !.ledgered = TRUE]
          /\ books' = [books EXCEPT !.ledger = NewTat(@, clock, CaLimit)] /\ faults' = faults
       \/ /\ set.budget /\ books.ledger # None /\ Fault
          /\ task' = [task EXCEPT !.pc = "order", !.ledgered = TRUE]
          /\ books' = [books EXCEPT !.ledger = NewTat(None, clock, CaLimit), !.off = TRUE]
       \/ /\ set.budget /\ Fault
          /\ Goto("order") /\ books' = books
    /\ UNCHANGED <<set, ari, clock, made, disk, proc, live, watcher, http>>

\* The CA counts an order that reaches it, the refused ones too.
Counted(b, ledgered) ==
    [b EXCEPT !.off = @ \/ ~ledgered,
              !.refused = @ \/ ~Admits(b.ca, clock, CaLimit),
              !.ca = IF Admits(@, clock, CaLimit) THEN NewTat(@, clock, CaLimit) ELSE @]

\* new_order, naming the certificate it replaces when the CA told a renewal window for it; refused
\* with that name, it is sent again without it.
NewOrder ==
    /\ task.pc = "order"
    /\ LET once == Counted(books, task.ledgered)
           Sent(b, taken) ==
               /\ books' = b
               /\ Goto(IF taken /\ Admits(books.ca, clock, CaLimit) THEN "challenge" ELSE "settle")
       IN \/ Sent(once, TRUE) /\ faults' = faults
          \/ Sent(once, FALSE) /\ ~task.ari /\ Fault
          \/ Sent(Counted(once, FALSE), Admits(once.ca, clock, CaLimit)) /\ task.ari /\ Fault
    /\ UNCHANGED <<set, ari, clock, made, disk, proc, live, watcher, http>>

\* The challenge is answered by the redirect listener when it has port 80, else by a server of the
\* order's own, or by a TXT record; the answer is there before the CA is told that it is ready.  The
\* reply of the DNS provider can be lost, with the record made.
SharedMap == set.port80 /\ proc = "up"
Challenge ==
    /\ task.pc = "challenge"
    /\ \/ /\ set.dns
          /\ http' = [http EXCEPT !.record = "known"]
          /\ Goto("validate") /\ faults' = faults
       \/ /\ set.dns /\ Fault
          /\ \E r \in {"none", "orphan"} : http' = [http EXCEPT !.record = r]
          /\ Goto("settle")
       \/ /\ ~set.dns /\ (SharedMap \/ http.port = "none")
          /\ http' = [http EXCEPT !.token = TRUE,
                                 !.port = IF SharedMap THEN @ ELSE "challenge"]
          /\ Goto("validate") /\ faults' = faults
       \/ /\ ~set.dns /\ ~SharedMap /\ http.port # "none"
          /\ Goto("settle") /\ UNCHANGED <<http, faults>>
    /\ UNCHANGED <<set, ari, clock, made, disk, proc, live, watcher, books>>

\* The CA asks for the answer, and issues; either can fail.
Answered == IF set.dns THEN http.record = "known" ELSE http.token /\ http.port # "none"
Validate ==
    /\ task.pc = "validate"
    /\ \/ /\ Answered /\ Len(made) < MaxPairs
          /\ made' = Append(made, New(Len(made) + 1, FALSE, "made"))
          /\ task' = [task EXCEPT !.pc = "stage", !.new = Len(made) + 1] /\ faults' = faults
       \/ /\ IF Answered /\ Len(made) < MaxPairs THEN Fault ELSE faults' = faults
          /\ made' = made
          /\ Goto("settle")
    /\ UNCHANGED <<set, ari, clock, disk, proc, live, watcher, books, http>>

\* Every way out of an order clears its token, stops its server and waits for the port to be free,
\* and removes the records it knows of.
Settle ==
    /\ task.pc = "settle"
    /\ LET left == [http EXCEPT !.port = IF @ = "challenge" THEN "none" ELSE @, !.token = FALSE]
       IN \/ /\ http' = [left EXCEPT !.record = IF @ = "known" THEN "none" ELSE @]
             /\ faults' = faults
          \/ http.record = "known" /\ Fault /\ http' = [left EXCEPT !.record = "orphan"]
    /\ Goto("outcome")
    /\ UNCHANGED <<set, ari, clock, made, disk, proc, live, watcher, books>>

\* acme_lease_outcome, on every way out of the order.  A report that is lost is not sent again: the
\* control plane closes the lease when it expires.
Outcome ==
    /\ task.pc = "outcome"
    /\ \/ books' = [books EXCEPT !.lease = FALSE] /\ faults' = faults
       \/ books.lease /\ Fault /\ books' = [books EXCEPT !.lease = FALSE, !.left = TRUE]
    /\ Goto("done")
    /\ UNCHANGED <<set, ari, clock, made, disk, proc, live, watcher, http>>

----------------------------------------------------------------------------
(* publish_pair: a step for each system call that the live paths see. *)

\* Where a published or abandoned pair leads.
AfterPublish(ok) ==
    task' = [task EXCEPT !.pc = IF set.acme THEN "settle" ELSE "done", !.ok = ok]

\* Both files are staged first; a failure there leaves no trace.
Stage ==
    /\ task.pc = "stage"
    /\ \/ Goto("aside") /\ faults' = faults
       \/ Fault /\ AfterPublish(FALSE)
    /\ Changed(disk)
    /\ UNCHANGED <<set, ari, clock, made, proc, live, books, http>>

Aside ==
    /\ task.pc = "aside"
    /\ \/ /\ task' = [task EXCEPT !.pc = "put_cert", !.had = disk.cert # NoFile]
          /\ Changed([disk EXCEPT !.bak = disk.cert, !.cert = NoFile])
          /\ faults' = faults
       \/ Fault /\ AfterPublish(FALSE) /\ UNCHANGED <<disk, watcher>>
    /\ UNCHANGED <<set, ari, clock, made, proc, live, books, http>>

PutCert ==
    /\ task.pc = "put_cert"
    /\ \/ /\ Goto("put_key")
          /\ Changed([disk EXCEPT !.cert = task.new]) /\ faults' = faults
       \/ Fault /\ Goto("undo") /\ UNCHANGED <<disk, watcher>>
    /\ UNCHANGED <<set, ari, clock, made, proc, live, books, http>>

\* Mutant: a key that cannot be put in place leaves the new certificate there.
PutKeyNoUndo ==
    /\ task.pc = "put_key"
    /\ \/ /\ AfterPublish(TRUE)
          /\ Changed([disk EXCEPT !.key = Cert(task.new).key, !.bak = NoFile, !.torn = FALSE])
          /\ faults' = faults
       \/ Fault /\ AfterPublish(FALSE) /\ UNCHANGED <<disk, watcher>>
    /\ UNCHANGED <<set, ari, clock, made, proc, live, books, http>>

PutKey ==
    /\ task.pc = "put_key"
    /\ \/ /\ AfterPublish(TRUE)
          /\ Changed([disk EXCEPT !.key = Cert(task.new).key, !.bak = NoFile, !.torn = FALSE])
          /\ faults' = faults
       \/ Fault /\ Goto("undo") /\ UNCHANGED <<disk, watcher>>
    /\ UNCHANGED <<set, ari, clock, made, proc, live, books, http>>

\* The new certificate is taken away, then the old one put back; neither failure is reported.
Undo ==
    /\ task.pc = "undo"
    /\ \/ Changed([disk EXCEPT !.cert = NoFile]) /\ faults' = faults
       \/ disk.cert # NoFile /\ Fault /\ Changed(disk)
    /\ Goto("restore")
    /\ UNCHANGED <<set, ari, clock, made, proc, live, books, http>>

Restore ==
    /\ task.pc = "restore"
    /\ \/ /\ Changed(IF task.had THEN [disk EXCEPT !.cert = disk.bak, !.bak = NoFile]
                             ELSE [disk EXCEPT !.torn = @ \/ disk.cert # NoFile])
          /\ faults' = faults
       \/ task.had /\ Fault /\ Changed([disk EXCEPT !.torn = TRUE])
    /\ AfterPublish(FALSE)
    /\ UNCHANGED <<set, ari, clock, made, proc, live, books, http>>

----------------------------------------------------------------------------
(* The hourly loop (maintain) with Renewer::check. *)

\* Mutant: the hourly check leaves reloading to the watcher.
WakeNoReload ==
    /\ task.pc = "sleep"
    /\ Goto("check")
    /\ UNCHANGED <<set, ari, clock, made, disk, proc, live, watcher, books, http, faults>>

\* Reload first: what changed on disk without an event is picked up here.
Wake ==
    /\ task.pc = "sleep"
    /\ \/ /\ IF disk.cert = NoFile
             THEN Goto("check")
             ELSE task' = [task EXCEPT !.pc = "again_key", !.read = disk.cert]
          /\ faults' = faults
       \/ Fault /\ Goto("check")
    /\ UNCHANGED <<set, ari, clock, made, disk, proc, live, watcher, books, http>>

\* CertStore::reload once the certificate is read: a key that cannot be read and a pair that does not
\* match are refused, a certificate that is served already is left alone.
Reload(read) ==
    \/ /\ live' = IF Cert(read).key = disk.key /\ read # live.cert
                  THEN [cert |-> read, key |-> disk.key]
                  ELSE live
       /\ faults' = faults
    \/ Fault /\ live' = live

AgainKey ==
    /\ task.pc = "again_key"
    /\ Reload(task.read)
    /\ Goto("check")
    /\ UNCHANGED <<set, ari, clock, made, disk, proc, watcher, books, http>>

Plan == IF set.acme /\ set.renew THEN "acme"
        ELSE IF ~set.acme /\ set.self_signed /\ set.renew THEN "self_signed"
        ELSE "none"

Sleep == task' = [Idle EXCEPT !.pc = "sleep"]

\* selfsigned::renew with the key on disk, or a new one where keys are rotated or there is none.
Renewed(n) == New(IF set.rotate \/ disk.key = NoFile THEN n ELSE disk.key, TRUE, "made")

\* The same where the key on disk cannot be read or parsed: a new one, rather than an expired certificate.
Rekeyed(n) == New(n, TRUE, "rekeyed")

\* The certificate is judged by what is served now, after the CA was asked for its window.
Check ==
    /\ task.pc = "check"
    /\ task' = [task EXCEPT !.pc = IF Plan = "acme" /\ set.ari THEN "window" ELSE "decide",
                            !.info = live.cert]
    /\ UNCHANGED <<set, ari, clock, made, disk, proc, live, watcher, books, http, faults>>

\* Mutant: what was read serves whichever certificate it was read for.
WindowOfAny ==
    /\ task.pc = "window"
    /\ \/ ari.cert # NoFile /\ UNCHANGED <<ari, made, faults>>
       \/ ari' = [cert |-> task.info, window |-> "closed"] /\ UNCHANGED <<made, faults>>
       \/ /\ ari' = [cert |-> task.info, window |-> "open"]
          /\ made' = [made EXCEPT ![task.info].open = TRUE] /\ Fault
    /\ Goto("decide")
    /\ UNCHANGED <<set, clock, disk, proc, live, watcher, books, http>>

\* ari_window: what was read for this certificate serves until it is read again; no answer keeps it.
Window ==
    /\ task.pc = "window"
    /\ LET previous == IF ari.cert = task.info THEN ari.window ELSE "none"
           Read(w) == ari' = [cert |-> task.info, window |-> w]
       IN \/ ari.cert = task.info /\ UNCHANGED <<ari, made, faults>>
          \/ \E w \in {"none", "closed"} : Read(w) /\ UNCHANGED <<made, faults>>
          \/ Read("open") /\ made' = [made EXCEPT ![task.info].open = TRUE] /\ Fault
          \/ Read(previous) /\ made' = made /\ Fault
    /\ Goto("decide")
    /\ UNCHANGED <<set, clock, disk, proc, live, watcher, books, http>>

\* Two thirds of the life, or an open window; a certificate that is not self-signed is not replaced
\* by one that is.
Decide ==
    /\ task.pc = "decide"
    /\ LET info == task.info
           told == Plan = "acme" /\ set.ari /\ ari.window # "none"
           due == Due(info) \/ (told /\ ari.window = "open")
       IN \/ /\ \/ ~due \/ Plan = "none"
                \/ Plan = "self_signed" /\ (~Cert(info).self \/ Len(made) = MaxPairs)
             /\ Sleep /\ UNCHANGED <<made, faults>>
          \/ /\ due /\ Plan = "acme"
             /\ task' = [Idle EXCEPT !.pc = "lease", !.info = info, !.ari = told]
             /\ UNCHANGED <<made, faults>>
          \/ /\ due /\ Plan = "self_signed" /\ Cert(info).self /\ Len(made) < MaxPairs
             /\ \/ made' = Append(made, Renewed(Len(made) + 1)) /\ faults' = faults
                \/ ~set.rotate /\ Fault /\ made' = Append(made, Rekeyed(Len(made) + 1))
             /\ task' = [Idle EXCEPT !.pc = "stage", !.info = info, !.new = Len(made) + 1]
    /\ UNCHANGED <<set, ari, clock, disk, proc, live, watcher, books, http>>

\* An issuance is over: a boot goes on or gives up, the loop loads what was stored and sleeps.
Done ==
    /\ task.pc = "done"
    /\ \/ /\ proc = "boot" /\ task.ok
          /\ Goto("ensure") /\ UNCHANGED <<proc, live, faults>>
       \/ /\ proc = "boot" /\ ~task.ok
          /\ Refuse("no issuance") /\ UNCHANGED <<live, faults>>
       \/ /\ proc = "up"
          /\ IF task.ok THEN Reload(disk.cert) ELSE UNCHANGED <<live, faults>>
          /\ Sleep /\ proc' = proc
    /\ UNCHANGED <<set, ari, clock, made, disk, watcher, books, http>>

----------------------------------------------------------------------------
(* The watcher (watch_paths). *)

\* An event is taken, and half a second waited for the rest of them.
TakeEvent ==
    /\ proc = "up" /\ watcher.pc = "idle" /\ watcher.event
    /\ watcher' = [watcher EXCEPT !.pc = "waiting", !.event = FALSE]
    /\ UNCHANGED <<set, ari, clock, made, disk, proc, live, task, books, http, faults>>

\* The events of the wait are drained, then the certificate is read.
Settled ==
    /\ proc = "up" /\ watcher.pc = "waiting"
    /\ \/ /\ watcher' = IF disk.cert = NoFile
                        THEN NoEvent
                        ELSE [pc |-> "key", read |-> disk.cert, event |-> FALSE]
          /\ faults' = faults
       \/ Fault /\ watcher' = NoEvent
    /\ UNCHANGED <<set, ari, clock, made, disk, proc, live, task, books, http>>

WatchedKey ==
    /\ proc = "up" /\ watcher.pc = "key"
    /\ Reload(watcher.read)
    /\ watcher' = [watcher EXCEPT !.pc = "idle", !.read = NoFile]
    /\ UNCHANGED <<set, ari, clock, made, disk, proc, task, books, http>>

----------------------------------------------------------------------------
(* What happens to the process. *)

\* The loop sleeps twelve hours at most (MAX_BACKOFF), far less than a third of a life: it has
\* looked at the certificate, and the watcher has seen the events, since the clock's last step.
Quiet == task.pc = "sleep" /\ task.checked /\ ~watcher.event /\ watcher.pc = "idle"
Tick ==
    /\ clock < LastTime
    /\ proc # "boot"
    /\ proc = "up" => Quiet
    /\ clock' = clock + 1
    /\ task' = IF proc = "up" THEN [task EXCEPT !.checked = FALSE] ELSE task
    /\ UNCHANGED <<set, ari, made, disk, proc, live, watcher, books, http, faults>>

\* A crash at any step: the files stay as they are, and the control plane lets a lease expire.
Crash ==
    /\ proc \in {"boot", "up"} /\ Fault
    /\ proc' = "down"
    /\ live' = [cert |-> NoFile, key |-> NoFile]
    /\ task' = Idle
    /\ watcher' = NoEvent
    /\ books' = [books EXCEPT !.lease = FALSE, !.left = @ \/ books.lease]
    /\ http' = [NoHttp EXCEPT !.record = IF http.record = "none" THEN "none" ELSE "orphan"]
    /\ disk' = [disk EXCEPT !.torn = @ \/ task.pc \in {"put_cert", "put_key", "undo", "restore"}]
    /\ ari' = [cert |-> NoFile, window |-> "none"]
    /\ UNCHANGED <<set, clock, made>>

\* An operator's tool replaces the certificate, then the key.
ReplaceCert ==
    /\ set.operator /\ Len(made) < MaxPairs
    /\ disk.cert = NoFile \/ Matches(disk)
    /\ made' = Append(made, New(Len(made) + 1, FALSE, "made"))
    /\ Changed([disk EXCEPT !.cert = Len(made) + 1])
    /\ UNCHANGED <<set, ari, clock, proc, live, task, books, http, faults>>

ReplaceKey ==
    /\ set.operator /\ disk.cert # NoFile /\ ~Matches(disk)
    /\ Changed([disk EXCEPT !.key = Cert(disk.cert).key])
    /\ UNCHANGED <<set, ari, clock, made, proc, live, task, books, http, faults>>

Working == \/ Ensure \/ LoadCert \/ LoadKey \/ Listen
           \/ Lease \/ Ledger \/ NewOrder \/ Challenge \/ Validate \/ Settle \/ Outcome
           \/ Stage \/ Aside \/ PutCert \/ PutKey \/ Undo \/ Restore
           \/ Wake \/ AgainKey \/ Check \/ Window \/ Decide \/ Done
Watching == TakeEvent \/ Settled \/ WatchedKey

CertNext == Start \/ Working \/ Watching \/ Tick \/ Crash \/ ReplaceCert \/ ReplaceKey

\* Tokio runs a ready task, and an hour passes; a crash, the operator and the clock owe nothing.
CertSpec == CertInit /\ [][CertNext]_certVars /\ WF_certVars(Working) /\ WF_certVars(Watching)

----------------------------------------------------------------------------
(* Properties. *)

Publishing == task.pc \in {"put_cert", "put_key", "undo", "restore"}

CertTypeOK ==
    /\ set \in Settings /\ clock \in 0..LastTime /\ faults \in 0..MaxFaults
    /\ Len(made) <= MaxPairs
    /\ disk \in [cert : 0..MaxPairs, key : 0..MaxPairs, bak : 0..MaxPairs, torn : BOOLEAN]
    /\ live \in [cert : 0..MaxPairs, key : 0..MaxPairs]
    /\ proc \in {"down", "boot", "up", "no pair", "unreadable", "no port", "no issuance"}
    /\ http \in [port : {"none", "challenge", "redirect"}, token : BOOLEAN,
                record : {"none", "known", "orphan"}]

\* Handshakes never get a certificate with another certificate's key, though the two files are
\* replaced and read one after the other by tasks that do not wait for each other (load_pair).
NeverMismatched == live.cert # NoFile => Cert(live.cert).key = live.key

\* A publication that fails leaves the pair that was there (publish_pair): outside it the files are a
\* pair or are both missing, unless a crash, or a failure of the undoing, cut the last one short.
PairConsistent ==
    disk.torn \/ Publishing \/ set.operator \/ Matches(disk)
    \/ (disk.cert = NoFile /\ disk.key = NoFile)

\* A start that can read its files refuses them only where nothing in the process could have made
\* them, or after a publication was cut short; a restart of a process that makes its own certificate
\* loads one.
StartsAgain == proc = "no pair" => disk.torn \/ set.operator \/ ~(set.acme \/ set.self_signed)

\* With ACME on, no start and no renewal makes a self-signed certificate, whatever fails or is put off
\* and with the self-signed floor configured as well (the order of the two in `run`): the only one
\* that is ever served is the one the first start found on disk, which `run` keeps whoever issued it.
NeverDowngraded ==
    set.acme /\ live.cert # NoFile => ~Cert(live.cert).self \/ Cert(live.cert).how = "found"

\* The CA refuses an order for its rate only if some order went out beside the ledger: leased from
\* the fleet, sent again without the name of what it replaces, with the ledger off or unwritable, or
\* forgotten by a ledger that could not be read.
\* A crash between the debit and the order costs an entry, never an uncounted order.
RefusalExplained == books.refused => books.off

\* An order is sent for a certificate that two thirds of its life are gone of, or that the CA said a
\* window is open for: never on the word given for the certificate before it (ari_window).
RenewalJustified ==
    proc = "up" /\ task.pc = "order" => Due(task.info) \/ Cert(task.info).open

\* Nothing keeps a served certificate from being replaced before it expires but a fault, an
\* exhausted budget, or a plan that renews nothing.
RenewedInTime ==
    [][clock' # clock /\ proc = "up"
          /\ (Plan = "acme" \/ (Plan = "self_signed" /\ Cert(live.cert).self))
       => \/ clock' < Cert(live.cert).born + Lifetime
          \/ faults > 0 \/ books.deferred \/ books.refused \/ Len(made) = MaxPairs]_certVars

\* Port 80 is free whenever an order's own server or the redirect listener is about to bind it.
PortIsFree ==
    /\ task.pc = "listen" => http.port = "none"
    /\ task.pc = "challenge" /\ ~SharedMap => http.port = "none"

\* The CA is told to look only when the answer can be had, and no answer outlives its order but a
\* record whose publication or removal went wrong.
ChallengeAnswered ==
    /\ task.pc = "validate" => Answered
    /\ task.pc \in {"down", "sleep", "check", "done"} =>
          ~http.token /\ http.record # "known"

\* No way out of an order forgets its lease (obtain_certificate_replacing): one is left for the control
\* plane to close only if the grant or the report was lost, or the process crashed.
LeaseClosed ==
    /\ books.lease => task.pc \notin {"down", "sleep", "check", "done"}
    /\ books.left => faults > 0

\* While self-signed certificates are renewed with the key they had, clients that pinned it keep
\* working: it changes only after a publication that was cut short, or with a certificate that was
\* given a new key because a renewal could not read the old one (renew).
KeyKept ==
    [][set.self_signed /\ ~set.acme /\ ~set.rotate /\ ~disk.torn
          => \/ disk.key' = disk.key \/ disk.key = NoFile
             \/ disk.cert # NoFile /\ Cert(disk.cert).how = "rekeyed"]_certVars

\* A pair on disk is served in the end, though an event can be lost, come before the file can be
\* read, or find an older reload still running.
EventuallyServed == []<>(proc # "up" \/ ~Matches(disk) \/ live.cert = disk.cert)

\* The pair survives whatever comes between two system calls: what is served and what is on disk
\* belong together, a restart finds or makes a pair, and nothing in the process falls back to a
\* self-signed one.
PairKept == CertTypeOK /\ NeverMismatched /\ PairConsistent /\ StartsAgain /\ NeverDowngraded

\* Orders are counted, justified, and leave nothing behind: within the CA's limit unless they went
\* beside the ledger, only for what is due, with the port and the challenge in place, and with port,
\* challenge and lease given back.
OrdersKept == RefusalExplained /\ RenewalJustified /\ PortIsFree /\ ChallengeAnswered /\ LeaseClosed

\* Certificates are renewed in time, under the same key where that is configured, and what is on disk
\* comes to be served.
RenewalsReach == RenewedInTime /\ KeyKept /\ EventuallyServed
=============================================================================
