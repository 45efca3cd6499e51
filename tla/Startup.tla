------------------------------ MODULE Startup ------------------------------
(***************************************************************************)
(* From the start of the process to the open port, and the end of it.      *)
(* main prepares what outlives it one part after the other (directories,   *)
(* schema, first key) and checks the settings in between: a start that     *)
(* fails leaves a part of the work to the next one.  The rotator runs      *)
(* before the port is open, and a port that is taken ends main without an  *)
(* error.                                                                  *)
(*                                                                         *)
(* The service manager keeps one instance running; others are started by   *)
(* hand and use the same home directory.  The rotation itself is module    *)
(* Ecash, here it ends with a new key or without one.                      *)
(***************************************************************************)
EXTENDS Integers

CONSTANTS
    Instances,    \* processes of the program
    Service,      \* the one that the service manager restarts
    Settings,     \* environment variables considered
    Surroundings, \* what else a start depends on
    Latest,       \* the number of migrations
    Repeatable,   \* those that do no harm a second time: IF NOT EXISTS throughout
    MaxKeys,      \* bound: rows of cashu_pubkey
    MaxActs,      \* bound: acts of the operator
    MaxFaults,    \* bound: crashes and failed commits
    Faults

ASSUME StartupAssumption ==
    /\ Service \in Instances
    /\ Settings \subseteq {"HOME", "DOMAIN", "SEED", "TRUSTED_MINT", "OWNER_NPUB", "COST"}
    /\ Surroundings \subseteq {"disk", "mint", "port"}
    /\ {Latest, MaxKeys, MaxActs, MaxFaults} \subseteq Nat
    /\ Repeatable \subseteq 1 .. Latest
    /\ Faults \subseteq {"crash", "commit"}

VARIABLES
    wrong,   \* the settings of an instance that are missing or malformed
    broken,  \* the surroundings that do not work
    acts,    \* acts of the operator so far
    faults,  \* faults so far
    dirs,    \* the directories there are
    applied, \* the migrations whose changes the database has
    schema,  \* the version in the latest row of goose_db_version
    keys,    \* the versions in cashu_pubkey: 1 .. keys
    pc,      \* where main is in an instance
    seen,    \* the schema version it read last
    wallet,  \* the version its wallet works with; 0: the zero CurrentPubkey
    rot      \* its rotator goroutine

vars == <<wrong, broken, acts, faults, dirs, applied, schema, keys, pc, seen, wallet, rot>>

Init ==
    /\ wrong \in [Instances -> SUBSET Settings]
    /\ broken \in SUBSET Surroundings
    /\ acts = 0
    /\ faults = 0
    /\ dirs = {}
    /\ applied = {}
    /\ schema = 0
    /\ keys = 0
    /\ pc = [i \in Instances |-> "down"]
    /\ seen = [i \in Instances |-> 0]
    /\ wallet = [i \in Instances |-> 0]
    /\ rot = [i \in Instances |-> "off"]

Fault(kind) ==
    /\ kind \in Faults
    /\ faults < MaxFaults
    /\ faults' = faults + 1

Runs(i) == pc[i] \notin {"down", "exited"}

\* Somebody else may have locked the database.
Contended(i) == \E j \in Instances \ {i} : Runs(j)

GoTo(i, step) == pc' = [pc EXCEPT ![i] = step]

\* The process is gone; the service manager will start it again ("down") or not
\* ("exited").
End(i, how) ==
    /\ GoTo(i, how)
    /\ seen' = [seen EXCEPT ![i] = 0]
    /\ wallet' = [wallet EXCEPT ![i] = 0]
    /\ rot' = [rot EXCEPT ![i] = "off"]

\* log.Panicf and log.Fatalf.
Panicf(i) == End(i, "down") /\ UNCHANGED <<dirs, applied, schema, keys>>

Stay == UNCHANGED <<wrong, broken, acts>>

-----------------------------------------------------------------------------
(* The steps of main *)

\* A directory that is there already needs no disk.
MakeSureFilePathExists(i, new) ==
    /\ "HOME" \notin wrong[i]
    /\ new \subseteq dirs \/ "disk" \notin broken
    /\ dirs' = dirs \cup new

CannotMake(i, new) ==
    \/ "HOME" \in wrong[i]
    \/ ~(new \subseteq dirs) /\ "disk" \in broken

GetRastaskerHomeDirectory(i) ==
    /\ pc[i] = "home"
    /\ \/ /\ MakeSureFilePathExists(i, {"home"})
          /\ GoTo(i, "migrate")
          /\ UNCHANGED <<applied, schema, seen, keys, wallet, rot>>
       \/ /\ CannotMake(i, {"home"})
          /\ Panicf(i)
    /\ Stay /\ UNCHANGED faults

\* goose.Up looks at the latest row of its table: which migration is next, if any.
ReadVersion(i) ==
    /\ pc[i] = "migrate"
    /\ \/ /\ "disk" \notin broken
          /\ seen' = [seen EXCEPT ![i] = schema]
          /\ GoTo(i, IF schema < Latest THEN "apply" ELSE "data")
          /\ UNCHANGED <<dirs, applied, schema, keys, wallet, rot>>
       \/ /\ "disk" \in broken \/ Contended(i)
          /\ Panicf(i)
    /\ Stay /\ UNCHANGED faults

\* Mutant: a migration that fails is logged.
ApplyUnchecked(i) ==
    /\ pc[i] = "apply"
    /\ \/ /\ "disk" \notin broken
          /\ applied' = applied \cup {seen[i] + 1}
          /\ schema' = seen[i] + 1
       \/ /\ "disk" \in broken
          /\ schema' = seen[i] + 1
          /\ UNCHANGED applied
    /\ GoTo(i, "migrate")
    /\ UNCHANGED <<dirs, seen, keys, wallet, rot, faults>> /\ Stay

\* Mutant: the row is numbered after the latest one.
ApplyAndCount(i) ==
    /\ pc[i] = "apply"
    /\ "disk" \notin broken
    /\ seen[i] + 1 \in applied => seen[i] + 1 \in Repeatable
    /\ applied' = applied \cup {seen[i] + 1}
    /\ schema' = schema + 1
    /\ GoTo(i, "migrate")
    /\ UNCHANGED <<dirs, seen, keys, wallet, rot, faults>> /\ Stay

\* The migration and its row, in a transaction of their own.  No lock is held since
\* the version was read: another instance may have applied the migration meanwhile.
\* Then it fails, or does nothing more than add its row once again.
ApplyMigration(i) ==
    LET next == seen[i] + 1 IN
    /\ pc[i] = "apply"
    /\ \/ /\ "disk" \notin broken
          /\ next \in applied => next \in Repeatable
          /\ applied' = applied \cup {next}
          /\ schema' = next
          /\ GoTo(i, "migrate")
          /\ UNCHANGED <<dirs, seen, keys, wallet, rot>>
       \/ /\ "disk" \in broken \/ Contended(i) \/ next \in applied \ Repeatable
          /\ Panicf(i)
    /\ Stay /\ UNCHANGED faults

DatabaseSetup(i) == ReadVersion(i) \/ ApplyMigration(i)

MakeFileSystemHandler(i) ==
    /\ pc[i] = "data"
    /\ \/ /\ MakeSureFilePathExists(i, {"home", "data"})
          /\ GoTo(i, "settings")
          /\ UNCHANGED <<applied, schema, seen, keys, wallet, rot>>
       \/ /\ CannotMake(i, {"home", "data"})
          /\ Panicf(i)
    /\ Stay /\ UNCHANGED faults

CheckDomainAndSeed(i) ==
    /\ pc[i] = "settings"
    /\ IF wrong[i] \cap {"DOMAIN", "SEED"} = {}
       THEN GoTo(i, "wallet") /\ UNCHANGED <<dirs, applied, schema, seen, keys, wallet, rot>>
       ELSE Panicf(i)
    /\ Stay /\ UNCHANGED faults

\* The versions after NewDBLocalWallet.
FirstKey == IF keys = 0 THEN 1 ELSE keys

\* Mutant: a table without an active key is an error.
WalletNeedsKey(i) ==
    /\ pc[i] = "wallet"
    /\ \/ /\ keys > 0
          /\ wallet' = [wallet EXCEPT ![i] = keys]
          /\ GoTo(i, "owner")
          /\ UNCHANGED <<dirs, applied, schema, seen, keys, rot>>
       \/ /\ keys = 0
          /\ Panicf(i)
    /\ Stay /\ UNCHANGED faults

\* One transaction: the mint is asked for its keys, the held proofs are read, and the
\* first key is made if there is none.  The wallet works with the version that
\* GetActivePubkey found.  A commit that fails is only logged.
NewDBLocalWallet(i) ==
    /\ pc[i] = "wallet"
    /\ \/ /\ "TRUSTED_MINT" \notin wrong[i]
          /\ {"mint", "disk"} \cap broken = {}
          /\ wallet' = [wallet EXCEPT ![i] = keys]
          /\ GoTo(i, "owner")
          /\ \/ keys' = FirstKey /\ UNCHANGED faults
             \/ Fault("commit") /\ UNCHANGED keys
          /\ UNCHANGED <<dirs, applied, schema, seen, rot>>
       \/ /\ "TRUSTED_MINT" \in wrong[i] \/ {"mint", "disk"} \cap broken # {} \/ Contended(i)
          /\ Panicf(i)
          /\ UNCHANGED faults
    /\ Stay

\* OWNER_NPUB and the costs are looked at when the key is committed; then the rotator
\* starts, and only then main tries to listen.
CheckOwnerAndCosts(i) ==
    /\ pc[i] = "owner"
    /\ IF wrong[i] \cap {"OWNER_NPUB", "COST"} = {}
       THEN /\ GoTo(i, "listen")
            /\ rot' = [rot EXCEPT ![i] = "sleep"]
            /\ UNCHANGED <<dirs, applied, schema, seen, keys, wallet>>
       ELSE Panicf(i)
    /\ Stay /\ UNCHANGED faults

\* The error of r.Run is dropped: main returns, whatever the rotator is doing.
Run(i) ==
    /\ pc[i] = "listen"
    /\ \/ /\ "port" \notin broken
          /\ \A j \in Instances : pc[j] # "serving"
          /\ GoTo(i, "serving")
          /\ UNCHANGED <<seen, wallet, rot>>
       \/ /\ "port" \in broken \/ \E j \in Instances : pc[j] = "serving"
          /\ End(i, "exited")
    /\ UNCHANGED <<dirs, applied, schema, keys, faults>> /\ Stay

-----------------------------------------------------------------------------
(* The rotator *)

\* The key may have expired; that of a first start always has.
BeginRotation(i) ==
    /\ rot[i] = "sleep"
    /\ rot' = [rot EXCEPT ![i] = "rotating"]
    /\ UNCHANGED <<faults, dirs, applied, schema, seen, keys, pc, wallet>> /\ Stay

EndRotation(i) ==
    /\ rot[i] = "rotating"
    /\ rot' = [rot EXCEPT ![i] = "sleep"]
    /\ \/ /\ keys < MaxKeys
          /\ keys' = keys + 1
          /\ wallet' = [wallet EXCEPT ![i] = keys']
       \/ UNCHANGED <<keys, wallet>>
    /\ UNCHANGED <<faults, dirs, applied, schema, seen, pc>> /\ Stay

-----------------------------------------------------------------------------
(* The service manager, the operator and the machine *)

Exec(i) ==
    /\ GoTo(i, "home")
    /\ UNCHANGED <<wrong, broken, faults, dirs, applied, schema, seen, keys, wallet, rot>>

\* Restart=on-failure.
Restart == pc[Service] = "down" /\ Exec(Service) /\ UNCHANGED acts

\* Failures that follow each other too fast: the service manager stops restarting.
GiveUp ==
    /\ pc[Service] = "down"
    /\ GoTo(Service, "exited")
    /\ UNCHANGED <<wrong, broken, acts, faults, dirs, applied, schema, seen, keys, wallet,
                   rot>>

Act == acts < MaxActs /\ acts' = acts + 1

StartByHand(i) == ~Runs(i) /\ Act /\ Exec(i)

\* A process keeps the environment it was started with.
ChangeSetting(i, s) ==
    /\ Act
    /\ ~Runs(i)
    /\ wrong' = [wrong EXCEPT ![i] = IF s \in @ THEN @ \ {s} ELSE @ \cup {s}]
    /\ UNCHANGED <<broken, faults, dirs, applied, schema, seen, keys, pc, wallet, rot>>

ChangeSurroundings(s) ==
    /\ Act
    /\ broken' = IF s \in broken THEN broken \ {s} ELSE broken \cup {s}
    /\ UNCHANGED <<wrong, faults, dirs, applied, schema, seen, keys, pc, wallet, rot>>

Crash(i) ==
    /\ Runs(i)
    /\ Fault("crash")
    /\ Panicf(i)
    /\ Stay

-----------------------------------------------------------------------------
(* Specification *)

Boot(i) ==
    \/ GetRastaskerHomeDirectory(i)
    \/ DatabaseSetup(i)
    \/ MakeFileSystemHandler(i)
    \/ CheckDomainAndSeed(i)
    \/ NewDBLocalWallet(i)
    \/ CheckOwnerAndCosts(i)
    \/ Run(i)

Next ==
    \/ \E i \in Instances : Boot(i)
    \/ \E i \in Instances : BeginRotation(i)
    \/ \E i \in Instances : EndRotation(i)
    \/ Restart
    \/ GiveUp
    \/ \E i \in Instances : StartByHand(i)
    \/ \E i \in Instances, s \in Settings : ChangeSetting(i, s)
    \/ \E s \in Surroundings : ChangeSurroundings(s)
    \/ \E i \in Instances : Crash(i)

Spec == Init /\ [][Next]_vars

\* main runs, and the service manager restarts what failed or gives up.
Fairness ==
    /\ \A i \in Instances : WF_vars(Boot(i))
    /\ WF_vars(Restart)

FairSpec == Spec /\ Fairness

-----------------------------------------------------------------------------
(* Properties *)

\* The type invariant.
TypeOK ==
    /\ wrong \in [Instances -> SUBSET Settings]
    /\ broken \subseteq Surroundings
    /\ acts \in Nat
    /\ faults \in Nat
    /\ dirs \subseteq {"home", "data"}
    /\ applied \subseteq 1 .. Latest
    /\ schema \in 0 .. Latest
    /\ keys \in Nat
    /\ pc \in [Instances -> {"down", "exited", "home", "migrate", "apply", "data",
                             "settings", "wallet", "owner", "listen", "serving"}]
    /\ seen \in [Instances -> 0 .. Latest]
    /\ wallet \in [Instances -> Nat]
    /\ rot \in [Instances -> {"off", "sleep", "rotating"}]

\* Neither a request nor a rotation ever runs on less than all that main prepares,
\* although each part may be the work of another start or instance, starts are cut short
\* anywhere (main.go:45-124), and two of them migrate the database side by side with
\* stale versions (sqlite.go:452).  The one exception is the first key, when its commit
\* failed (backend.go:92-95).
RunsOnWhole ==
    \A i \in Instances :
        (pc[i] = "serving" \/ rot[i] # "off") =>
            /\ applied = 1 .. Latest
            /\ dirs = {"home", "data"}
            /\ wrong[i] = {}
            /\ keys > 0 \/ faults > 0

\* Once nothing is wrong a restart loop ends with an open port, from whatever part of
\* the work the failed starts left, a migration that was applied twice or whose row came
\* late included; unless the service manager gave up, or the port was
\* taken and main returned without an error, which it takes for the end (main.go:184).
ComesUp ==
    (wrong[Service] = {} /\ broken = {}) ~>
        \/ \E i \in Instances : pc[i] = "serving"
        \/ pc[Service] = "exited"
        \/ ~(wrong[Service] = {} /\ broken = {})

=============================================================================
