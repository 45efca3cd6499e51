---------------------------- MODULE StartupProofs ----------------------------
(***************************************************************************)
(* What runs, runs on all that main prepares: for any instances, settings  *)
(* and surroundings, number of migrations and bounds.                      *)
(***************************************************************************)
EXTENDS Startup, TLAPS

\* How much of the work is done at each step of main.  What outlives the process is
\* never undone, and the settings of an instance that runs do not change.
Reached(i) ==
    /\ pc[i] = "apply" => seen[i] < Latest /\ 1 .. seen[i] \subseteq applied
    /\ pc[i] \in {"data", "settings", "wallet", "owner", "listen", "serving"} =>
         applied = 1 .. Latest
    /\ pc[i] \in {"settings", "wallet", "owner", "listen", "serving"} =>
         dirs = {"home", "data"} /\ "HOME" \notin wrong[i]
    /\ pc[i] \in {"wallet", "owner", "listen", "serving"} =>
         wrong[i] \cap {"DOMAIN", "SEED"} = {}
    /\ pc[i] \in {"owner", "listen", "serving"} =>
         "TRUSTED_MINT" \notin wrong[i] /\ (keys > 0 \/ faults > 0)
    /\ pc[i] \in {"listen", "serving"} =>
         wrong[i] \cap {"OWNER_NPUB", "COST"} = {}
    /\ rot[i] # "off" => pc[i] \in {"listen", "serving"}

\* The latest row may be behind the database, it is never ahead of it.
StartInv == TypeOK /\ 1 .. schema \subseteq applied /\ \A i \in Instances : Reached(i)

LEMMA StartInit == Init => StartInv
BY StartupAssumption DEF StartupAssumption, Init, StartInv, TypeOK, Reached

Steps == {"down", "exited", "home", "migrate", "apply", "data", "settings", "wallet", "owner",
          "listen", "serving"}

LEMMA GoToType ==
    ASSUME TypeOK, NEW i \in Instances, NEW step \in Steps, GoTo(i, step)
    PROVE  pc' \in [Instances -> Steps]
BY DEF TypeOK, GoTo, Steps

LEMMA EndType ==
    ASSUME TypeOK, NEW i \in Instances, NEW how \in {"down", "exited"}, End(i, how)
    PROVE  /\ pc' \in [Instances -> Steps]
           /\ seen' \in [Instances -> 0 .. Latest]
           /\ wallet' \in [Instances -> Nat]
           /\ rot' \in [Instances -> {"off", "sleep", "rotating"}]
<1>1. pc' \in [Instances -> Steps]
  BY GoToType DEF End, Steps
<1>2. 0 \in 0 .. Latest
  BY StartupAssumption DEF StartupAssumption
<1> QED
  BY <1>1, <1>2 DEF TypeOK, End

\* A step of main keeps every variable within its type.
LEMMA BootType ==
    ASSUME TypeOK, NEW i \in Instances, Reached(i), Boot(i)
    PROVE  TypeOK'
<1>1. UNCHANGED <<wrong, broken, acts>> /\ faults' \in Nat
  BY DEF Boot, GetRastaskerHomeDirectory, DatabaseSetup, ReadVersion, ApplyMigration,
     MakeFileSystemHandler, CheckDomainAndSeed, NewDBLocalWallet, CheckOwnerAndCosts, Run,
     Stay, Fault, TypeOK
<1>2. pc' \in [Instances -> Steps]
  <2>1. ASSUME UNCHANGED pc \/ \E step \in Steps : GoTo(i, step)
        PROVE  pc' \in [Instances -> Steps]
    BY <2>1, GoToType DEF TypeOK, Steps
  <2> QED
    BY <2>1, EndType DEF Boot, GetRastaskerHomeDirectory, DatabaseSetup, ReadVersion,
       ApplyMigration, MakeFileSystemHandler, CheckDomainAndSeed, NewDBLocalWallet,
       CheckOwnerAndCosts, Run, Panicf, Steps
<1>3. wallet' \in [Instances -> Nat] /\ rot' \in [Instances -> {"off", "sleep", "rotating"}]
  <2>1. CASE Panicf(i) \/ End(i, "exited")
    BY <2>1, EndType DEF Panicf
  <2>2. CASE ~Panicf(i) /\ ~End(i, "exited")
    <3>1. wallet' = wallet \/ wallet' = [wallet EXCEPT ![i] = keys]
      BY <2>2 DEF Boot, GetRastaskerHomeDirectory, DatabaseSetup, ReadVersion,
         ApplyMigration, MakeFileSystemHandler, CheckDomainAndSeed, NewDBLocalWallet,
         CheckOwnerAndCosts, Run
    <3>2. rot' = rot \/ rot' = [rot EXCEPT ![i] = "sleep"]
      BY <2>2 DEF Boot, GetRastaskerHomeDirectory, DatabaseSetup, ReadVersion,
         ApplyMigration, MakeFileSystemHandler, CheckDomainAndSeed, NewDBLocalWallet,
         CheckOwnerAndCosts, Run
    <3> QED
      BY <3>1, <3>2 DEF TypeOK
  <2> QED
    BY <2>1, <2>2
<1>4. dirs' \subseteq {"home", "data"} /\ keys' \in Nat
  <2>1. \/ dirs' = dirs \/ dirs' = dirs \cup {"home"} \/ dirs' = dirs \cup {"home", "data"}
    BY DEF Boot, GetRastaskerHomeDirectory, DatabaseSetup, ReadVersion, ApplyMigration,
       MakeFileSystemHandler, MakeSureFilePathExists, CheckDomainAndSeed, NewDBLocalWallet,
       CheckOwnerAndCosts, Run, Panicf
  <2>2. keys' = keys \/ keys' = FirstKey
    BY DEF Boot, GetRastaskerHomeDirectory, DatabaseSetup, ReadVersion, ApplyMigration,
       MakeFileSystemHandler, CheckDomainAndSeed, NewDBLocalWallet, CheckOwnerAndCosts, Run,
       Panicf
  <2>3. dirs \subseteq {"home", "data"} /\ keys \in Nat
    BY DEF TypeOK
  <2>4. dirs' \subseteq {"home", "data"}
    BY <2>1, <2>3
  <2>5. keys' \in Nat
    BY <2>2, <2>3 DEF FirstKey
  <2> QED
    BY <2>4, <2>5
<1>5. /\ applied' \subseteq 1 .. Latest
      /\ schema' \in 0 .. Latest
      /\ seen' \in [Instances -> 0 .. Latest]
  <2>1. Latest \in Nat /\ schema \in 0 .. Latest /\ seen[i] \in 0 .. Latest
    BY StartupAssumption DEF StartupAssumption, TypeOK
  <2>2. \/ UNCHANGED <<applied, schema>>
        \/ /\ pc[i] = "apply"
           /\ applied' = applied \cup {seen[i] + 1}
           /\ schema' = seen[i] + 1
    BY DEF Boot, GetRastaskerHomeDirectory, DatabaseSetup, ReadVersion, ApplyMigration,
       MakeFileSystemHandler, CheckDomainAndSeed, NewDBLocalWallet, CheckOwnerAndCosts, Run,
       Panicf
  <2>3. pc[i] = "apply" => seen[i] + 1 \in 1 .. Latest
    BY <2>1 DEF Reached
  <2>4. \/ seen' = seen
        \/ \E v \in {0, schema} : seen' = [seen EXCEPT ![i] = v]
    BY DEF Boot, GetRastaskerHomeDirectory, DatabaseSetup, ReadVersion, ApplyMigration,
       MakeFileSystemHandler, CheckDomainAndSeed, NewDBLocalWallet, CheckOwnerAndCosts, Run,
       Panicf, End
  <2>5. seen' \in [Instances -> 0 .. Latest]
    BY <2>1, <2>4 DEF TypeOK
  <2>6. applied \subseteq 1 .. Latest
    BY DEF TypeOK
  <2>7. applied' \subseteq 1 .. Latest
    BY <2>2, <2>3, <2>6
  <2>8. schema' \in 0 .. Latest
    BY <2>1, <2>2, <2>3
  <2> QED
    BY <2>5, <2>7, <2>8
<1> QED
  BY <1>1, <1>2, <1>3, <1>4, <1>5 DEF TypeOK, Steps

LEMMA TypeNext == StartInv /\ [Next]_vars => TypeOK'
<1> SUFFICES ASSUME StartInv, [Next]_vars PROVE TypeOK'
  OBVIOUS
<1>9. TypeOK /\ \A i \in Instances : Reached(i)
  BY DEF StartInv
<1> USE <1>9
<1>1. ASSUME NEW i \in Instances, BeginRotation(i) \/ EndRotation(i)
      PROVE  TypeOK'
  <2>1. keys' \in Nat /\ wallet' \in [Instances -> Nat]
    BY <1>1 DEF BeginRotation, EndRotation, TypeOK
  <2>2. rot' \in [Instances -> {"off", "sleep", "rotating"}]
    BY <1>1 DEF BeginRotation, EndRotation, TypeOK
  <2>3. UNCHANGED <<wrong, broken, acts, faults, dirs, applied, schema, pc, seen>>
    BY <1>1 DEF BeginRotation, EndRotation, Stay
  <2> QED
    BY <2>1, <2>2, <2>3 DEF TypeOK
<1>2. ASSUME NEW i \in Instances, Exec(i), acts' \in Nat
      PROVE  TypeOK'
  <2>1. pc' \in [Instances -> Steps]
    BY <1>2, GoToType DEF Exec, Steps
  <2> QED
    BY <1>2, <2>1 DEF Exec, TypeOK, Steps
<1>3. ASSUME Restart \/ \E i \in Instances : StartByHand(i)
      PROVE  TypeOK'
  BY <1>2, <1>3, StartupAssumption DEF StartByHand, Restart, Act, TypeOK, StartupAssumption
<1>4. ASSUME NEW i \in Instances, NEW s \in Settings, ChangeSetting(i, s)
      PROVE  TypeOK'
  BY <1>4 DEF ChangeSetting, Act, TypeOK
<1>5. ASSUME NEW s \in Surroundings, ChangeSurroundings(s)
      PROVE  TypeOK'
  BY <1>5 DEF ChangeSurroundings, Act, TypeOK
<1>6. ASSUME NEW i \in Instances, Crash(i)
      PROVE  TypeOK'
  <2>1. /\ pc' \in [Instances -> Steps]
        /\ seen' \in [Instances -> 0 .. Latest]
        /\ wallet' \in [Instances -> Nat]
        /\ rot' \in [Instances -> {"off", "sleep", "rotating"}]
    BY <1>6, EndType DEF Crash, Panicf
  <2>2. faults' \in Nat
    BY <1>6 DEF Crash, Fault, TypeOK
  <2>3. UNCHANGED <<wrong, broken, acts, dirs, applied, schema, keys>>
    BY <1>6 DEF Crash, Panicf, Stay
  <2> QED
    BY <2>1, <2>2, <2>3 DEF TypeOK, Steps
<1>7. CASE UNCHANGED vars
  BY <1>7 DEF vars, TypeOK
<1>8. ASSUME GiveUp PROVE TypeOK'
  <2>1. pc' \in [Instances -> Steps]
    BY <1>8, GoToType, StartupAssumption DEF GiveUp, StartupAssumption, Steps
  <2> QED
    BY <1>8, <2>1 DEF GiveUp, TypeOK, Steps
<1> QED
  BY <1>1, <1>3, <1>4, <1>5, <1>6, <1>7, <1>8, BootType DEF Next

\* What the others have reached stands when a step undoes nothing.
LEMMA OthersReached ==
    ASSUME StartInv, NEW i \in Instances, TypeOK',
           applied \subseteq applied',
           1 .. schema' \subseteq applied',
           dirs \subseteq dirs',
           keys > 0 => keys' > 0,
           faults > 0 => faults' > 0,
           \A j \in Instances : j # i =>
              /\ pc'[j] = pc[j] /\ seen'[j] = seen[j]
              /\ rot'[j] = rot[j] /\ wrong'[j] = wrong[j],
           Reached(i)'
    PROVE  StartInv'
<1> SUFFICES ASSUME NEW j \in Instances, j # i PROVE Reached(j)'
  BY DEF StartInv
<1>1. Reached(j)
  BY DEF StartInv
<1>2. dirs' \subseteq {"home", "data"}
  BY DEF TypeOK
<1>3. dirs = {"home", "data"} => dirs' = {"home", "data"}
  BY <1>2
<1>4. applied = 1 .. Latest => applied' = 1 .. Latest
  BY DEF TypeOK
<1> QED
  BY <1>1, <1>3, <1>4 DEF Reached

LEMMA StartNext == StartInv /\ [Next]_vars => StartInv'
<1> SUFFICES ASSUME StartInv, [Next]_vars PROVE StartInv'
  OBVIOUS
<1>1. /\ TypeOK /\ TypeOK'
      /\ 1 .. schema \subseteq applied
      /\ \A i \in Instances : Reached(i)
  BY TypeNext DEF StartInv
<1>2. ASSUME NEW i \in Instances, Panicf(i), UNCHANGED wrong, faults' \in {faults, faults + 1}
      PROVE  StartInv'
  <2>1. pc'[i] = "down" /\ rot'[i] = "off"
    BY <1>1, <1>2 DEF Panicf, End, GoTo, TypeOK
  <2>2. Reached(i)'
    BY <2>1 DEF Reached
  <2> QED
    BY <1>1, <1>2, <2>2, OthersReached DEF Panicf, End, GoTo, TypeOK
<1>3. ASSUME NEW i \in Instances, Boot(i), ~Panicf(i)
      PROVE  StartInv'
  <2>1. UNCHANGED wrong /\ Reached(i)
    BY <1>1, <1>3 DEF Boot, Stay, GetRastaskerHomeDirectory, DatabaseSetup, ReadVersion,
       ApplyMigration, MakeFileSystemHandler, CheckDomainAndSeed, NewDBLocalWallet,
       CheckOwnerAndCosts, Run
  <2>2. \A j \in Instances : j # i =>
           pc'[j] = pc[j] /\ seen'[j] = seen[j] /\ rot'[j] = rot[j]
    BY <1>1, <1>3 DEF Boot, GetRastaskerHomeDirectory, DatabaseSetup, ReadVersion,
       ApplyMigration, MakeFileSystemHandler, CheckDomainAndSeed, NewDBLocalWallet,
       CheckOwnerAndCosts, Run, End, GoTo, TypeOK
  <2> USE DEF GoTo, Stay
  <2>3. CASE GetRastaskerHomeDirectory(i) \/ MakeFileSystemHandler(i)
    <3>1. /\ pc'[i] \in {"migrate", "settings"}
          /\ pc'[i] = "settings" => pc[i] = "data" /\ {"home", "data"} \subseteq dirs'
          /\ rot'[i] = rot[i]
          /\ dirs \subseteq dirs'
          /\ "HOME" \notin wrong[i]
          /\ UNCHANGED <<applied, schema, keys, faults>>
          /\ pc[i] \in {"home", "data"}
      BY <1>1, <1>3, <2>3 DEF GetRastaskerHomeDirectory, MakeFileSystemHandler,
         MakeSureFilePathExists, TypeOK
    <3>2. dirs' \subseteq {"home", "data"}
      BY <1>1 DEF TypeOK
    <3>3. Reached(i)'
      BY <2>1, <3>1, <3>2 DEF Reached
    <3> QED
      BY <1>1, <2>1, <2>2, <3>1, <3>3, OthersReached
  <2>4. CASE ReadVersion(i)
    <3>1. /\ \/ pc'[i] = "apply" /\ schema < Latest
             \/ pc'[i] = "data" /\ ~(schema < Latest)
          /\ seen'[i] = schema
          /\ rot'[i] = rot[i] /\ pc[i] = "migrate"
          /\ UNCHANGED <<dirs, applied, schema, keys, faults>>
      BY <1>1, <1>3, <2>4 DEF ReadVersion, TypeOK
    <3>2. ~(schema < Latest) => applied = 1 .. Latest
      <4>1. Latest \in Nat /\ schema \in 0 .. Latest /\ applied \subseteq 1 .. Latest
        BY <1>1, StartupAssumption DEF StartupAssumption, TypeOK
      <4>2. ~(schema < Latest) => schema = Latest
        BY <4>1
      <4> QED
        BY <1>1, <4>1, <4>2
    <3>3. Reached(i)'
      BY <1>1, <2>1, <3>1, <3>2 DEF Reached
    <3> QED
      BY <1>1, <2>1, <2>2, <3>1, <3>3, OthersReached
  <2>9. CASE ApplyMigration(i)
    <3>1. /\ pc'[i] = "migrate" /\ pc[i] = "apply" /\ rot'[i] = rot[i]
          /\ applied' = applied \cup {seen[i] + 1}
          /\ schema' = seen[i] + 1
          /\ UNCHANGED <<dirs, keys, faults>>
      BY <1>1, <1>3, <2>9 DEF ApplyMigration, TypeOK
    <3>2. 1 .. schema' \subseteq applied'
      <4>1. seen[i] \in Nat
        BY <1>1, StartupAssumption DEF StartupAssumption, TypeOK
      <4>2. 1 .. (seen[i] + 1) = (1 .. seen[i]) \cup {seen[i] + 1}
        BY <4>1
      <4>3. 1 .. seen[i] \subseteq applied
        BY <2>1, <3>1 DEF Reached
      <4> QED
        BY <3>1, <4>2, <4>3
    <3>3. Reached(i)'
      BY <2>1, <3>1 DEF Reached
    <3>4. applied \subseteq applied'
      BY <3>1
    <3> QED
      BY <1>1, <2>1, <2>2, <3>1, <3>2, <3>3, <3>4, OthersReached
  <2>5. CASE CheckDomainAndSeed(i)
    <3>1. /\ pc'[i] = "wallet" /\ pc[i] = "settings" /\ rot'[i] = rot[i]
          /\ wrong[i] \cap {"DOMAIN", "SEED"} = {}
          /\ UNCHANGED <<dirs, applied, schema, keys, faults>>
      BY <1>1, <1>3, <2>5 DEF CheckDomainAndSeed, TypeOK
    <3>2. Reached(i)'
      BY <2>1, <3>1 DEF Reached
    <3> QED
      BY <1>1, <2>1, <2>2, <3>1, <3>2, OthersReached
  <2>6. CASE NewDBLocalWallet(i)
    <3>1. /\ pc'[i] = "owner" /\ pc[i] = "wallet" /\ rot'[i] = rot[i]
          /\ "TRUSTED_MINT" \notin wrong[i]
          /\ UNCHANGED <<dirs, applied, schema>>
      BY <1>1, <1>3, <2>6 DEF NewDBLocalWallet, TypeOK
    <3>2. /\ keys' > 0 \/ faults' > 0
          /\ keys > 0 => keys' > 0
          /\ faults > 0 => faults' > 0
      BY <1>1, <1>3, <2>6 DEF NewDBLocalWallet, FirstKey, Fault, TypeOK
    <3>3. Reached(i)'
      BY <2>1, <3>1, <3>2 DEF Reached
    <3> QED
      BY <1>1, <2>1, <2>2, <3>1, <3>2, <3>3, OthersReached
  <2>7. CASE CheckOwnerAndCosts(i)
    <3>1. /\ pc'[i] = "listen" /\ pc[i] = "owner"
          /\ wrong[i] \cap {"OWNER_NPUB", "COST"} = {}
          /\ UNCHANGED <<dirs, applied, schema, keys, faults>>
      BY <1>1, <1>3, <2>7 DEF CheckOwnerAndCosts, TypeOK
    <3>2. Reached(i)'
      BY <2>1, <3>1 DEF Reached
    <3> QED
      BY <1>1, <2>1, <2>2, <3>1, <3>2, OthersReached
  <2>8. CASE Run(i)
    <3>1. /\ \/ pc'[i] = "serving" /\ pc[i] = "listen" /\ rot'[i] = rot[i]
             \/ pc'[i] = "exited" /\ rot'[i] = "off"
          /\ UNCHANGED <<dirs, applied, schema, keys, faults>>
      BY <1>1, <2>8 DEF Run, End, TypeOK
    <3>2. Reached(i)'
      BY <2>1, <3>1 DEF Reached
    <3> QED
      BY <1>1, <2>1, <2>2, <3>1, <3>2, OthersReached
  <2> QED
    BY <1>3, <2>3, <2>4, <2>5, <2>6, <2>7, <2>8, <2>9 DEF Boot, DatabaseSetup
<1>4. ASSUME NEW i \in Instances, BeginRotation(i) \/ EndRotation(i)
      PROVE  StartInv'
  <2>1. /\ pc' = pc /\ rot[i] # "off"
        /\ UNCHANGED <<wrong, faults, dirs, applied, schema, seen>>
        /\ keys > 0 => keys' > 0
        /\ \A j \in Instances : j # i => rot'[j] = rot[j]
    BY <1>1, <1>4 DEF BeginRotation, EndRotation, Stay, TypeOK
  <2>2. Reached(i)'
    BY <1>1, <2>1 DEF Reached
  <2> QED
    BY <1>1, <2>1, <2>2, OthersReached
<1>5. ASSUME NEW i \in Instances, StartByHand(i) \/ (Restart /\ i = Service)
      PROVE  StartInv'
  <2>1. /\ pc'[i] = "home" /\ pc[i] \in {"down", "exited"} /\ rot' = rot
        /\ \A j \in Instances : j # i => pc'[j] = pc[j]
        /\ UNCHANGED <<wrong, faults, dirs, applied, schema, seen, keys>>
    BY <1>1, <1>5 DEF StartByHand, Restart, Exec, Runs, GoTo, TypeOK
  <2>2. Reached(i)'
    BY <1>1, <2>1 DEF Reached
  <2> QED
    BY <1>1, <2>1, <2>2, OthersReached
<1>10. ASSUME GiveUp PROVE StartInv'
  <2>1. Service \in Instances
    BY StartupAssumption DEF StartupAssumption
  <2>2. /\ pc'[Service] = "exited" /\ pc[Service] = "down" /\ rot' = rot
        /\ \A j \in Instances : j # Service => pc'[j] = pc[j]
        /\ UNCHANGED <<wrong, faults, dirs, applied, schema, seen, keys>>
    BY <1>1, <1>10, <2>1 DEF GiveUp, GoTo, TypeOK
  <2>3. Reached(Service)'
    BY <1>1, <2>1, <2>2 DEF Reached
  <2> QED
    BY <1>1, <2>1, <2>2, <2>3, OthersReached
<1>6. ASSUME NEW i \in Instances, NEW s \in Settings, ChangeSetting(i, s)
      PROVE  StartInv'
  <2>1. /\ pc[i] \in {"down", "exited"}
        /\ \A j \in Instances : j # i => wrong'[j] = wrong[j]
        /\ UNCHANGED <<faults, dirs, applied, schema, seen, keys, pc, rot>>
    BY <1>1, <1>6 DEF ChangeSetting, Runs, TypeOK
  <2>2. Reached(i)'
    BY <1>1, <2>1 DEF Reached
  <2> QED
    BY <1>1, <2>1, <2>2, OthersReached
<1>7. ASSUME NEW s \in Surroundings, ChangeSurroundings(s)
      PROVE  StartInv'
  BY <1>1, <1>7 DEF ChangeSurroundings, StartInv, Reached
<1>8. CASE UNCHANGED vars
  BY <1>1, <1>8 DEF vars, StartInv, Reached
<1>9. ASSUME NEW i \in Instances, Crash(i) \/ (Boot(i) /\ Panicf(i))
      PROVE  Panicf(i) /\ UNCHANGED wrong /\ faults' \in {faults, faults + 1}
  BY <1>9 DEF Crash, Fault, Boot, Stay, GetRastaskerHomeDirectory, DatabaseSetup,
     ReadVersion, ApplyMigration, MakeFileSystemHandler, CheckDomainAndSeed,
     NewDBLocalWallet, CheckOwnerAndCosts, Run
<1> QED
  BY <1>2, <1>3, <1>4, <1>5, <1>6, <1>7, <1>8, <1>9, <1>10, StartupAssumption DEF Next,
     StartupAssumption

LEMMA StartAlways == Spec => []StartInv
BY StartInit, StartNext, PTL DEF Spec

\* Every variable stays within its type: goose_db_version never names a migration that
\* there is none of, with instances that add rows for stale versions (sqlite.go:452).
THEOREM TypeCorrect == Spec => []TypeOK
<1>1. StartInv => TypeOK
  BY DEF StartInv
<1> QED
  BY <1>1, StartAlways, PTL

\* The property RunsOnWhole: no request and no rotation before every directory,
\* migration, setting and the first key is in place.
THEOREM RunOnWhole == Spec => []RunsOnWhole
<1>1. StartInv => RunsOnWhole
  <2> SUFFICES ASSUME StartInv, NEW i \in Instances, pc[i] = "serving" \/ rot[i] # "off"
               PROVE  /\ applied = 1 .. Latest
                      /\ dirs = {"home", "data"}
                      /\ wrong[i] = {}
                      /\ keys > 0 \/ faults > 0
    BY DEF RunsOnWhole
  <2>1. Reached(i) /\ pc[i] \in {"listen", "serving"}
    BY DEF StartInv, Reached
  <2>2. wrong[i] \cap {"HOME", "DOMAIN", "SEED", "TRUSTED_MINT", "OWNER_NPUB", "COST"} = {}
    BY <2>1 DEF Reached
  <2>3. wrong[i] \subseteq {"HOME", "DOMAIN", "SEED", "TRUSTED_MINT", "OWNER_NPUB", "COST"}
    BY StartupAssumption DEF StartInv, TypeOK, StartupAssumption
  <2>4. wrong[i] = {}
    BY <2>2, <2>3
  <2> QED
    BY <2>1, <2>4 DEF Reached
<1> QED
  BY <1>1, StartAlways, PTL

=============================================================================
