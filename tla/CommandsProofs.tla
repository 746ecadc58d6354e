--------------------------- MODULE CommandsProofs ---------------------------
(***************************************************************************)
(* The command line, for every set of terminals, accounts, paths, flags,   *)
(* files and commands: the options are those that the comment in objfs.go  *)
(* describes, an upload is not sent twice, a command that reports success  *)
(* has done all its paths, the configuration file loses no setting as long *)
(* as one terminal makes them, and a file reaches its own account only as  *)
(* long as no two accounts share a cache directory.                        *)
(***************************************************************************)
EXTENDS Commands, TLAPS

-----------------------------------------------------------------------------
(* The options *)

\* The first source that has an option, of three and of four.
LEMMA FirstOfThree ==
    ASSUME NEW a, NEW b, NEW c, NEW o, o \in DOMAIN c
    PROVE  FirstOf(<<a, b, c>>, o) =
               IF o \in DOMAIN a THEN a[o] ELSE IF o \in DOMAIN b THEN b[o] ELSE c[o]
<1> DEFINE src == <<a, b, c>>
           having == {n \in DOMAIN src : o \in DOMAIN src[n]}
           first == CHOOSE n \in having : \A m \in having : n <= m
<1>1. DOMAIN src = {1, 2, 3} /\ src[1] = a /\ src[2] = b /\ src[3] = c
  OBVIOUS
<1> HIDE DEF src
<1>2. \A n : n \in having <=> n \in {1, 2, 3} /\ o \in DOMAIN src[n]
  BY <1>1
<1>3. FirstOf(src, o) = src[first][o]
  BY DEF FirstOf
<1> DEFINE k == IF o \in DOMAIN a THEN 1 ELSE IF o \in DOMAIN b THEN 2 ELSE 3
<1>4. k \in having /\ \A m \in having : k <= m
  BY <1>1, <1>2
<1>5. first = k
  <2> HIDE DEF k
  <2>1. first \in having /\ \A m \in having : first <= m
    BY <1>4
  <2> QED BY <2>1, <1>2, <1>4
<1> QED BY <1>1, <1>3, <1>5 DEF src

\* The value of an option that the last of four maps has.
LEMMA FirstOfFour ==
    ASSUME NEW a, NEW b, NEW c, NEW d, NEW o, o \in DOMAIN d
    PROVE  FirstOf(<<a, b, c, d>>, o) =
               IF o \in DOMAIN a THEN a[o] ELSE IF o \in DOMAIN b THEN b[o]
               ELSE IF o \in DOMAIN c THEN c[o] ELSE d[o]
<1> DEFINE src == <<a, b, c, d>>
           having == {n \in DOMAIN src : o \in DOMAIN src[n]}
           first == CHOOSE n \in having : \A m \in having : n <= m
<1>1. DOMAIN src = {1, 2, 3, 4} /\ src[1] = a /\ src[2] = b /\ src[3] = c /\ src[4] = d
  OBVIOUS
<1> HIDE DEF src
<1>2. \A n : n \in having <=> n \in {1, 2, 3, 4} /\ o \in DOMAIN src[n]
  BY <1>1
<1>3. FirstOf(src, o) = src[first][o]
  BY DEF FirstOf
<1> DEFINE k == IF o \in DOMAIN a THEN 1 ELSE IF o \in DOMAIN b THEN 2
                ELSE IF o \in DOMAIN c THEN 3 ELSE 4
<1>4. k \in having /\ \A m \in having : k <= m
  BY <1>1, <1>2
<1>5. first = k
  <2> HIDE DEF k
  <2>1. first \in having /\ \A m \in having : first <= m
    BY <1>4
  <2> QED BY <2>1, <1>2, <1>4
<1> QED BY <1>1, <1>3, <1>5 DEF src

\* needvar merges defaults, file and flags into what the comment says of them.
LEMMA FlagMapDocumented ==
    ASSUME NEW file, NEW flags, NEW o \in Opt
    PROVE  flagMap(file, flags)[o] = Documented(file, flags, o)
<1> DEFINE all == Merge(Default, flags)
           unnamed == Section(file, "")
           merged == Merge(all, unnamed)
           base == Merge(merged, Visit(flags, {"storage"}))
           named == Section(file, base["storage"])
           section == Merge(base, named)
<1>1. "storage" \in Opt
  BY OptionsAssumption
<1>2. /\ DOMAIN all = Opt /\ DOMAIN merged = Opt /\ DOMAIN base = Opt /\ DOMAIN section = Opt
      /\ \A x \in Opt : all[x] = IF x \in DOMAIN flags THEN flags[x] ELSE Default[x]
      /\ \A x \in Opt : merged[x] = IF x \in DOMAIN unnamed THEN unnamed[x] ELSE all[x]
  BY DEF Merge, Opt
<1>3. \A x \in Opt : base[x] = IF x = "storage" /\ x \in DOMAIN flags THEN flags[x]
                               ELSE merged[x]
  BY <1>2 DEF Merge, Visit
<1>4. \A x \in Opt : section[x] = IF x \in DOMAIN named THEN named[x] ELSE base[x]
  BY <1>2 DEF Merge
<1>5. flagMap(file, flags) = Merge(section, Visit(flags, Opt \ {"storage"}))
  BY DEF flagMap
<1> HIDE DEF all, unnamed, merged, base, named, section
<1>6. flagMap(file, flags)[o] = IF o # "storage" /\ o \in DOMAIN flags THEN flags[o]
                                ELSE section[o]
  BY <1>2, <1>5 DEF Merge, Visit
<1>7. base["storage"] = FirstOf(<<flags, unnamed, Default>>, "storage")
  <2>1. FirstOf(<<flags, unnamed, Default>>, "storage") =
            IF "storage" \in DOMAIN flags THEN flags["storage"]
            ELSE IF "storage" \in DOMAIN unnamed THEN unnamed["storage"] ELSE Default["storage"]
    BY <1>1, FirstOfThree DEF Opt
  <2> QED BY <2>1, <1>1, <1>2, <1>3
<1>8. Documented(file, flags, o) =
          IF o = "storage" THEN FirstOf(<<named, flags, unnamed, Default>>, o)
          ELSE FirstOf(<<flags, named, unnamed, Default>>, o)
  BY <1>7 DEF Documented, named, unnamed
<1>9. o \in DOMAIN Default
  BY DEF Opt
<1>10. CASE o = "storage"
  <2>1. FirstOf(<<named, flags, unnamed, Default>>, o) =
            IF o \in DOMAIN named THEN named[o] ELSE IF o \in DOMAIN flags THEN flags[o]
            ELSE IF o \in DOMAIN unnamed THEN unnamed[o] ELSE Default[o]
    BY <1>9, FirstOfFour
  <2> QED BY <2>1, <1>10, <1>2, <1>3, <1>4, <1>6, <1>8
<1>11. CASE o # "storage"
  <2>1. FirstOf(<<flags, named, unnamed, Default>>, o) =
            IF o \in DOMAIN flags THEN flags[o] ELSE IF o \in DOMAIN named THEN named[o]
            ELSE IF o \in DOMAIN unnamed THEN unnamed[o] ELSE Default[o]
    BY <1>9, FirstOfFour
  <2> QED BY <2>1, <1>11, <1>2, <1>3, <1>4, <1>6, <1>8
<1> QED BY <1>10, <1>11

\* Whatever settings are made, every process gets its options as the comment on
\* the configuration variables of objfs.go says.
THEOREM OptionsAsDocumented == Spec => []Precedence
<1>1. Precedence
  BY FlagMapDocumented DEF Precedence
<1> QED BY <1>1, PTL

-----------------------------------------------------------------------------
(* Retry *)

\* The types of a call of Retry.
CallType == [pc : {"none", "try", "spin", "done"}, body : BOOLEAN, tries : Nat,
             last : OutcomeKinds \cup {"none"}, sent : Nat]

\* The inductive invariant: while Retry may try again, nothing of a request with a
\* body has reached the server.
CallInv ==
    /\ call \in [Caller -> CallType]
    /\ \A c \in Caller : call[c].body => /\ call[c].sent <= 1
                                         /\ call[c].pc = "try" => call[c].sent = 0

\* A caller without a call has sent nothing.
LEMMA NoCallType == NoCall \in CallType /\ ~NoCall.body /\ NoCall.sent = 0
BY DEF NoCall, CallType

\* A call begins with nothing sent.
LEMMA BeginKeepsCall ==
    ASSUME CallInv, NEW c \in Caller, NEW b \in BOOLEAN, begin(c, b)
    PROVE  CallInv'
<1> DEFINE r == [NoCall EXCEPT !.pc = "try", !.body = b]
<1>1. r \in CallType /\ r.sent = 0
  BY NoCallType DEF CallType
<1>2. call' = [call EXCEPT ![c] = r]
  BY DEF begin
<1> HIDE DEF r
<1> QED BY <1>1, <1>2 DEF CallInv

\* An attempt that may have had an effect is the last one of a request with a body.
LEMMA AttemptKeepsCall ==
    ASSUME CallInv, NEW c \in Caller, NEW o, attempt(c, o)
    PROVE  CallInv'
<1>1. o \in OutcomeKinds
  BY RetryAssumption DEF attempt
<1> DEFINE n == call[c].tries + 1
           l == IF o = "seek" THEN call[c].last ELSE o
           s == IF o \in Unsent THEN call[c].sent ELSE call[c].sent + 1
           p == IF o = "seek" THEN "done" ELSE IF retries(o, call[c].body) THEN "try"
                ELSE IF spins(o, call[c].body) THEN "spin" ELSE "done"
           r == [call[c] EXCEPT !.tries = n, !.last = l, !.sent = s, !.pc = p]
<1>2. call[c] \in CallType
  BY DEF CallInv
<1>3. n \in Nat /\ l \in OutcomeKinds \cup {"none"} /\ s \in Nat
      /\ p \in {"none", "try", "spin", "done"}
  BY <1>1, <1>2 DEF CallType
<1>4. ASSUME call[c].body PROVE s <= 1 /\ (p = "try" => s = 0)
  <2>1. call[c].sent = 0
    BY <1>4 DEF CallInv, attempt
  <2>2. o \notin Unsent => p # "try"
    BY <1>1, <1>4 DEF OutcomeKinds, Unsent, retries
  <2> HIDE DEF p
  <2> QED BY <2>1, <2>2
<1>5. call' = [call EXCEPT ![c] = r]
  BY DEF attempt, CallInv
<1> HIDE DEF n, l, s, p
<1>6. r \in CallType /\ r.body = call[c].body /\ r.sent = s /\ r.pc = p
  BY <1>2, <1>3 DEF CallType
<1> HIDE DEF r
<1> QED BY <1>4, <1>5, <1>6 DEF CallInv

\* A caller that stops retrying sends nothing more.
LEMMA GiveUpKeepsCall ==
    ASSUME CallInv, NEW c \in Caller, giveUp(c)
    PROVE  CallInv'
<1> DEFINE r == [call[c] EXCEPT !.pc = "done"]
<1>1. r \in CallType /\ r.body = call[c].body /\ r.sent = call[c].sent /\ r.pc # "try"
  BY DEF CallInv, CallType
<1>2. call' = [call EXCEPT ![c] = r]
  BY DEF giveUp, CallInv
<1> HIDE DEF r
<1> QED BY <1>1, <1>2 DEF CallInv

\* A call that has ended is forgotten.
LEMMA EndKeepsCall ==
    ASSUME CallInv, NEW c \in Caller, call' = [call EXCEPT ![c] = NoCall]
    PROVE  CallInv'
BY NoCallType DEF CallInv

\* What the commands do to the calls of Retry.
LEMMA CallSteps ==
    ASSUME CallInv, [Next]_vars
    PROVE  CallInv'
<1>1. CASE UNCHANGED call
  BY <1>1 DEF CallInv
<1>2. ASSUME NEW t \in Caller, NEW p, NEW b \in BOOLEAN, Request(t, p, b) PROVE CallInv'
  BY <1>2, BeginKeepsCall DEF Request
<1>3. ASSUME NEW t \in Caller, Step(t) PROVE CallInv'
  <2>1. ASSUME NEW p \in Path,
               eachPath(t, p) \/ onePath(t, p) \/ cacheEachPath(t, p) \/ cacheOnePath(t, p)
                   \/ uploadPath(t, p)
        PROVE  CallInv'
    BY <2>1, <1>1, <1>2 DEF eachPath, onePath, cacheEachPath, cacheOnePath, uploadPath
  <2>2. ASSUME NEW o \in Outcomes, sendRequest(t, o) PROVE CallInv'
    BY <2>2, AttemptKeepsCall DEF sendRequest
  <2>3. CASE stopRetrying(t)
    BY <2>3, GiveUpKeepsCall DEF stopRetrying
  <2>4. CASE endRequest(t)
    BY <2>4, EndKeepsCall DEF endRequest
  <2>5. CASE UNCHANGED call
    BY <2>5, <1>1
  <2> QED BY <1>3, <2>1, <2>2, <2>3, <2>4, <2>5
          DEF Step, ConfigSet, ConfigDelete, KeyringSet, KeyringDelete, Auth, OpenCache,
              InfoFails, openIndex, finish, recover
<1>4. ASSUME NEW t \in Caller, User(t) PROVE CallInv'
  <2>1. ASSUME NEW op \in CommandsOf[t], NEW args \in SUBSET Path, NEW to \in Path,
               run(t, op, args, to)
        PROVE  CallInv'
    BY <2>1, <1>1 DEF run
  <2>2. CASE kill(t)
    BY <2>2, EndKeepsCall DEF kill
  <2>3. CASE \/ \E flags \in FlagSetsOf[t] : main(t, flags)
             \/ quit(t) \/ loop(t) \/ (\E p \in Path : mountedWrite(t, p))
             \/ \E code \in {0, 1} : unmount(t, code)
    BY <2>3, <1>1 DEF main, quit, loop, mountedWrite, unmount
  <2> QED BY <1>4, <2>1, <2>2, <2>3 DEF User
<1> QED BY <1>1, <1>3, <1>4 DEF Next, vars

\* Retry never sends the body of an upload again once the server may have acted on
\* it, whichever way the attempts before have ended.
THEOREM UploadsSentOnce == Spec => []SentOnce
<1>1. Init => CallInv
  BY NoCallType DEF Init, CallInv
<1>2. CallInv => SentOnce
  BY DEF CallInv, SentOnce
<1> QED BY <1>1, <1>2, CallSteps, PTL DEF Spec

-----------------------------------------------------------------------------
(* Processes and commands *)

Ops == WithPaths \cup WithOnePath \cup Cached \cup Local

\* The commands that report on the paths they were given.
Reporting == WithPaths \cup WithOnePath \cup {"cache-reset"}

\* Where a command has the variables for its requests.
Active == {"open", "lock", "paths", "sent", "mounted"}

CmdType == [pc : {"none", "prompt", "local", "unwind"} \cup Active, op : Ops \cup {"none"},
            args : SUBSET Path, to : Path \cup {""}, at : Path \cup {""}, ver : Nat,
            ok : BOOLEAN, failed : BOOLEAN, closing : BOOLEAN, undone : SUBSET Path, code : Nat]

FileDirs(file) == \A n \in DOMAIN file : DirsKnown(file[n])

\* The variables of a process.
ProcOK(p) ==
    /\ DOMAIN p = DOMAIN Zero
    /\ p.once \in BOOLEAN
    /\ DirsKnown(p.flags) /\ FileDirs(p.programConfig)
    /\ p.once => p.dataDir \in DataDir
    /\ p.credentials \in Account \cup {Nobody}
    /\ p.authSession \in Account \cup {Nobody}
    /\ p.storage \in Account \cup {Nobody}
    /\ p.storage # Nobody => p.once /\ p.storageName \in Service
    /\ p.cachePath \in CachePath \cup {<<>>}

\* Command c of a process with variables p: what it needs is there, and the paths
\* that are not done are left to do, unless one has failed.
CmdOK(t, c, p) ==
    /\ c.pc \in Active => /\ c.op \in CommandsOf[t] \ Local
                          /\ p.storage \in Account
                          /\ c.op \in Cached => p.cachePath \in CachePath
                          /\ c.op \in Reporting => c.failed \/ c.undone \subseteq c.args
    /\ c.pc = "local" => /\ c.op \in CommandsOf[t] \cap Local
                         /\ p.once
                         /\ c.op = "auth" => p.authSession \in Account
    /\ c.pc \in {"open", "lock"} => c.op \in Cached
    /\ c.pc = "mounted" => c.op = "mount"
    /\ c.pc = "sent" => c.at \in c.args
    /\ c.pc \in {"none", "prompt", "unwind"} /\ c.op \in Reporting /\ c.code = 0 => c.undone = {}

\* The inductive invariant of processes and commands.
RunInv ==
    /\ FileDirs(config)
    /\ \A l \in DOMAIN keys : keys[l] \in Account
    /\ DOMAIN proc = Caller /\ \A t \in Caller : ProcOK(proc[t])
    /\ cmd \in [Caller -> CmdType]
    /\ \A t \in Caller : CmdOK(t, cmd[t], proc[t])

\* What needvar does to the variables p that have been read from the configuration:
\* it adds to them, and panics with an error code.
Resolves(p, r) ==
    /\ r.code \in {0, 1, 2}
    /\ ProcOK(r.vars) /\ r.vars.once
    /\ r.vars.programConfig = p.programConfig /\ r.vars.flags = p.flags
    /\ r.vars.storageName = p.storageName

\* The name of the storage is there or needvar panics.
LEMMA StorageNameResolves ==
    ASSUME NEW p, ProcOK(p), p.once
    PROVE  Resolves(p, needStorageName(p))
           /\ (needStorageName(p).code = 0 => needStorageName(p) = Vars(p))
BY DEF needStorageName, Resolves, Vars, Panics

\* A data directory that the file, the flags and the defaults agree on is known.
LEMMA DirResolves ==
    ASSUME NEW p, FileDirs(config), DirsKnown(p.flags)
    PROVE  flagMap(config, p.flags)["datadir"] \in DataDir \cup {""}
<1> DEFINE all == Merge(Default, p.flags)
           base == Merge(Merge(all, Section(config, "")), Visit(p.flags, {"storage"}))
           section == Merge(base, Section(config, base["storage"]))
<1>1. "datadir" \in Opt
  BY OptionsAssumption
<1>2. \A n : DirsKnown(Section(config, n))
  BY DEF FileDirs, Section, DirsKnown
<1>3. \A a, b : /\ "datadir" \in DOMAIN a /\ DirsKnown(a) /\ DirsKnown(b)
                => "datadir" \in DOMAIN Merge(a, b) /\ DirsKnown(Merge(a, b))
  BY DEF Merge, DirsKnown
<1>4. \A S : DirsKnown(Visit(p.flags, S))
  BY DEF Visit, DirsKnown
<1>5. "datadir" \in DOMAIN all /\ DirsKnown(all)
  BY <1>1, <1>3, DataDirAssumption DEF Opt
<1>6. "datadir" \in DOMAIN base /\ DirsKnown(base)
  BY <1>2, <1>3, <1>4, <1>5
<1>7. "datadir" \in DOMAIN section /\ DirsKnown(section)
  BY <1>2, <1>3, <1>6
<1>8. flagMap(config, p.flags) = Merge(section, Visit(p.flags, Opt \ {"storage"}))
  BY DEF flagMap
<1> HIDE DEF section
<1> QED BY <1>3, <1>4, <1>7, <1>8 DEF DirsKnown

\* The first needvar of a process reads the configuration as it is now.
LEMMA OnceResolves ==
    ASSUME NEW p, ProcOK(p), ~p.once, FileDirs(config)
    PROVE  LET r == needvarOnce(p)
           IN /\ r.code \in {0, 1, 2} /\ ProcOK(r.vars) /\ r.vars.once
              /\ r.vars.programConfig = config /\ r.vars.flags = p.flags
<1> DEFINE m == flagMap(config, p.flags)
           d == IF m["datadir"] = "" THEN HomeDir ELSE m["datadir"]
           q == [[p EXCEPT !.once = TRUE, !.authName = m["auth"],
                          !.credentialPath = m["credentials"], !.storageName = m["storage"],
                          !.dataDir = d] EXCEPT !.programConfig = config]
<1>1. d \in DataDir
  BY DirResolves, DataDirAssumption DEF ProcOK
<1>2. needvarOnce(p) = initKeyring(q, m["keyring"])
  BY DEF needvarOnce, Options
<1> HIDE DEF m, d
<1>3. /\ DOMAIN q = DOMAIN Zero /\ q.once = TRUE /\ q.dataDir = d /\ q.programConfig = config
      /\ q.flags = p.flags /\ q.credentials = p.credentials /\ q.authSession = p.authSession
      /\ q.storage = p.storage /\ q.cachePath = p.cachePath
  BY DEF ProcOK, Zero
<1> HIDE DEF q
<1>4. ProcOK(q)
  BY <1>1, <1>3 DEF ProcOK
<1>5. ProcOK([q EXCEPT !.keyring = q.dataDir]) /\ [q EXCEPT !.keyring = q.dataDir].once
      /\ [q EXCEPT !.keyring = q.dataDir].programConfig = config
      /\ [q EXCEPT !.keyring = q.dataDir].flags = p.flags
  BY <1>3, <1>4 DEF ProcOK, Zero
<1>6. /\ initKeyring(q, m["keyring"]).code \in {0, 2}
      /\ initKeyring(q, m["keyring"]).vars \in {q, [q EXCEPT !.keyring = q.dataDir]}
  BY DEF initKeyring, Vars, Panics
<1> QED BY <1>2, <1>3, <1>4, <1>5, <1>6

\* The name of the auth method is the one given, or the storage's own.
LEMMA AuthNameResolves ==
    ASSUME NEW p, ProcOK(p), p.once
    PROVE  Resolves(p, needAuthName(p))
<1> DEFINE q == [p EXCEPT !.authName = p.storageName]
<1>1. Resolves(p, Vars(p)) /\ Resolves(p, Vars(q)) /\ Resolves(p, Panics(p, 2))
  BY DEF Resolves, Vars, Panics, ProcOK, Zero
<1>2. needAuthName(p) \in {Vars(p), Vars(q), Panics(p, 2)}
  BY DEF needAuthName, needStorageName, Then, Vars, Panics
<1> QED BY <1>1, <1>2

\* The credential path is the one given, or made up from the storage's name.
LEMMA CredentialPathResolves ==
    ASSUME NEW p, ProcOK(p), p.once
    PROVE  Resolves(p, needCredentialPath(p))
<1> DEFINE q == [p EXCEPT !.credentialPath = <<"keyring", p.storageName>>]
<1>1. Resolves(p, Vars(p)) /\ Resolves(p, Vars(q)) /\ Resolves(p, Panics(p, 2))
  BY DEF Resolves, Vars, Panics, ProcOK, Zero
<1>2. needCredentialPath(p) \in {Vars(p), Vars(q), Panics(p, 2)}
  BY DEF needCredentialPath, needStorageName, Then, Vars, Panics
<1> QED BY <1>1, <1>2

\* Credentials that were read are those of an account.
LEMMA CredentialsResolve ==
    ASSUME NEW p, ProcOK(p), p.once, \A l \in DOMAIN keys : keys[l] \in Account
    PROVE  /\ Resolves(p, needCredentials(p))
           /\ needCredentials(p).code = 0 => needCredentials(p).vars.credentials \in Account
<1>1. CASE p.credentials # Nobody
  BY <1>1 DEF needCredentials, Resolves, Vars, ProcOK
<1>2. CASE p.credentials = Nobody
  <2> DEFINE r == needCredentialPath(p)
             q == r.vars
             place == ReadFrom(q, q.credentialPath)
             a == keys[place]
             s == [q EXCEPT !.credentials = a]
  <2>1. Resolves(p, r)
    BY CredentialPathResolves
  <2>2. needCredentials(p) = IF r.code = 0
                             THEN IF place \in DOMAIN keys THEN Vars(s) ELSE Panics(q, 2)
                             ELSE r
    BY <1>2 DEF needCredentials, Then
  <2> HIDE DEF r, place
  <2>3. Resolves(p, Panics(q, 2)) /\ Panics(q, 2).code # 0
    BY <2>1 DEF Resolves, Panics
  <2>4. ASSUME place \in DOMAIN keys
        PROVE  Resolves(p, Vars(s)) /\ Vars(s).vars.credentials \in Account
    <3>1. a \in Account
      BY <2>4
    <3> HIDE DEF a
    <3> QED BY <3>1, <2>1 DEF Resolves, Vars, ProcOK, Zero
  <2> QED BY <2>1, <2>2, <2>3, <2>4
<1> QED BY <1>1, <1>2

\* A session that was opened is one of an account.
LEMMA AuthSessionResolves ==
    ASSUME NEW p, ProcOK(p), p.once, \A l \in DOMAIN keys : keys[l] \in Account
    PROVE  /\ Resolves(p, needAuthSession(p))
           /\ needAuthSession(p).code = 0 => needAuthSession(p).vars.authSession \in Account
<1>1. CASE p.authSession # Nobody
  BY <1>1 DEF needAuthSession, Resolves, Vars, ProcOK
<1>2. CASE p.authSession = Nobody
  <2> DEFINE n == needAuthName(p)
             r == Then(n, needCredentials)
             q == r.vars
             s == [q EXCEPT !.authSession = q.credentials]
  <2>1. Resolves(p, n)
    BY AuthNameResolves
  <2>2. Resolves(p, r) /\ (r.code = 0 => q.credentials \in Account)
    <3> HIDE DEF n
    <3>1. CASE n.code = 0
      <4>1. r = needCredentials(n.vars)
        BY <3>1 DEF Then
      <4>2. Resolves(n.vars, r) /\ (r.code = 0 => r.vars.credentials \in Account)
        BY <4>1, <2>1, CredentialsResolve DEF Resolves
      <4> QED BY <4>2, <2>1 DEF Resolves
    <3>2. CASE n.code # 0
      BY <3>2, <2>1 DEF Then
    <3> QED BY <3>1, <3>2
  <2>3. needAuthSession(p) = IF r.code = 0
                             THEN IF q.authName \in Service THEN Vars(s) ELSE Panics(q, 2)
                             ELSE r
    BY <1>2 DEF needAuthSession, Then
  <2> HIDE DEF n, r
  <2>4. Resolves(p, Panics(q, 2)) /\ Panics(q, 2).code # 0
    BY <2>2 DEF Resolves, Panics
  <2>5. ASSUME r.code = 0 PROVE Resolves(p, Vars(s)) /\ Vars(s).vars.authSession \in Account
    BY <2>2, <2>5 DEF Resolves, Vars, ProcOK, Zero
  <2> QED BY <2>2, <2>3, <2>4, <2>5
<1> QED BY <1>1, <1>2

\* A storage that was resolved is one of an account.
LEMMA StorageResolves ==
    ASSUME NEW p, ProcOK(p), p.once, \A l \in DOMAIN keys : keys[l] \in Account
    PROVE  /\ Resolves(p, needStorage(p))
           /\ needStorage(p).code = 0 => needStorage(p).vars.storage \in Account
<1>1. CASE p.storage # Nobody
  BY <1>1 DEF needStorage, Resolves, Vars, ProcOK
<1>2. CASE p.storage = Nobody
  <2> DEFINE n == IF p.authName # "" THEN needAuthSession(p) ELSE needCredentials(p)
             r == Then(n, needStorageName)
             q == r.vars
             a == IF p.authName # "" THEN q.authSession ELSE q.credentials
             s == [q EXCEPT !.storage = a]
  <2>1. /\ Resolves(p, n)
        /\ n.code = 0 => (IF p.authName # "" THEN n.vars.authSession ELSE n.vars.credentials) \in Account
    BY AuthSessionResolves, CredentialsResolve
  <2>2. Resolves(p, r) /\ (r.code = 0 => a \in Account)
    <3> HIDE DEF n
    <3>1. CASE n.code = 0
      <4>1. r = needStorageName(n.vars)
        BY <3>1 DEF Then
      <4>2. Resolves(n.vars, r) /\ (r.code = 0 => r = Vars(n.vars))
        BY <4>1, <2>1, StorageNameResolves DEF Resolves
      <4>3. r.code = 0 => q = n.vars
        BY <4>2 DEF Vars
      <4> HIDE DEF r
      <4> QED BY <4>2, <4>3, <3>1, <2>1 DEF Resolves
    <3>2. CASE n.code # 0
      BY <3>2, <2>1 DEF Then
    <3> QED BY <3>1, <3>2
  <2>3. needStorage(p) = IF r.code = 0
                         THEN IF q.storageName \in Service THEN Vars(s) ELSE Panics(q, 1)
                         ELSE r
    BY <1>2 DEF needStorage, Then
  <2> HIDE DEF n, r, a
  <2>4. Resolves(p, Panics(q, 1)) /\ Panics(q, 1).code # 0
    BY <2>2 DEF Resolves, Panics
  <2>5. ASSUME r.code = 0, q.storageName \in Service
        PROVE  Resolves(p, Vars(s)) /\ Vars(s).vars.storage \in Account
    BY <2>2, <2>5 DEF Resolves, Vars, ProcOK, Zero
  <2> QED BY <2>2, <2>3, <2>4, <2>5
<1> QED BY <1>1, <1>2

\* The cache directory is resolved for the storage of the process.
LEMMA CachePathResolves ==
    ASSUME NEW p, ProcOK(p), p.once, p.storage \in Account
    PROVE  /\ Resolves(p, needCachePath(p))
           /\ needCachePath(p).code = 0 => /\ needCachePath(p).vars.cachePath \in CachePath
                                           /\ needCachePath(p).vars.storage = p.storage
<1> DEFINE c == <<p.dataDir, p.storageName>>
           q == [p EXCEPT !.cachePath = c]
<1>1. c \in CachePath
  BY CommandsAssumption DEF ProcOK, CachePath
<1>2. needCachePath(p) = IF p.cachePath # <<>> THEN Vars(p)
                         ELSE IF p.storageName # "" THEN Vars(q) ELSE Panics(p, 2)
  <2>1. CASE p.cachePath # <<>>
    BY <2>1 DEF needCachePath
  <2>2. CASE p.cachePath = <<>> /\ p.storageName # ""
    <3>1. needStorageName(p) = Vars(p) /\ Vars(p).code = 0 /\ Vars(p).vars = p
      BY <2>2 DEF needStorageName, Vars
    <3> QED BY <2>2, <3>1 DEF needCachePath, Then
  <2>3. CASE p.cachePath = <<>> /\ p.storageName = ""
    <3>1. needStorageName(p) = Panics(p, 2)
      BY <2>3 DEF needStorageName
    <3>2. Panics(p, 2).code # 0
      BY DEF Panics
    <3> QED BY <2>3, <3>1, <3>2 DEF needCachePath, Then
  <2> QED BY <2>1, <2>2, <2>3
<1> HIDE DEF c
<1>3. Resolves(p, Vars(q)) /\ Vars(q).vars.cachePath = c /\ Vars(q).vars.storage = p.storage
  BY <1>1 DEF Resolves, Vars, ProcOK, Zero
<1>4. Resolves(p, Vars(p)) /\ Resolves(p, Panics(p, 2)) /\ Panics(p, 2).code # 0 /\ Vars(p).vars = p
  BY DEF Resolves, Vars, Panics
<1> HIDE DEF q
<1>5. p.cachePath # <<>> => p.cachePath \in CachePath
  BY DEF ProcOK
<1> QED BY <1>1, <1>2, <1>3, <1>4, <1>5

\* What needvar has done when it returns or panics, for a process with variables p
\* and command op.
Resolved(p, op, r) ==
    /\ r.code \in {0, 1, 2}
    /\ ProcOK(r.vars) /\ r.vars.once
    /\ r.vars.programConfig = IF p.once THEN p.programConfig ELSE config
    /\ p.once => r.vars.storageName = p.storageName
    /\ r.code = 0 /\ op \notin Local => r.vars.storage \in Account
    /\ r.code = 0 /\ op \in Cached => r.vars.cachePath \in CachePath
    /\ r.code = 0 /\ op = "auth" => r.vars.authSession \in Account

\* The kinds of commands do not overlap where the proofs tell them apart.
LEMMA KindsApart ==
    /\ "auth" \notin Inner \cup Cached \cup Reporting
    /\ Inner \cap Cached = {} /\ Inner \cap Reporting = {} /\ Local \cap Cached = {}
    /\ "none" \notin Ops /\ "mount" \notin Reporting /\ "mount" \in Cached
BY DEF Inner, Cached, Local, Ops, Reporting, WithPaths, WithOnePath, PathsCommands,
       SingleCommands, CachePathsCommands, CacheSingleCommands, Resets

\* needvar leaves every variable that the command asks for, or an exit code.
LEMMA NeedvarResolves ==
    ASSUME NEW p, ProcOK(p), FileDirs(config), \A l \in DOMAIN keys : keys[l] \in Account,
           NEW op
    PROVE  Resolved(p, op, needvar(p, op))
<1> DEFINE q == IF p.once THEN Vars(p) ELSE needvarOnce(p)
           pv == q.vars
           s == Then(q, needStorage)
           sv == s.vars
           First(r) == /\ r.code \in {0, 1, 2}
                       /\ ProcOK(r.vars) /\ r.vars.once
                       /\ r.vars.programConfig = IF p.once THEN p.programConfig ELSE config
                       /\ p.once => r.vars.storageName = p.storageName
<1>1. First(q)
  <2>1. CASE p.once
    BY <2>1 DEF Vars
  <2>2. CASE ~p.once
    BY <2>2, OnceResolves
  <2> QED BY <2>1, <2>2
<1>2. needvar(p, op) = IF op \in Inner THEN q
                       ELSE IF op = "auth" THEN Then(q, needAuthSession)
                       ELSE IF op \in Cached THEN Then(s, needCachePath) ELSE s
  BY KindsApart DEF needvar
<1> HIDE DEF q
<1>3. \A r : q.code = 0 /\ Resolves(pv, r) => First(r)
  BY <1>1 DEF Resolves
<1>4. /\ Resolves(pv, needAuthSession(pv))
      /\ needAuthSession(pv).code = 0 => needAuthSession(pv).vars.authSession \in Account
  BY <1>1, AuthSessionResolves
<1>5. /\ Resolves(pv, needStorage(pv))
      /\ needStorage(pv).code = 0 => needStorage(pv).vars.storage \in Account
  BY <1>1, StorageResolves
<1>6. First(s) /\ (s.code = 0 => sv.storage \in Account)
  <2>1. s = IF q.code = 0 THEN needStorage(pv) ELSE q
    BY DEF Then
  <2> HIDE DEF s
  <2> QED BY <2>1, <1>1, <1>3, <1>5
<1>7. CASE op \in Inner
  BY <1>1, <1>2, <1>7, KindsApart DEF Resolved, Local
<1>8. CASE op = "auth"
  <2> DEFINE r == needAuthSession(pv)
  <2>1. needvar(p, op) = IF q.code = 0 THEN r ELSE q
    BY <1>2, <1>8, KindsApart DEF Then
  <2>2. op \in Local /\ op \notin Cached
    BY <1>8, KindsApart DEF Local
  <2> HIDE DEF r
  <2>3. q.code = 0 => First(r) /\ (r.code = 0 => r.vars.authSession \in Account)
    BY <1>3, <1>4 DEF r
  <2> QED BY <2>1, <2>2, <2>3, <1>1 DEF Resolved
<1>9. CASE op \notin Inner /\ op # "auth" /\ op \in Cached
  <2> DEFINE r == needCachePath(sv)
  <2>1. needvar(p, op) = IF s.code = 0 THEN r ELSE s
    BY <1>2, <1>9 DEF Then
  <2> HIDE DEF s
  <2>2. ASSUME s.code = 0
        PROVE  First(r) /\ (r.code = 0 => r.vars.cachePath \in CachePath /\ r.vars.storage \in Account)
    <3>1. Resolves(sv, r) /\ (r.code = 0 => r.vars.cachePath \in CachePath /\ r.vars.storage = sv.storage)
      BY <1>6, <2>2, CachePathResolves
    <3> HIDE DEF r
    <3> QED BY <3>1, <1>6, <2>2 DEF Resolves
  <2> HIDE DEF r
  <2> QED BY <2>1, <2>2, <1>6, <1>9 DEF Resolved
<1>10. CASE op \notin Inner /\ op # "auth" /\ op \notin Cached
  <2>1. needvar(p, op) = s
    BY <1>2, <1>10
  <2> HIDE DEF s
  <2> QED BY <2>1, <1>6, <1>10 DEF Resolved
<1> QED BY <1>7, <1>8, <1>9, <1>10

\* ... or a login has failed.
LEMMA AllResolved ==
    ASSUME NEW p, ProcOK(p), FileDirs(config), \A l \in DOMAIN keys : keys[l] \in Account,
           NEW op, NEW r \in Resolutions(p, op)
    PROVE  Resolved(p, op, r)
<1> DEFINE n == needvar(p, op)
<1>1. Resolved(p, op, n)
  BY NeedvarResolves
<1>2. r = n \/ r = NoLogin(p, n)
  BY DEF Resolutions
<1> HIDE DEF n
<1>3. Resolved(p, op, NoLogin(p, n))
  <2> DEFINE v == [n.vars EXCEPT !.authSession = Nobody, !.storage = p.storage, !.cachePath = p.cachePath]
  <2>1. NoLogin(p, n).vars = v /\ NoLogin(p, n).code = 1
    BY DEF NoLogin
  <2>2. ProcOK(v) /\ v.once /\ v.programConfig = n.vars.programConfig
            /\ v.storageName = n.vars.storageName
    BY <1>1 DEF Resolved, ProcOK, Zero
  <2> HIDE DEF v
  <2> QED BY <2>1, <2>2, <1>1 DEF Resolved
<1> QED BY <1>1, <1>2, <1>3

-----------------------------------------------------------------------------
(* The steps of a process *)

KeysOK(k) == \A l \in DOMAIN k : k[l] \in Account

\* A step that leaves command c, and one that leaves variables p as well.
LEMMA CmdStep ==
    ASSUME RunInv, NEW t \in Caller, NEW c \in CmdType, CmdOK(t, c, proc[t]),
           cmd' = [cmd EXCEPT ![t] = c], proc' = proc, FileDirs(config'), KeysOK(keys')
    PROVE  RunInv'
<1>1. cmd' \in [Caller -> CmdType] /\ \A u \in Caller : cmd'[u] = IF u = t THEN c ELSE cmd[u]
  BY DEF RunInv
<1>2. \A u \in Caller : CmdOK(u, cmd'[u], proc'[u])
  BY <1>1 DEF RunInv
<1> QED BY <1>1, <1>2 DEF RunInv, KeysOK

\* A step of one process that leaves it in order keeps the invariant.
LEMMA ProcStep ==
    ASSUME RunInv, NEW t \in Caller, NEW c \in CmdType, NEW p, ProcOK(p), CmdOK(t, c, p),
           cmd' = [cmd EXCEPT ![t] = c], proc' = [proc EXCEPT ![t] = p],
           FileDirs(config'), KeysOK(keys')
    PROVE  RunInv'
<1>1. cmd' \in [Caller -> CmdType] /\ \A u \in Caller : cmd'[u] = IF u = t THEN c ELSE cmd[u]
  BY DEF RunInv
<1>2. DOMAIN proc' = Caller /\ \A u \in Caller : proc'[u] = IF u = t THEN p ELSE proc[u]
  BY DEF RunInv
<1>3. \A u \in Caller : CmdOK(u, cmd'[u], proc'[u]) /\ ProcOK(proc'[u])
  BY <1>1, <1>2 DEF RunInv
<1> QED BY <1>1, <1>2, <1>3 DEF RunInv, KeysOK

\* A command that exits reports a failure or has done its paths.
Unwound(c, code) == [c EXCEPT !.pc = "unwind", !.code = code]

\* A command that exits with 0 must have done its paths.
LEMMA UnwoundOK ==
    ASSUME NEW c \in CmdType, NEW code \in Nat, NEW t, NEW p,
           c.op \in Reporting /\ code = 0 => c.undone = {}
    PROVE  Unwound(c, code) \in CmdType /\ CmdOK(t, Unwound(c, code), p)
<1> DEFINE d == Unwound(c, code)
<1>1. d \in CmdType /\ d.pc = "unwind" /\ d.code = code /\ d.op = c.op /\ d.undone = c.undone
  BY DEF CmdType, Unwound, Active
<1> QED BY <1>1 DEF CmdOK, Active

\* A process that is not there, and one that has just been started.
LEMMA NoCommandOK ==
    ASSUME NEW t, NEW p
    PROVE  /\ NoCommand \in CmdType /\ CmdOK(t, NoCommand, p)
           /\ [NoCommand EXCEPT !.pc = "prompt"] \in CmdType
           /\ CmdOK(t, [NoCommand EXCEPT !.pc = "prompt"], p)
<1>1. NoCommand \in CmdType /\ NoCommand.op = "none" /\ NoCommand.pc = "none"
  BY DEF NoCommand, CmdType, Active
<1> DEFINE d == [NoCommand EXCEPT !.pc = "prompt"]
<1>2. d \in CmdType /\ d.op = "none" /\ d.pc = "prompt"
  BY <1>1 DEF CmdType
<1>3. "none" \notin Reporting
  BY KindsApart DEF Ops, Reporting, Cached, Resets
<1> HIDE DEF d
<1>4. CmdOK(t, NoCommand, p) /\ CmdOK(t, d, p)
  BY <1>1, <1>2, <1>3 DEF CmdOK, Active
<1> QED BY <1>1, <1>2, <1>4 DEF d

\* A section without options names no data directory.
LEMMA NoFlagsKnown == DirsKnown(NoSection)
BY DEF DirsKnown, NoSection

\* A process that has just started has resolved nothing.
LEMMA ZeroOK ==
    ASSUME NEW flags, DirsKnown(flags)
    PROVE  /\ ProcOK(Zero) /\ ~Zero.once /\ ProcOK([Zero EXCEPT !.up = TRUE, !.flags = flags])
           /\ ~[Zero EXCEPT !.up = TRUE, !.flags = flags].once
<1>1. /\ Zero.once = FALSE /\ Zero.flags = NoSection /\ Zero.programConfig = NoFile
      /\ Zero.credentials = Nobody /\ Zero.authSession = Nobody /\ Zero.storage = Nobody
      /\ Zero.cachePath = <<>> /\ {"up", "flags", "once", "programConfig", "credentials",
                                   "authSession", "storage", "cachePath"} \subseteq DOMAIN Zero
  BY DEF Zero
<1>2. DirsKnown(NoSection) /\ FileDirs(NoFile)
  BY DEF DirsKnown, FileDirs, NoSection, NoFile
<1> QED BY <1>1, <1>2 DEF ProcOK

\* The invariant holds before any process has started.
LEMMA InitRun == Init => RunInv
<1> SUFFICES ASSUME Init PROVE RunInv OBVIOUS
<1>1. FileDirs(config) /\ KeysOK(keys)
  BY DataDirAssumption, CommandsAssumption DEF Init, FileDirs, KeysOK
<1>3. \A t \in Caller : proc[t] = Zero /\ ProcOK(proc[t])
  BY NoFlagsKnown, ZeroOK DEF Init
<1>4. \A t \in Caller : cmd[t] = NoCommand /\ CmdOK(t, cmd[t], proc[t])
  BY NoCommandOK DEF Init
<1>5. cmd \in [Caller -> CmdType] /\ DOMAIN proc = Caller
  BY NoCommandOK DEF Init
<1> QED BY <1>1, <1>3, <1>4, <1>5 DEF RunInv, KeysOK

\* config and keyring, and auth.
LEMMA LocalSteps ==
    ASSUME RunInv, NEW t \in Caller,
           \/ \E s \in Settings : ConfigSet(t, s) \/ ConfigDelete(t, s)
           \/ \E s \in Passes : KeyringSet(t, s[1], s[2]) \/ KeyringDelete(t, s[1])
           \/ \E path \in AuthPaths : Auth(t, path)
    PROVE  RunInv'
<1> DEFINE c == Unwound(cmd[t], 0)
<1>1. /\ cmd[t] \in CmdType /\ cmd[t].pc = "local" /\ cmd[t].op \in Local
      /\ cmd' = [cmd EXCEPT ![t] = c]
  BY DEF RunInv, CmdOK, ConfigSet, ConfigDelete, KeyringSet, KeyringDelete, Auth, Exit, Unwound
<1>2. cmd[t].op \notin Reporting
  BY <1>1, KindsApart DEF Local
<1>3. c \in CmdType /\ \A p : CmdOK(t, c, p)
  BY <1>1, <1>2, UnwoundOK
<1> HIDE DEF c
<1>4. FileDirs(config) /\ KeysOK(keys) /\ ProcOK(proc[t]) /\ FileDirs(proc[t].programConfig)
  BY DEF RunInv, KeysOK, ProcOK
<1>5. ASSUME NEW file, FileDirs(file), WriteConfig(t, file), keys' = keys PROVE RunInv'
  <2> DEFINE p == [proc[t] EXCEPT !.programConfig = file]
  <2>1. ProcOK(p)
    BY <1>4, <1>5 DEF ProcOK, Zero
  <2>2. proc' = [proc EXCEPT ![t] = p] /\ config' = file
    BY <1>5 DEF WriteConfig, RunInv
  <2> HIDE DEF p
  <2> QED BY <1>1, <1>3, <1>4, <1>5, <2>1, <2>2, ProcStep
<1>6. ASSUME NEW s \in Settings, ConfigSet(t, s) PROVE RunInv'
  <2>1. FileDirs(Set(proc[t].programConfig, s))
    BY <1>4, DataDirAssumption DEF FileDirs, Set, DirsKnown, Section
  <2> QED BY <2>1, <1>5, <1>6 DEF ConfigSet
<1>7. ASSUME NEW s \in Settings, ConfigDelete(t, s) PROVE RunInv'
  <2>1. FileDirs(Delete(proc[t].programConfig, s))
    BY <1>4 DEF FileDirs, Delete, DirsKnown
  <2> QED BY <2>1, <1>5, <1>7 DEF ConfigDelete
<1>8. ASSUME KeysOK(keys'), proc' = proc, config' = config PROVE RunInv'
  BY <1>1, <1>3, <1>4, <1>8, CmdStep
<1>9. ASSUME NEW s \in Passes, KeyringSet(t, s[1], s[2]) PROVE RunInv'
  <2>1. KeysOK(keys')
    BY <1>4, <1>9, CommandsAssumption DEF KeyringSet, Stored, KeysOK
  <2> QED BY <2>1, <1>8, <1>9 DEF KeyringSet
<1>10. ASSUME NEW s \in Passes, KeyringDelete(t, s[1]) PROVE RunInv'
  <2>1. KeysOK(keys')
    BY <1>4, <1>10 DEF KeyringDelete, Erased, KeysOK
  <2> QED BY <2>1, <1>8, <1>10 DEF KeyringDelete
<1>11. ASSUME NEW path \in AuthPaths, Auth(t, path) PROVE RunInv'
  <2>1. proc[t].authSession \in Account
    BY <1>11 DEF Auth, RunInv, CmdOK
  <2>2. KeysOK(keys')
    BY <1>4, <1>11, <2>1 DEF Auth, Stored, KeysOK
  <2> QED BY <2>2, <1>8, <1>11 DEF Auth
<1> QED BY <1>6, <1>7, <1>9, <1>10, <1>11

\* Requests: the path of a request stays among the command's until it has come back.
LEMMA RequestStep ==
    ASSUME RunInv, NEW t \in Caller, NEW p \in cmd[t].args, NEW b, Request(t, p, b),
           cmd[t].pc = "paths", UNCHANGED <<config, keys, proc>>
    PROVE  RunInv'
<1> DEFINE c == [cmd[t] EXCEPT !.pc = "sent", !.at = p, !.ok = FALSE]
<1>1. cmd[t] \in CmdType /\ CmdOK(t, cmd[t], proc[t]) /\ FileDirs(config) /\ KeysOK(keys)
  BY DEF RunInv, KeysOK
<1>2. cmd' = [cmd EXCEPT ![t] = c]
  BY DEF Request, RunInv
<1>3. /\ c \in CmdType /\ c.pc = "sent" /\ c.op = cmd[t].op /\ c.at = p
      /\ c.args = cmd[t].args /\ c.undone = cmd[t].undone /\ c.failed = cmd[t].failed
  BY <1>1 DEF CmdType, Active
<1> HIDE DEF c
<1>4. CmdOK(t, c, proc[t])
  BY <1>1, <1>3 DEF CmdOK, Active
<1> QED BY <1>1, <1>2, <1>3, <1>4, CmdStep

\* A command that has taken up a path goes on with the others.
LEMMA PastOK ==
    ASSUME NEW t, NEW v, NEW c \in CmdType, NEW p, CmdOK(t, c, v), c.pc \in {"paths", "sent"}
    PROVE  Past(c, p) \in CmdType /\ CmdOK(t, Past(c, p), v)
<1>1. /\ Past(c, p) \in CmdType /\ Past(c, p).pc = "paths" /\ Past(c, p).op = c.op
      /\ Past(c, p).args = c.args \ {p} /\ Past(c, p).undone = c.undone \ {p}
      /\ Past(c, p).failed = c.failed
  BY DEF CmdType, Active, Past
<1> QED BY <1>1 DEF CmdOK, Active

\* Every way of taking up a path keeps the invariant.
LEMMA PathSteps ==
    ASSUME RunInv, NEW t \in Caller, NEW p \in Path,
           eachPath(t, p) \/ onePath(t, p) \/ cacheEachPath(t, p) \/ cacheOnePath(t, p)
               \/ uploadPath(t, p)
    PROVE  RunInv'
<1>1. /\ cmd[t].pc = "paths" /\ p \in cmd[t].args /\ UNCHANGED <<config, keys, proc>>
      /\ (\E b : Request(t, p, b)) \/ cmd' = [cmd EXCEPT ![t] = Past(cmd[t], p)]
  BY DEF eachPath, onePath, cacheEachPath, cacheOnePath, uploadPath, disk
<1>2. CASE \E b : Request(t, p, b)
  BY <1>1, <1>2, RequestStep
<1>3. CASE cmd' = [cmd EXCEPT ![t] = Past(cmd[t], p)]
  <2>1. cmd[t] \in CmdType /\ CmdOK(t, cmd[t], proc[t]) /\ FileDirs(config') /\ KeysOK(keys')
    BY <1>1 DEF RunInv, KeysOK
  <2>2. Past(cmd[t], p) \in CmdType /\ CmdOK(t, Past(cmd[t], p), proc[t])
    BY <2>1, <1>1, PastOK
  <2> QED BY <1>1, <1>3, <2>1, <2>2, CmdStep
<1> QED BY <1>1, <1>2, <1>3

\* An attempt at a request changes no variable of the process.
LEMMA SendStep ==
    ASSUME RunInv, NEW t \in Caller, NEW o, sendRequest(t, o)
    PROVE  RunInv'
<1>1. /\ cmd[t] \in CmdType /\ CmdOK(t, cmd[t], proc[t]) /\ cmd[t].pc = "sent"
      /\ UNCHANGED <<config, keys, proc>> /\ FileDirs(config) /\ KeysOK(keys)
  BY DEF RunInv, KeysOK, sendRequest, disk
<1>2. CASE UNCHANGED cmd
  BY <1>1, <1>2 DEF RunInv, KeysOK
<1>3. ASSUME NEW ok \in BOOLEAN, cmd' = [cmd EXCEPT ![t].ok = ok] PROVE RunInv'
  <2> DEFINE c == [cmd[t] EXCEPT !.ok = ok]
  <2>1. cmd' = [cmd EXCEPT ![t] = c]
    BY <1>3 DEF RunInv
  <2>2. /\ c \in CmdType /\ c.pc = cmd[t].pc /\ c.op = cmd[t].op /\ c.at = cmd[t].at
        /\ c.args = cmd[t].args /\ c.undone = cmd[t].undone /\ c.failed = cmd[t].failed
        /\ c.code = cmd[t].code
    BY <1>1 DEF CmdType
  <2> HIDE DEF c
  <2>3. CmdOK(t, c, proc[t])
    BY <1>1, <2>2 DEF CmdOK
  <2> QED BY <1>1, <2>1, <2>2, <2>3, CmdStep
<1>4. UNCHANGED cmd \/ \E ok \in BOOLEAN : cmd' = [cmd EXCEPT ![t].ok = ok]
  <2> DEFINE r == Serve(objects[proc[t].storage], cmd[t],
                        IF cmd[t].op \in Resets THEN pending[proc[t].cachePath][cmd[t].at]
                        ELSE cmd[t].ver)
  <2>1. UNCHANGED cmd \/ cmd' = [cmd EXCEPT ![t].ok = (o = "answer" /\ r.ok)]
    BY DEF sendRequest
  <2>2. (o = "answer" /\ r.ok) \in BOOLEAN
    OBVIOUS
  <2> HIDE DEF r
  <2> QED BY <2>1, <2>2
<1> QED BY <1>2, <1>3, <1>4

\* A failed request makes the command go on with an error, or unwind with one.
LEMMA AfterFailureOK ==
    ASSUME NEW t, NEW v, NEW c \in CmdType, CmdOK(t, c, v), c.pc = "sent"
    PROVE  AfterFailure(c) \in CmdType /\ CmdOK(t, AfterFailure(c), v)
<1>0. "mount" \notin WithPaths
  BY KindsApart DEF Reporting
<1>1. CASE c.op \in WithPaths
  <2> DEFINE d == [c EXCEPT !.pc = "paths", !.args = c.args \ {c.at}, !.failed = TRUE]
  <2>1. AfterFailure(c) = d
    BY <1>0, <1>1 DEF AfterFailure
  <2>2. d \in CmdType /\ d.pc = "paths" /\ d.op = c.op /\ d.failed
    BY DEF CmdType, Active
  <2> HIDE DEF d
  <2> QED BY <2>1, <2>2 DEF CmdOK, Active
<1>2. CASE c.op = "mount"
  <2> DEFINE d == [c EXCEPT !.pc = "paths", !.args = {}]
  <2>1. AfterFailure(c) = d
    BY <1>0, <1>2 DEF AfterFailure
  <2>2. d \in CmdType /\ d.pc = "paths" /\ d.op = c.op
    BY DEF CmdType, Active
  <2> HIDE DEF d
  <2> QED BY <2>1, <2>2, <1>2, KindsApart DEF CmdOK, Active
<1>3. CASE c.op \notin WithPaths /\ c.op # "mount"
  <2>1. AfterFailure(c) = Unwound(c, 1)
    BY <1>3 DEF AfterFailure, Unwound
  <2> QED BY <2>1, UnwoundOK
<1> QED BY <1>1, <1>2, <1>3

\* The end of a request keeps the invariant: only a success takes the path off the list.
LEMMA EndStep ==
    ASSUME RunInv, NEW t \in Caller, endRequest(t)
    PROVE  RunInv'
<1>1. /\ cmd[t] \in CmdType /\ CmdOK(t, cmd[t], proc[t]) /\ cmd[t].pc = "sent"
      /\ UNCHANGED <<config, keys, proc>> /\ FileDirs(config) /\ KeysOK(keys)
  BY DEF RunInv, KeysOK, endRequest, disk
<1>2. \/ cmd' = [cmd EXCEPT ![t] = Past(cmd[t], cmd[t].at)]
      \/ cmd' = [cmd EXCEPT ![t] = AfterFailure(cmd[t])]
  BY DEF endRequest
<1>3. /\ Past(cmd[t], cmd[t].at) \in CmdType /\ CmdOK(t, Past(cmd[t], cmd[t].at), proc[t])
      /\ AfterFailure(cmd[t]) \in CmdType /\ CmdOK(t, AfterFailure(cmd[t]), proc[t])
  BY <1>1, PastOK, AfterFailureOK
<1> QED BY <1>1, <1>2, <1>3, CmdStep

\* The exit of a command, and a step to another place in it.
LEMMA ExitStep ==
    ASSUME RunInv, NEW t \in Caller, NEW code \in Nat, Exit(t, code),
           cmd[t].op \in Reporting /\ code = 0 => cmd[t].undone = {},
           UNCHANGED <<config, keys, proc>>
    PROVE  RunInv'
<1>1. cmd[t] \in CmdType /\ FileDirs(config) /\ KeysOK(keys)
  BY DEF RunInv, KeysOK
<1>2. cmd' = [cmd EXCEPT ![t] = Unwound(cmd[t], code)]
  BY DEF Exit, Unwound, RunInv
<1>3. Unwound(cmd[t], code) \in CmdType /\ CmdOK(t, Unwound(cmd[t], code), proc[t])
  BY <1>1, UnwoundOK
<1> QED BY <1>1, <1>2, <1>3, CmdStep

\* A command that moves on keeps what it has resolved.
LEMMA GotoStep ==
    ASSUME RunInv, NEW t \in Caller, NEW pc \in Active \ {"sent"}, Goto(t, pc),
           cmd[t].pc \in Active, pc \in {"open", "lock"} => cmd[t].op \in Cached,
           pc = "mounted" => cmd[t].op = "mount",
           UNCHANGED <<config, keys, proc>>
    PROVE  RunInv'
<1> DEFINE c == [cmd[t] EXCEPT !.pc = pc]
<1>1. cmd[t] \in CmdType /\ CmdOK(t, cmd[t], proc[t]) /\ FileDirs(config) /\ KeysOK(keys)
  BY DEF RunInv, KeysOK
<1>2. cmd' = [cmd EXCEPT ![t] = c]
  BY DEF Goto, RunInv
<1>3. /\ c \in CmdType /\ c.pc = pc /\ c.op = cmd[t].op
      /\ c.args = cmd[t].args /\ c.undone = cmd[t].undone /\ c.failed = cmd[t].failed
  BY <1>1 DEF CmdType
<1> HIDE DEF c
<1>4. CmdOK(t, c, proc[t])
  BY <1>1, <1>3 DEF CmdOK, Active
<1> QED BY <1>1, <1>2, <1>3, <1>4, CmdStep

\* A command ends with code 0 only when no path is left and none has failed.
LEMMA FinishStep ==
    ASSUME RunInv, NEW t \in Caller, finish(t)
    PROVE  RunInv'
<1>1. /\ cmd[t] \in CmdType /\ CmdOK(t, cmd[t], proc[t]) /\ cmd[t].pc = "paths"
      /\ cmd[t].args = {} /\ UNCHANGED <<config, keys, proc>>
  BY DEF RunInv, finish, disk
<1>2. CASE cmd[t].op = "mount" /\ Goto(t, "mounted")
  BY <1>1, <1>2, GotoStep DEF Active
<1>3. CASE cmd[t].op = "mount" /\ Exit(t, cmd[t].code)
  <2>1. cmd[t].code \in Nat
    BY <1>1 DEF CmdType
  <2> QED BY <2>1, <1>1, <1>3, ExitStep, KindsApart
<1>4. CASE cmd[t].op # "mount" /\ Exit(t, ExitCode(cmd[t]))
  <2>1. ExitCode(cmd[t]) \in Nat /\ (ExitCode(cmd[t]) = 0 => ~cmd[t].failed)
    BY DEF ExitCode
  <2>2. cmd[t].op \in Reporting /\ ~cmd[t].failed => cmd[t].undone = {}
    BY <1>1 DEF CmdOK, Active
  <2> QED BY <2>1, <2>2, <1>1, <1>4, ExitStep
<1> QED BY <1>2, <1>3, <1>4 DEF finish

\* The steps up to the index, and the index.
LEMMA OpenSteps ==
    ASSUME RunInv, NEW t \in Caller, OpenCache(t) \/ InfoFails(t) \/ openIndex(t)
    PROVE  RunInv'
<1>1. /\ cmd[t] \in CmdType /\ CmdOK(t, cmd[t], proc[t]) /\ cmd[t].pc \in {"open", "lock"}
      /\ UNCHANGED <<config, keys, proc>> /\ FileDirs(config) /\ KeysOK(keys)
  BY DEF RunInv, KeysOK, OpenCache, InfoFails, openIndex, disk
<1>2. cmd[t].pc \in Active /\ cmd[t].op \in Cached
  BY <1>1 DEF CmdOK, Active
<1>3. CASE Exit(t, 1)
  BY <1>1, <1>3, ExitStep
<1>4. CASE Goto(t, "lock")
  BY <1>1, <1>2, <1>4, GotoStep DEF Active
<1>5. CASE openIndex(t)
  <2> DEFINE S == Pending(proc[t].cachePath)
             a == IF cmd[t].op \in Resets THEN S ELSE cmd[t].args
             u == IF cmd[t].op \in Resets THEN S ELSE cmd[t].undone
             c == [cmd[t] EXCEPT !.pc = "paths", !.args = a, !.undone = u]
  <2>1. cmd' = [cmd EXCEPT ![t] = c]
    BY <1>5 DEF openIndex, RunInv
  <2>2. a \in SUBSET Path /\ u \in SUBSET Path
    BY <1>1 DEF CmdType, Pending
  <2>3. cmd[t].op \in Reporting /\ ~cmd[t].failed => u \subseteq a
    BY <1>1 DEF CmdOK, Active
  <2> HIDE DEF a, u
  <2>4. /\ c \in CmdType /\ c.pc = "paths" /\ c.op = cmd[t].op /\ c.failed = cmd[t].failed
        /\ c.args = a /\ c.undone = u
    BY <1>1, <2>2 DEF CmdType, Active
  <2> HIDE DEF c
  <2>5. CmdOK(t, c, proc[t])
    BY <1>1, <1>2, <2>3, <2>4 DEF CmdOK, Active
  <2> QED BY <1>1, <2>1, <2>4, <2>5, CmdStep
<1> QED BY <1>3, <1>4, <1>5 DEF OpenCache, InfoFails

\* The deferred CloseCache and the return to the prompt, or the exit.
LEMMA RecoverStep ==
    ASSUME RunInv, NEW t \in Caller, recover(t)
    PROVE  RunInv'
<1> DEFINE pc == IF t \in Shells THEN "prompt" ELSE "none"
           c == [NoCommand EXCEPT !.pc = pc, !.op = cmd[t].op, !.undone = cmd[t].undone,
                                  !.code = cmd[t].code]
<1>1. /\ cmd[t] \in CmdType /\ CmdOK(t, cmd[t], proc[t]) /\ cmd[t].pc = "unwind"
      /\ UNCHANGED <<config, keys>> /\ FileDirs(config) /\ KeysOK(keys)
      /\ cmd' = [cmd EXCEPT ![t] = c]
  BY DEF RunInv, KeysOK, recover, disk
<1>2. pc \in {"none", "prompt"}
  OBVIOUS
<1> HIDE DEF pc
<1>3. NoCommand \in CmdType
  BY NoCommandOK
<1>4. c \in CmdType /\ c.pc = pc /\ c.op = cmd[t].op /\ c.undone = cmd[t].undone
      /\ c.code = cmd[t].code
  BY <1>1, <1>2, <1>3 DEF CmdType
<1> HIDE DEF c
<1>5. \A p : CmdOK(t, c, p)
  BY <1>1, <1>2, <1>4 DEF CmdOK, Active
<1>6. CASE t \in Shells
  <2>1. proc' = proc
    BY <1>6 DEF recover
  <2> QED BY <2>1, <1>1, <1>4, <1>5, CmdStep
<1>7. CASE t \notin Shells
  <2>1. proc' = [proc EXCEPT ![t] = Zero]
    BY <1>7 DEF recover
  <2>2. ProcOK(Zero)
    BY NoFlagsKnown, ZeroOK
  <2> QED BY <2>1, <2>2, <1>1, <1>4, <1>5, ProcStep
<1> QED BY <1>6, <1>7

\* A process is started, ends or is killed.
LEMMA LifeSteps ==
    ASSUME RunInv, NEW t \in Caller,
           (\E flags \in FlagSetsOf[t] : main(t, flags)) \/ quit(t) \/ kill(t)
    PROVE  RunInv'
<1>1. UNCHANGED <<config, keys>> /\ FileDirs(config) /\ KeysOK(keys)
  BY DEF RunInv, KeysOK, main, quit, kill, disk
<1>2. ProcOK(Zero)
  BY NoFlagsKnown, ZeroOK
<1>3. ASSUME NEW flags \in FlagSetsOf[t], main(t, flags) PROVE RunInv'
  <2> DEFINE c == [NoCommand EXCEPT !.pc = "prompt"]
             p == [Zero EXCEPT !.up = TRUE, !.flags = flags]
  <2>1. cmd' = [cmd EXCEPT ![t] = c] /\ proc' = [proc EXCEPT ![t] = p]
    BY <1>3 DEF main
  <2>2. ProcOK(p)
    BY ZeroOK, DataDirAssumption
  <2>3. c \in CmdType /\ CmdOK(t, c, p)
    BY NoCommandOK
  <2> HIDE DEF c, p
  <2> QED BY <1>1, <2>1, <2>2, <2>3, ProcStep
<1>4. CASE quit(t)
  <2> DEFINE c == [cmd[t] EXCEPT !.pc = "none"]
  <2>1. cmd' = [cmd EXCEPT ![t] = c] /\ proc' = [proc EXCEPT ![t] = Zero] /\ cmd[t].pc = "prompt"
    BY <1>4 DEF quit, Goto, RunInv
  <2>2. cmd[t] \in CmdType /\ CmdOK(t, cmd[t], proc[t])
    BY DEF RunInv
  <2>3. c \in CmdType /\ c.pc = "none" /\ c.op = cmd[t].op /\ c.code = cmd[t].code
        /\ c.undone = cmd[t].undone
    BY <2>2 DEF CmdType
  <2> HIDE DEF c
  <2>4. CmdOK(t, c, Zero)
    BY <2>1, <2>2, <2>3 DEF CmdOK, Active
  <2> QED BY <1>1, <1>2, <2>1, <2>3, <2>4, ProcStep
<1>5. CASE kill(t)
  <2>1. cmd' = [cmd EXCEPT ![t] = NoCommand] /\ proc' = [proc EXCEPT ![t] = Zero]
    BY <1>5 DEF kill
  <2>2. NoCommand \in CmdType /\ CmdOK(t, NoCommand, Zero)
    BY NoCommandOK
  <2> QED BY <1>1, <1>2, <2>1, <2>2, ProcStep
<1> QED BY <1>3, <1>4, <1>5

\* A command is given: it has its variables, or it exits.
LEMMA RunStep ==
    ASSUME RunInv, NEW t \in Caller, NEW op \in CommandsOf[t], NEW args \in SUBSET Path,
           NEW to \in Path, run(t, op, args, to), nextVer \in Nat
    PROVE  RunInv'
<1>1. /\ UNCHANGED <<config, keys>> /\ FileDirs(config) /\ KeysOK(keys) /\ ProcOK(proc[t])
      /\ op \in Ops
  BY CommandsAssumption DEF RunInv, KeysOK, run, disk, Ops
<1> DEFINE b == [NoCommand EXCEPT !.op = op, !.args = args, !.undone = args,
                                  !.to = IF op \in Moves THEN to ELSE ""]
<1>2. /\ b \in CmdType /\ b.op = op /\ b.args = args /\ b.undone = args /\ b.failed = FALSE
  <2> DEFINE x == IF op \in Moves THEN to ELSE ""
  <2>1. x \in Path \cup {""}
    OBVIOUS
  <2>2. NoCommand \in CmdType /\ NoCommand.failed = FALSE
    BY NoCommandOK DEF NoCommand
  <2> HIDE DEF x
  <2>3. [NoCommand EXCEPT !.op = op, !.args = args, !.undone = args, !.to = x] \in CmdType
    BY <2>1, <2>2, <1>1 DEF CmdType
  <2>4. /\ [NoCommand EXCEPT !.op = op, !.args = args, !.undone = args, !.to = x].op = op
        /\ [NoCommand EXCEPT !.op = op, !.args = args, !.undone = args, !.to = x].args = args
        /\ [NoCommand EXCEPT !.op = op, !.args = args, !.undone = args, !.to = x].undone = args
        /\ [NoCommand EXCEPT !.op = op, !.args = args, !.undone = args, !.to = x].failed = FALSE
    BY <2>1, <2>2 DEF CmdType
  <2> QED BY <2>3, <2>4 DEF x
<1>3. PICK r \in Resolutions(proc[t], op) :
          LET code == IF r.code # 0 THEN r.code
                      ELSE IF op \in WithOnePath /\ args = {} THEN 2 ELSE 0
          IN /\ proc' = [proc EXCEPT ![t] = r.vars]
             /\ \/ /\ code # 0
                   /\ cmd' = [cmd EXCEPT ![t] = [b EXCEPT !.pc = "unwind",
                                                          !.code = IF op \in Inner THEN 0 ELSE code]]
                \/ /\ code = 0 /\ op \notin Writes
                   /\ cmd' = [cmd EXCEPT ![t] = [b EXCEPT !.pc = Begin(op)]]
                \/ /\ code = 0 /\ op \in Writes
                   /\ cmd' = [cmd EXCEPT ![t] = [b EXCEPT !.pc = Begin(op), !.ver = nextVer]]
                   /\ nextVer <= MaxVer
  BY DEF run
<1> HIDE DEF b
<1>4. Resolved(proc[t], op, r)
  BY <1>1, AllResolved DEF KeysOK
<1>5. ASSUME NEW c \in CmdType, CmdOK(t, c, r.vars), cmd' = [cmd EXCEPT ![t] = c] PROVE RunInv'
  <2>1. ProcOK(r.vars)
    BY <1>4 DEF Resolved
  <2> QED BY <2>1, <1>1, <1>3, <1>5, ProcStep
<1> DEFINE code == IF r.code # 0 THEN r.code ELSE IF op \in WithOnePath /\ args = {} THEN 2 ELSE 0
           exit == IF op \in Inner THEN 0 ELSE code
<1>6. CASE code # 0
  <2>1. exit \in Nat /\ (op \in Reporting => exit # 0)
    BY <1>4, <1>6, KindsApart DEF Resolved
  <2>2. cmd' = [cmd EXCEPT ![t] = [b EXCEPT !.pc = "unwind", !.code = exit]]
    BY <1>3, <1>6
  <2> HIDE DEF exit
  <2>3. cmd' = [cmd EXCEPT ![t] = Unwound(b, exit)]
    BY <2>2 DEF Unwound
  <2> QED BY <2>1, <2>3, <1>2, <1>5, UnwoundOK
<1>7. CASE code = 0
  <2>1. r.code = 0
    BY <1>7, <1>4 DEF Resolved
  <2>2. Begin(op) \in {"local", "open", "paths"}
        /\ (op \in Local <=> Begin(op) = "local") /\ (Begin(op) = "open" => op \in Cached)
    BY DEF Begin
  <2>3. ASSUME NEW c \in CmdType, c.pc = Begin(op), c.op = op, c.args = args, c.undone = args
        PROVE  CmdOK(t, c, r.vars)
    BY <2>1, <2>2, <2>3, <1>4 DEF CmdOK, Active, Resolved
  <2>4. CASE cmd' = [cmd EXCEPT ![t] = [b EXCEPT !.pc = Begin(op)]]
    <3> DEFINE c == [b EXCEPT !.pc = Begin(op)]
    <3>1. c \in CmdType /\ c.pc = Begin(op) /\ c.op = op /\ c.args = args /\ c.undone = args
      BY <1>2, <2>2 DEF CmdType, Active
    <3> HIDE DEF c
    <3>2. cmd' = [cmd EXCEPT ![t] = c]
      BY <2>4 DEF c
    <3> QED BY <3>1, <3>2, <2>3, <1>5
  <2>5. CASE nextVer \in Nat /\ cmd' = [cmd EXCEPT ![t] = [b EXCEPT !.pc = Begin(op), !.ver = nextVer]]
    <3> DEFINE c == [b EXCEPT !.pc = Begin(op), !.ver = nextVer]
    <3>1. c \in CmdType /\ c.pc = Begin(op) /\ c.op = op /\ c.args = args /\ c.undone = args
      BY <1>2, <2>2, <2>5 DEF CmdType, Active
    <3> HIDE DEF c
    <3>2. cmd' = [cmd EXCEPT ![t] = c]
      BY <2>5 DEF c
    <3> QED BY <3>1, <3>2, <2>3, <1>5
  <2> QED BY <1>3, <1>7, <2>4, <2>5
<1> QED BY <1>6, <1>7

\* A mounted file system.
LEMMA MountedSteps ==
    ASSUME RunInv, NEW t \in Caller, loop(t) \/ \E code \in {0, 1} : unmount(t, code)
    PROVE  RunInv'
<1>1. /\ cmd[t] \in CmdType /\ CmdOK(t, cmd[t], proc[t]) /\ cmd[t].pc = "mounted"
      /\ UNCHANGED <<config, keys, proc>> /\ FileDirs(config) /\ KeysOK(keys)
  BY DEF RunInv, KeysOK, loop, unmount, disk
<1>2. cmd[t].op = "mount" /\ cmd[t].pc \in Active
  BY <1>1 DEF CmdOK, Active
<1> DEFINE S == Pending(proc[t].cachePath)
<1>3. S \in SUBSET Path
  BY DEF Pending
<1> HIDE DEF S
<1>4. ASSUME NEW c \in CmdType, c.op = "mount", c.pc = "paths", cmd' = [cmd EXCEPT ![t] = c]
      PROVE  RunInv'
  <2>1. CmdOK(t, c, proc[t])
    BY <1>1, <1>2, <1>4, KindsApart DEF CmdOK, Active
  <2> QED BY <1>1, <1>4, <2>1, CmdStep
<1>5. CASE loop(t)
  <2> DEFINE c == [cmd[t] EXCEPT !.pc = "paths", !.args = S]
  <2>1. cmd' = [cmd EXCEPT ![t] = c]
    BY <1>5 DEF loop, RunInv, S
  <2>2. c \in CmdType /\ c.op = "mount" /\ c.pc = "paths"
    BY <1>1, <1>2, <1>3 DEF CmdType, Active
  <2> HIDE DEF c
  <2> QED BY <2>1, <2>2, <1>4
<1>6. ASSUME NEW code \in {0, 1}, unmount(t, code) PROVE RunInv'
  <2> DEFINE c == [cmd[t] EXCEPT !.pc = "paths", !.closing = TRUE, !.code = code, !.args = S]
  <2>1. cmd' = [cmd EXCEPT ![t] = c]
    BY <1>6 DEF unmount, RunInv, S
  <2>2. code \in Nat
    OBVIOUS
  <2>3. c \in CmdType /\ c.op = "mount" /\ c.pc = "paths"
    BY <1>1, <1>2, <1>3, <2>2 DEF CmdType, Active
  <2> HIDE DEF c
  <2> QED BY <2>1, <2>3, <1>4
<1> QED BY <1>5, <1>6

\* Every step of every process keeps the invariant.
LEMMA NextRun ==
    ASSUME RunInv, nextVer \in Nat, [Next]_vars
    PROVE  RunInv' /\ nextVer' \in Nat
<1>1. ASSUME UNCHANGED <<config, keys, proc, cmd>> PROVE RunInv'
  BY <1>1 DEF RunInv
<1>2. ASSUME NEW t \in Caller, Step(t) PROVE RunInv' /\ UNCHANGED nextVer
  <2>1. CASE \/ \E s \in Settings : ConfigSet(t, s) \/ ConfigDelete(t, s)
             \/ \E s \in Passes : KeyringSet(t, s[1], s[2]) \/ KeyringDelete(t, s[1])
             \/ \E path \in AuthPaths : Auth(t, path)
    BY <2>1, LocalSteps
       DEF ConfigSet, ConfigDelete, KeyringSet, KeyringDelete, Auth, written
  <2>2. CASE OpenCache(t) \/ InfoFails(t) \/ openIndex(t)
    BY <2>2, OpenSteps DEF OpenCache, InfoFails, openIndex, written
  <2>3. ASSUME NEW p \in Path,
               eachPath(t, p) \/ onePath(t, p) \/ cacheEachPath(t, p) \/ cacheOnePath(t, p)
                   \/ uploadPath(t, p)
        PROVE  RunInv' /\ UNCHANGED nextVer
    BY <2>3, PathSteps DEF eachPath, onePath, cacheEachPath, cacheOnePath, uploadPath, written
  <2>4. ASSUME NEW o \in Outcomes, sendRequest(t, o) PROVE RunInv' /\ UNCHANGED nextVer
    BY <2>4, SendStep DEF sendRequest, written
  <2>5. CASE stopRetrying(t)
    BY <2>5, <1>1 DEF stopRetrying, disk, written
  <2>6. CASE endRequest(t)
    BY <2>6, EndStep DEF endRequest, written
  <2>7. CASE finish(t)
    BY <2>7, FinishStep DEF finish, written
  <2>8. CASE recover(t)
    BY <2>8, RecoverStep DEF recover, written
  <2> QED BY <1>2, <2>1, <2>2, <2>3, <2>4, <2>5, <2>6, <2>7, <2>8 DEF Step
<1>3. ASSUME NEW t \in Caller, User(t) PROVE RunInv' /\ nextVer' \in Nat
  <2>1. CASE (\E flags \in FlagSetsOf[t] : main(t, flags)) \/ quit(t) \/ kill(t)
    BY <2>1, LifeSteps DEF main, quit, kill, written
  <2>2. ASSUME NEW op \in CommandsOf[t], NEW args \in SUBSET Path, NEW to \in Path,
               run(t, op, args, to)
        PROVE  RunInv' /\ nextVer' \in Nat
    <3>1. nextVer' \in {nextVer, nextVer + 1}
      BY <2>2 DEF run, written
    <3> QED BY <3>1, <2>2, RunStep
  <2>3. CASE loop(t) \/ \E code \in {0, 1} : unmount(t, code)
    BY <2>3, MountedSteps DEF loop, unmount, written
  <2>4. ASSUME NEW p \in Path, mountedWrite(t, p) PROVE RunInv' /\ nextVer' \in Nat
    BY <2>4, <1>1 DEF mountedWrite, disk
  <2> QED BY <1>3, <2>1, <2>2, <2>3, <2>4 DEF User
<1>4. CASE UNCHANGED vars
  BY <1>1, <1>4 DEF vars, disk, written
<1> QED BY <1>2, <1>3, <1>4 DEF Next

\* RunInv is an invariant of the command line.
LEMMA RunInvariant == Spec => [](RunInv /\ nextVer \in Nat)
<1>1. Init => RunInv /\ nextVer \in Nat
  BY InitRun DEF Init
<1>2. (RunInv /\ nextVer \in Nat) /\ [Next]_vars => (RunInv /\ nextVer \in Nat)'
  BY NextRun
<1> QED BY <1>1, <1>2, PTL DEF Spec

\* A command on paths that exits with 0 has done every one of them, however the
\* requests for them ended and whatever else the process did in between.
THEOREM ExitCodesHonest == Spec => []ExitHonest
<1>1. RunInv => ExitHonest
  BY DEF RunInv, CmdOK, ExitHonest, Reporting
<1> QED BY <1>1, RunInvariant, PTL

-----------------------------------------------------------------------------
(* The configuration file *)

\* Every step leaves the file alone, unless it is one of "config".
LEMMA FileSteps ==
    ASSUME RunInv, [Next]_vars
    PROVE  \/ UNCHANGED <<config, want>>
           \/ \E t \in Caller, s \in Settings : ConfigSet(t, s) \/ ConfigDelete(t, s)
<1>1. ASSUME NEW t \in Caller, Step(t)
      PROVE  \/ UNCHANGED <<config, want>>
             \/ \E s \in Settings : ConfigSet(t, s) \/ ConfigDelete(t, s)
  BY <1>1 DEF Step, disk, KeyringSet, KeyringDelete, Auth, OpenCache, InfoFails, openIndex,
              eachPath, onePath, cacheEachPath, cacheOnePath, uploadPath, sendRequest,
              stopRetrying, endRequest, finish, recover
<1>2. ASSUME NEW t \in Caller, User(t) PROVE UNCHANGED <<config, want>>
  <2>1. ASSUME NEW op \in CommandsOf[t], NEW args \in SUBSET Path, NEW to \in Path,
               run(t, op, args, to)
        PROVE  UNCHANGED <<config, want>>
    BY <2>1 DEF run, disk
  <2>2. CASE \/ \E flags \in FlagSetsOf[t] : main(t, flags)
             \/ quit(t) \/ kill(t) \/ loop(t) \/ (\E p \in Path : mountedWrite(t, p))
             \/ \E code \in {0, 1} : unmount(t, code)
    BY <2>2 DEF disk, main, quit, kill, loop, mountedWrite, unmount
  <2> QED BY <1>2, <2>1, <2>2 DEF User
<1>3. CASE UNCHANGED vars
  BY <1>3 DEF vars, disk
<1> QED BY <1>1, <1>2, <1>3 DEF Next

\* What the other steps do to the variables of a process: needvar reads the file once.
LEMMA VariableSteps ==
    ASSUME RunInv, [Next]_vars, NEW e \in Caller,
           ~\E t \in Caller, s \in Settings : ConfigSet(t, s) \/ ConfigDelete(t, s)
    PROVE  \/ proc'[e] = proc[e]
           \/ ~proc'[e].once
           \/ proc'[e].programConfig = IF proc[e].once THEN proc[e].programConfig ELSE config
<1>0. DOMAIN proc = Caller
  BY DEF RunInv
<1>1. CASE UNCHANGED proc
  BY <1>1
<1>2. ASSUME NEW t \in Caller, proc' = [proc EXCEPT ![t] = Zero] PROVE proc'[e] = proc[e] \/ ~proc'[e].once
  <2>1. ~Zero.once
    BY NoFlagsKnown, ZeroOK
  <2> QED BY <2>1, <1>0, <1>2
<1>3. ASSUME NEW t \in Caller, NEW flags \in FlagSetsOf[t], main(t, flags)
      PROVE  proc'[e] = proc[e] \/ ~proc'[e].once
  <2> DEFINE p == [Zero EXCEPT !.up = TRUE, !.flags = flags]
  <2>1. proc' = [proc EXCEPT ![t] = p]
    BY <1>3 DEF main
  <2>2. ~p.once
    BY ZeroOK, DataDirAssumption
  <2> HIDE DEF p
  <2> QED BY <2>1, <2>2, <1>0
<1>4. ASSUME NEW t \in Caller, NEW op \in CommandsOf[t], NEW args \in SUBSET Path, NEW to \in Path,
             run(t, op, args, to)
      PROVE  \/ proc'[e] = proc[e]
             \/ proc'[e].programConfig = IF proc[e].once THEN proc[e].programConfig ELSE config
  <2>1. PICK r \in Resolutions(proc[t], op) : proc' = [proc EXCEPT ![t] = r.vars]
    BY <1>4 DEF run
  <2>2. Resolved(proc[t], op, r)
    BY AllResolved DEF RunInv
  <2> QED BY <1>0, <2>1, <2>2 DEF Resolved
<1>5. ASSUME NEW t \in Caller, Step(t)
      PROVE  proc'[e] = proc[e] \/ ~proc'[e].once
  <2>1. UNCHANGED proc \/ proc' = [proc EXCEPT ![t] = Zero]
    BY <1>5 DEF Step, KeyringSet, KeyringDelete, Auth, OpenCache, InfoFails, openIndex, eachPath,
                onePath, cacheEachPath, cacheOnePath, uploadPath, sendRequest, stopRetrying,
                endRequest, finish, recover
  <2> QED BY <2>1, <1>2
<1>6. ASSUME NEW t \in Caller, quit(t) \/ kill(t) PROVE proc'[e] = proc[e] \/ ~proc'[e].once
  BY <1>6, <1>2 DEF quit, kill
<1>7. ASSUME NEW t \in Caller, loop(t) \/ (\E p \in Path : mountedWrite(t, p))
                  \/ (\E code \in {0, 1} : unmount(t, code))
      PROVE  proc'[e] = proc[e]
  BY <1>7 DEF loop, mountedWrite, unmount
<1>8. CASE UNCHANGED vars
  BY <1>8 DEF vars
<1> QED BY <1>3, <1>4, <1>5, <1>6, <1>7, <1>8 DEF Next, User

\* The inductive invariant: what the editor's process has read is the file as it is.
KeptInv(e) == config = want /\ (proc[e].once => proc[e].programConfig = config)

\* The configuration file holds every setting that was made, as long as one
\* terminal makes them: only another process that writes the file as it once read
\* it can lose one.
THEOREM SettingsKept ==
    ASSUME NEW e \in Caller,
           \A t \in Caller \ {e} : CommandsOf[t] \cap {"config-set", "config-delete"} = {}
    PROVE  Spec => []ConfigKept
<1>1. Init => KeptInv(e)
  <2>1. ~Zero.once
    BY NoFlagsKnown, ZeroOK
  <2> QED BY <2>1 DEF Init, KeptInv
<1>2. RunInv /\ KeptInv(e) /\ [Next]_vars => KeptInv(e)'
  <2> SUFFICES ASSUME RunInv, KeptInv(e), [Next]_vars PROVE KeptInv(e)' OBVIOUS
  <2>1. ASSUME NEW t \in Caller, NEW s \in Settings, ConfigSet(t, s) \/ ConfigDelete(t, s)
        PROVE  KeptInv(e)'
    <3>1. t = e /\ proc[e].once
      BY <2>1 DEF ConfigSet, ConfigDelete, RunInv, CmdOK
    <3>2. proc[e].programConfig = want /\ config = want
      BY <3>1 DEF KeptInv
    <3>3. PICK file : file = want' /\ WriteConfig(e, file)
      BY <2>1, <3>1, <3>2 DEF ConfigSet, ConfigDelete
    <3>4. config' = file /\ proc'[e].programConfig = file
      <4>1. DOMAIN proc = Caller /\ "programConfig" \in DOMAIN proc[e]
        BY DEF RunInv, ProcOK, Zero
      <4> QED BY <3>3, <4>1 DEF WriteConfig
    <3> QED BY <3>3, <3>4 DEF KeptInv
  <2>2. CASE ~\E t \in Caller, s \in Settings : ConfigSet(t, s) \/ ConfigDelete(t, s)
    <3>1. UNCHANGED <<config, want>>
      BY <2>2, FileSteps
    <3> QED BY <3>1, <2>2, VariableSteps DEF KeptInv
  <2> QED BY <2>1, <2>2
<1>3. KeptInv(e) => ConfigKept
  BY DEF KeptInv, ConfigKept
<1> QED BY <1>1, <1>2, <1>3, RunInvariant, PTL DEF Spec

-----------------------------------------------------------------------------
(* Accounts and cache directories *)

\* No two accounts share a cache directory: every directory that a process uses is
\* used for the account that owns it.
Apart(Owner) ==
    \A t \in Caller :
        proc[t].cachePath \in CachePath /\ proc[t].storage \in Account
        => proc[t].storage = Owner[proc[t].cachePath]

\* The versions written for account a.
Mine(a) == {v \in 1..nextVer - 1 : by[v] = a}

\* What account a may hold, and what may wait in a cache directory for upload to it.
Held(a) == Mine(a) \cup {0, Empty}
Waiting(a) == Mine(a) \cup {0}

\* Commands that make requests.
Requesting == WithPaths \cup WithOnePath \cup Resets

\* The version that command c writes is for the storage of its process.
VersionOK(c, p) ==
    /\ c.pc \in Active /\ c.op \in Writes => c.ver \in Mine(p.storage)
    /\ c.pc = "sent" => c.op \in Requesting

\* The inductive invariant of contents.
VersionInv(Owner) ==
    /\ nextVer \in 1..MaxVer + 1
    /\ DOMAIN by = 1..MaxVer
    /\ DOMAIN objects = Account /\ \A a \in Account : objects[a] \in [Path -> Held(a)]
    /\ DOMAIN pending = CachePath /\ \A c \in CachePath : pending[c] \in [Path -> Waiting(Owner[c])]
    /\ \A t \in Caller : VersionOK(cmd[t], proc[t])

\* A step that goes on with the command of process u, or does not.
Carries(u) ==
    /\ cmd'[u].pc \in Active => /\ cmd[u].pc \in Active /\ cmd'[u].op = cmd[u].op
                                /\ cmd'[u].ver = cmd[u].ver /\ proc'[u].storage = proc[u].storage
    /\ cmd'[u].pc = "sent" => \/ cmd[u].pc = "sent" /\ cmd'[u].op = cmd[u].op
                              \/ cmd'[u].op \in Requesting

\* A process that goes on with its command, or ends it, keeps its version.
LEMMA CarriesOn ==
    ASSUME NEW Owner, VersionInv(Owner), NEW u \in Caller, Carries(u),
           \A a : Mine(a) \subseteq Mine(a)'
    PROVE  VersionOK(cmd[u], proc[u])'
BY DEF VersionInv, VersionOK, Carries

\* The steps of process t leave the others alone.
LEMMA StepOwn ==
    ASSUME RunInv, NEW t \in Caller, Step(t), NEW u \in Caller, u # t
    PROVE  cmd'[u] = cmd[u] /\ proc'[u] = proc[u]
<1>1. cmd \in [Caller -> CmdType] /\ DOMAIN proc = Caller
  BY DEF RunInv
<1>2. CASE UNCHANGED proc /\ \E c : cmd' = [cmd EXCEPT ![t] = c]
  BY <1>1, <1>2
<1>3. ASSUME NEW code, Exit(t, code) PROVE cmd'[u] = cmd[u]
  BY <1>1, <1>3 DEF Exit
<1>4. ASSUME NEW s \in Settings, ConfigSet(t, s) \/ ConfigDelete(t, s)
      PROVE  cmd'[u] = cmd[u] /\ proc'[u] = proc[u]
  <2>1. PICK file : WriteConfig(t, file)
    BY <1>4 DEF ConfigSet, ConfigDelete
  <2>2. proc'[u] = proc[u]
    BY <2>1, <1>1 DEF WriteConfig
  <2> QED BY <1>3, <1>4, <2>2 DEF ConfigSet, ConfigDelete
<1>5. CASE \/ \E s \in Passes : KeyringSet(t, s[1], s[2]) \/ KeyringDelete(t, s[1])
           \/ \E path \in AuthPaths : Auth(t, path)
  BY <1>3, <1>5 DEF KeyringSet, KeyringDelete, Auth
<1>6. CASE OpenCache(t) \/ InfoFails(t) \/ openIndex(t) \/ finish(t)
  BY <1>1, <1>6 DEF OpenCache, InfoFails, openIndex, finish, Exit, Goto
<1>7. ASSUME NEW p \in Path,
             eachPath(t, p) \/ onePath(t, p) \/ cacheEachPath(t, p) \/ cacheOnePath(t, p)
                 \/ uploadPath(t, p)
      PROVE  cmd'[u] = cmd[u] /\ proc'[u] = proc[u]
  <2>1. UNCHANGED proc /\ ((\E b : Request(t, p, b)) \/ cmd' = [cmd EXCEPT ![t] = Past(cmd[t], p)])
    BY <1>7 DEF eachPath, onePath, cacheEachPath, cacheOnePath, uploadPath
  <2>2. ASSUME NEW b, Request(t, p, b) PROVE cmd'[u] = cmd[u]
    BY <1>1, <2>2 DEF Request
  <2> QED BY <1>1, <2>1, <2>2
<1>8. ASSUME NEW o \in Outcomes, sendRequest(t, o) PROVE cmd'[u] = cmd[u] /\ proc'[u] = proc[u]
  BY <1>1, <1>8 DEF sendRequest
<1>9. CASE stopRetrying(t) \/ endRequest(t)
  BY <1>1, <1>9 DEF stopRetrying, endRequest
<1>10. CASE recover(t)
  BY <1>1, <1>10 DEF recover
<1> QED BY <1>4, <1>5, <1>6, <1>7, <1>8, <1>9, <1>10 DEF Step

\* A step of process t goes on with its command or ends it.
LEMMA StepCarries ==
    ASSUME RunInv, NEW t \in Caller, Step(t)
    PROVE  \A u \in Caller : Carries(u)
<1>1. /\ cmd \in [Caller -> CmdType] /\ cmd[t] \in CmdType /\ DOMAIN proc = Caller
      /\ CmdOK(t, cmd[t], proc[t])
  BY DEF RunInv
<1>2. ASSUME NEW u \in Caller, u # t PROVE Carries(u)
  BY <1>2, StepOwn DEF Carries
<1> SUFFICES Carries(t) BY <1>2
<1>3. ASSUME cmd'[t].pc \notin Active PROVE Carries(t)
  BY <1>3 DEF Carries, Active
<1>4. ASSUME NEW code, Exit(t, code) PROVE Carries(t)
  <2>1. cmd'[t].pc = "unwind"
    BY <1>1, <1>4 DEF Exit, CmdType
  <2> QED BY <2>1, <1>3 DEF Active
<1>5. ASSUME UNCHANGED proc, cmd[t].pc \in Active, cmd'[t].pc # "sent",
             cmd'[t].op = cmd[t].op, cmd'[t].ver = cmd[t].ver
      PROVE  Carries(t)
  BY <1>5 DEF Carries
<1>6. CASE \/ \E s \in Settings : ConfigSet(t, s) \/ ConfigDelete(t, s)
           \/ \E s \in Passes : KeyringSet(t, s[1], s[2]) \/ KeyringDelete(t, s[1])
           \/ \E path \in AuthPaths : Auth(t, path)
  BY <1>4, <1>6 DEF ConfigSet, ConfigDelete, KeyringSet, KeyringDelete, Auth
<1>7. ASSUME NEW pc, Goto(t, pc), UNCHANGED proc, cmd[t].pc \in Active, pc # "sent"
      PROVE  Carries(t)
  <2>1. cmd'[t].pc = pc /\ cmd'[t].op = cmd[t].op /\ cmd'[t].ver = cmd[t].ver
    BY <1>1, <1>7 DEF Goto, CmdType
  <2> QED BY <2>1, <1>5, <1>7
<1>8. CASE OpenCache(t) \/ InfoFails(t)
  BY <1>4, <1>7, <1>8 DEF OpenCache, InfoFails, Active
<1>9. CASE openIndex(t)
  <2>1. cmd'[t].pc = "paths" /\ cmd'[t].op = cmd[t].op /\ cmd'[t].ver = cmd[t].ver
    BY <1>1, <1>9 DEF openIndex, CmdType
  <2> QED BY <2>1, <1>5, <1>9 DEF openIndex, Active
<1>10. CASE finish(t)
  BY <1>4, <1>7, <1>10 DEF finish, Active
<1>11. Past(cmd[t], cmd[t].at).pc = "paths" /\ Past(cmd[t], cmd[t].at).op = cmd[t].op
       /\ Past(cmd[t], cmd[t].at).ver = cmd[t].ver
  BY <1>1 DEF Past, CmdType
<1>12. ASSUME NEW p \in Path,
              eachPath(t, p) \/ onePath(t, p) \/ cacheEachPath(t, p) \/ cacheOnePath(t, p)
                  \/ uploadPath(t, p)
       PROVE  Carries(t)
  <2>1. /\ UNCHANGED proc /\ cmd[t].op \in Requesting /\ cmd[t].pc = "paths"
        /\ (\E b : Request(t, p, b)) \/ cmd' = [cmd EXCEPT ![t] = Past(cmd[t], p)]
    BY <1>12 DEF eachPath, onePath, cacheEachPath, cacheOnePath, uploadPath, Requesting,
                 WithPaths, WithOnePath
  <2>2. ASSUME NEW b, Request(t, p, b) PROVE Carries(t)
    <3>1. cmd'[t].op = cmd[t].op /\ cmd'[t].ver = cmd[t].ver
      BY <1>1, <2>2 DEF Request, CmdType
    <3> QED BY <2>1, <3>1 DEF Carries, Active
  <2>3. ASSUME cmd' = [cmd EXCEPT ![t] = Past(cmd[t], p)] PROVE Carries(t)
    <3>1. cmd'[t].op = cmd[t].op /\ cmd'[t].ver = cmd[t].ver
      BY <1>1, <2>3 DEF Past, CmdType
    <3> QED BY <2>1, <3>1 DEF Carries, Active
  <2> QED BY <2>1, <2>2, <2>3
<1>13. ASSUME NEW o \in Outcomes, sendRequest(t, o) PROVE Carries(t)
  <2>1. cmd[t].pc = "sent" /\ UNCHANGED proc /\ (UNCHANGED cmd \/ \E ok : cmd' = [cmd EXCEPT ![t].ok = ok])
    BY <1>13 DEF sendRequest
  <2>2. ASSUME NEW ok, cmd' = [cmd EXCEPT ![t].ok = ok]
        PROVE  cmd'[t].pc = cmd[t].pc /\ cmd'[t].op = cmd[t].op /\ cmd'[t].ver = cmd[t].ver
    BY <1>1, <2>2 DEF CmdType
  <2> QED BY <2>1, <2>2 DEF Carries
<1>14. CASE stopRetrying(t)
  BY <1>14 DEF stopRetrying, Carries
<1>15. CASE endRequest(t)
  <2>1. /\ cmd[t].pc = "sent" /\ UNCHANGED proc
        /\ \/ cmd' = [cmd EXCEPT ![t] = Past(cmd[t], cmd[t].at)]
           \/ cmd' = [cmd EXCEPT ![t] = AfterFailure(cmd[t])]
    BY <1>15 DEF endRequest
  <2>2. CASE cmd' = [cmd EXCEPT ![t] = Past(cmd[t], cmd[t].at)]
    <3>1. cmd'[t] = Past(cmd[t], cmd[t].at)
      BY <2>2, <1>1
    <3> QED BY <3>1, <2>1, <1>5, <1>11 DEF Active
  <2>3. CASE cmd' = [cmd EXCEPT ![t] = AfterFailure(cmd[t])]
    <3>1. /\ AfterFailure(cmd[t]).pc # "sent" /\ AfterFailure(cmd[t]).op = cmd[t].op
          /\ AfterFailure(cmd[t]).ver = cmd[t].ver
      <4>1. "mount" \notin WithPaths
        BY KindsApart DEF Reporting
      <4> QED BY <4>1, <1>1 DEF AfterFailure, CmdType
    <3>2. cmd'[t] = AfterFailure(cmd[t])
      BY <2>3, <1>1
    <3> QED BY <3>1, <3>2, <2>1, <1>5 DEF Active
  <2> QED BY <2>1, <2>2, <2>3
<1>16. CASE recover(t)
  <2> DEFINE pc == IF t \in Shells THEN "prompt" ELSE "none"
             c == [NoCommand EXCEPT !.pc = pc, !.op = cmd[t].op, !.undone = cmd[t].undone,
                                    !.code = cmd[t].code]
  <2>1. cmd'[t] = c
    BY <1>1, <1>16 DEF recover
  <2>2. pc \notin Active
    BY DEF Active
  <2> HIDE DEF pc
  <2>3. c.pc = pc
    BY DEF NoCommand
  <2> QED BY <2>1, <2>2, <2>3, <1>3
<1> QED BY <1>6, <1>8, <1>9, <1>10, <1>12, <1>13, <1>14, <1>15, <1>16 DEF Step

\* What a server does with a request for account a.
LEMMA ServeHeld ==
    ASSUME NEW a, NEW o \in [Path -> Held(a)], NEW c, c.op \in Requesting, c.at \in Path, NEW v,
           c.op = "put" \/ c.op \in Resets => v \in Held(a)
    PROVE  Serve(o, c, v).objects \in [Path -> Held(a)]
<1>1. 0 \in Held(a) /\ Empty \in Held(a) /\ o[c.at] \in Held(a)
  BY DEF Held
<1> DEFINE Looks == {"ls", "get", "cache-ls", "cache-get"}
           Makes == {"mkdir", "cache-mkdir", "cache-put"}
           Drops == {"rm", "cache-rm"}
           Stores == {"put"} \cup Resets
<1>2. c.op \in Looks \cup Makes \cup Drops \cup Moves \cup Stores
  BY DEF Requesting, WithPaths, WithOnePath, PathsCommands, CachePathsCommands, SingleCommands,
         CacheSingleCommands, Moves
<1>3. CASE c.op \in Looks
  <2>1. Serve(o, c, v) = IF o[c.at] = 0 THEN Refused(o) ELSE Done(o)
    BY <1>3 DEF Serve, Moves, Resets
  <2> QED BY <2>1 DEF Refused, Done
<1>4. CASE c.op \in Makes
  <2>1. Serve(o, c, v) = IF o[c.at] # 0 THEN Refused(o) ELSE Done([o EXCEPT ![c.at] = Empty])
    BY <1>4 DEF Serve, Moves, Resets
  <2> QED BY <2>1, <1>1 DEF Refused, Done
<1>5. CASE c.op \in Drops
  <2>1. Serve(o, c, v) = IF o[c.at] = 0 THEN Refused(o) ELSE Done([o EXCEPT ![c.at] = 0])
    BY <1>5 DEF Serve, Moves, Resets
  <2> QED BY <2>1, <1>1 DEF Refused, Done
<1>6. CASE c.op \in Moves
  <2>1. Serve(o, c, v) = IF o[c.at] = 0 THEN Refused(o)
                         ELSE Done([o EXCEPT ![c.to] = o[c.at], ![c.at] = 0])
    BY <1>6 DEF Serve, Moves, Resets
  <2> QED BY <2>1, <1>1 DEF Refused, Done
<1>7. CASE c.op \in Stores
  <2>1. Serve(o, c, v) = Done([o EXCEPT ![c.at] = v])
    BY <1>7 DEF Serve, Moves, Resets
  <2> QED BY <2>1, <1>1, <1>7 DEF Done
<1> QED BY <1>2, <1>3, <1>4, <1>5, <1>6, <1>7

\* What the cache does with its pending files after a request.
LEMMA PendingWaits ==
    ASSUME NEW a, NEW pend \in [Path -> Waiting(a)], NEW c, c.at \in Path,
           c.op = "cache-put" => c.ver \in Waiting(a)
    PROVE  PendingAfter(c, pend) \in [Path -> Waiting(a)]
<1>1. 0 \in Waiting(a) /\ pend[c.at] \in Waiting(a)
  BY DEF Waiting
<1>2. CASE c.op = "cache-put"
  <2>1. PendingAfter(c, pend) = [pend EXCEPT ![c.at] = c.ver]
    BY <1>2 DEF PendingAfter, Resets
  <2> QED BY <2>1, <1>2
<1>3. CASE c.op = "cache-rm" \/ c.op \in Resets
  <2>1. PendingAfter(c, pend) = [pend EXCEPT ![c.at] = 0]
    BY <1>3 DEF PendingAfter, Resets
  <2> QED BY <2>1, <1>1
<1>4. CASE c.op = "cache-mv"
  <2>1. PendingAfter(c, pend) = [pend EXCEPT ![c.to] = pend[c.at], ![c.at] = 0]
    BY <1>4 DEF PendingAfter, Resets
  <2> QED BY <2>1, <1>1
<1>5. CASE c.op \notin {"cache-put", "cache-rm", "cache-mv"} \cup Resets
  BY <1>5 DEF PendingAfter
<1> QED BY <1>2, <1>3, <1>4, <1>5

\* Without a new version the sets of versions stay as they are.
LEMMA SameVersions ==
    ASSUME UNCHANGED written
    PROVE  \A a : Mine(a)' = Mine(a) /\ Held(a)' = Held(a) /\ Waiting(a)' = Waiting(a)
BY DEF written, Mine, Held, Waiting, Empty

\* The bound on versions is a number.
LEMMA MaxVerNat == MaxVer \in Nat
BY CommandsAssumption

\* A new version is for one account.
LEMMA NewVersion ==
    ASSUME nextVer \in 1..MaxVer, DOMAIN by = 1..MaxVer, NEW x, nextVer' = nextVer + 1,
           by' = [by EXCEPT ![nextVer] = x]
    PROVE  /\ nextVer \in Mine(x)' /\ nextVer' \in 1..MaxVer + 1 /\ DOMAIN by' = 1..MaxVer
           /\ \A a : /\ Mine(a) \subseteq Mine(a)' /\ Held(a) \subseteq Held(a)'
                     /\ Waiting(a) \subseteq Waiting(a)'
<1>1. MaxVer \in Nat /\ nextVer \in Nat /\ 1 <= nextVer /\ nextVer <= MaxVer
  BY MaxVerNat
<1>2. /\ DOMAIN by' = 1..MaxVer /\ by'[nextVer] = x
      /\ \A v \in 1..MaxVer : v # nextVer => by'[v] = by[v]
  OBVIOUS
<1>3. 1..nextVer' - 1 = (1..nextVer - 1) \cup {nextVer} /\ nextVer' \in 1..MaxVer + 1
  BY <1>1
<1>4. nextVer \in Mine(x)'
  BY <1>2, <1>3 DEF Mine
<1>5. ASSUME NEW a, NEW v \in Mine(a) PROVE v \in Mine(a)'
  <2>1. v \in 1..nextVer - 1 /\ by[v] = a
    BY DEF Mine
  <2>2. v \in 1..MaxVer /\ v # nextVer
    BY <2>1, <1>1
  <2> QED BY <2>1, <2>2, <1>2, <1>3 DEF Mine
<1>6. \A a : Mine(a) \subseteq Mine(a)'
  BY <1>5
<1> QED BY <1>2, <1>3, <1>4, <1>6 DEF Held, Waiting, Empty

\* A step that leaves the contents alone.
LEMMA QuietStep ==
    ASSUME NEW Owner, VersionInv(Owner), UNCHANGED <<objects, pending, written>>,
           \A u \in Caller : Carries(u)
    PROVE  VersionInv(Owner)'
<1>1. \A a : Mine(a)' = Mine(a) /\ Held(a)' = Held(a) /\ Waiting(a)' = Waiting(a)
  BY SameVersions
<1>2. \A u \in Caller : VersionOK(cmd[u], proc[u])'
  BY <1>1, CarriesOn
<1> QED BY <1>1, <1>2 DEF VersionInv, written

\* The steps of a command put versions only where they belong.
LEMMA StepVersions ==
    ASSUME NEW Owner \in [CachePath -> Account], RunInv, Apart(Owner), VersionInv(Owner),
           NEW t \in Caller, Step(t)
    PROVE  VersionInv(Owner)'
<1>1. \A u \in Caller : Carries(u)
  BY StepCarries
<1>2. ASSUME NEW o \in Outcomes, sendRequest(t, o) PROVE VersionInv(Owner)'
  <2> DEFINE c == cmd[t]
             a == proc[t].storage
             v == IF c.op \in Resets THEN pending[proc[t].cachePath][c.at] ELSE c.ver
             r == Serve(objects[a], c, v)
  <2>1. c \in CmdType /\ CmdOK(t, c, proc[t]) /\ c.pc = "sent" /\ VersionOK(c, proc[t])
    BY <1>2 DEF RunInv, sendRequest, VersionInv
  <2>2. a \in Account /\ c.at \in Path /\ c.op \in Requesting
    BY <2>1 DEF CmdOK, Active, CmdType, VersionOK
  <2>3. objects[a] \in [Path -> Held(a)] /\ DOMAIN objects = Account
    BY <2>2 DEF VersionInv
  <2>4. c.op = "put" \/ c.op \in Resets => v \in Held(a)
    <3>1. CASE c.op \in Resets
      <4>1. proc[t].cachePath \in CachePath
        BY <2>1, <3>1 DEF CmdOK, Active, Cached
      <4>2. a = Owner[proc[t].cachePath]
        BY <4>1, <2>2 DEF Apart
      <4>3. v \in Waiting(a)
        BY <4>1, <4>2, <3>1, <2>2 DEF VersionInv
      <4> QED BY <4>3 DEF Waiting, Held
    <3>2. CASE c.op = "put" /\ c.op \notin Resets
      BY <3>2, <2>1 DEF VersionOK, Active, Writes, Held
    <3> QED BY <3>1, <3>2
  <2>5. r.objects \in [Path -> Held(a)]
    BY <2>2, <2>3, <2>4, ServeHeld
  <2>6. UNCHANGED <<pending, written>>
        /\ (objects' = [objects EXCEPT ![a] = r.objects] \/ UNCHANGED objects)
    BY <1>2 DEF sendRequest, cache
  <2> HIDE DEF r
  <2>7. DOMAIN objects' = Account /\ \A b \in Account : objects'[b] \in [Path -> Held(b)]
    BY <2>3, <2>5, <2>6 DEF VersionInv
  <2>8. \A b : Mine(b)' = Mine(b) /\ Held(b)' = Held(b) /\ Waiting(b)' = Waiting(b)
    BY <2>6, SameVersions
  <2>9. \A u \in Caller : VersionOK(cmd[u], proc[u])'
    BY <2>8, <1>1, CarriesOn
  <2> QED BY <2>6, <2>7, <2>8, <2>9 DEF VersionInv, written
<1>3. CASE endRequest(t)
  <2> DEFINE c == cmd[t]
             d == proc[t].cachePath
             q == PendingAfter(c, pending[d])
  <2>1. c \in CmdType /\ CmdOK(t, c, proc[t]) /\ c.pc = "sent" /\ VersionOK(c, proc[t])
    BY <1>3 DEF RunInv, endRequest, VersionInv
  <2>2. proc[t].storage \in Account /\ c.at \in Path
    BY <2>1 DEF CmdOK, Active, CmdType
  <2>3. \/ UNCHANGED pending
        \/ c.op \in Cached /\ pending' = [pending EXCEPT ![d] = q]
    <3>1. "cache-rm" \in Cached
      BY DEF Cached, CachePathsCommands
    <3>2. \/ UNCHANGED pending
          \/ /\ c.op \in Cached \/ c.op = "cache-rm"
             /\ pending' = [pending EXCEPT ![d] = PendingAfter(c, pending[d])]
      BY <1>3 DEF endRequest
    <3> QED BY <3>1, <3>2
  <2>4. ASSUME c.op \in Cached PROVE d \in CachePath /\ q \in [Path -> Waiting(Owner[d])]
    <3>1. d \in CachePath
      BY <2>1, <2>4 DEF CmdOK, Active
    <3>2. proc[t].storage = Owner[d]
      BY <3>1, <2>2 DEF Apart
    <3>3. c.op = "cache-put" => c.ver \in Waiting(Owner[d])
      BY <3>2, <2>1 DEF VersionOK, Active, Writes, Waiting
    <3>4. pending[d] \in [Path -> Waiting(Owner[d])]
      BY <3>1 DEF VersionInv
    <3> QED BY <3>1, <3>3, <3>4, <2>2, PendingWaits
  <2> HIDE DEF q
  <2>5. DOMAIN pending' = CachePath /\ \A e \in CachePath : pending'[e] \in [Path -> Waiting(Owner[e])]
    BY <2>3, <2>4 DEF VersionInv
  <2>6. UNCHANGED <<objects, written>>
    BY <1>3 DEF endRequest
  <2>7. \A b : Mine(b)' = Mine(b) /\ Held(b)' = Held(b) /\ Waiting(b)' = Waiting(b)
    BY <2>6, SameVersions
  <2>8. \A u \in Caller : VersionOK(cmd[u], proc[u])'
    BY <2>7, <1>1, CarriesOn
  <2> QED BY <2>5, <2>6, <2>7, <2>8 DEF VersionInv, written
<1>4. CASE UNCHANGED <<objects, pending, written>>
  BY <1>1, <1>4, QuietStep
<1>5. \/ UNCHANGED <<objects, pending, written>> \/ endRequest(t)
      \/ \E o \in Outcomes : sendRequest(t, o)
  BY DEF Step, cache, ConfigSet, ConfigDelete, KeyringSet, KeyringDelete, Auth, OpenCache,
         InfoFails, openIndex, eachPath, onePath, cacheEachPath, cacheOnePath, uploadPath,
         stopRetrying, finish, recover
<1> QED BY <1>2, <1>3, <1>4, <1>5

\* A command that writes, and a file written in a mounted file system.
LEMMA RunVersions ==
    ASSUME NEW Owner \in [CachePath -> Account], RunInv, VersionInv(Owner),
           NEW t \in Caller, NEW op \in CommandsOf[t], NEW args \in SUBSET Path, NEW to \in Path,
           run(t, op, args, to)
    PROVE  VersionInv(Owner)'
<1> DEFINE b == [NoCommand EXCEPT !.op = op, !.args = args, !.undone = args,
                                  !.to = IF op \in Moves THEN to ELSE ""]
<1>1. cmd \in [Caller -> CmdType] /\ DOMAIN proc = Caller /\ UNCHANGED <<objects, pending>>
      /\ cmd[t].pc = "prompt"
  BY DEF RunInv, run, cache
<1>2. PICK r \in Resolutions(proc[t], op) :
          /\ proc' = [proc EXCEPT ![t] = r.vars]
          /\ \/ \E code : cmd' = [cmd EXCEPT ![t] = [b EXCEPT !.pc = "unwind", !.code = code]]
                          /\ UNCHANGED written
             \/ /\ op \notin Writes /\ UNCHANGED written
                /\ cmd' = [cmd EXCEPT ![t] = [b EXCEPT !.pc = Begin(op)]]
             \/ /\ op \in Writes /\ nextVer <= MaxVer
                /\ cmd' = [cmd EXCEPT ![t] = [b EXCEPT !.pc = Begin(op), !.ver = nextVer]]
                /\ nextVer' = nextVer + 1
                /\ by' = [by EXCEPT ![nextVer] = r.vars.storage]
  BY DEF run
<1>3. {"pc", "ver", "code", "op"} \subseteq DOMAIN b /\ b.op = op
  BY DEF NoCommand
<1>4. \A u \in Caller : u # t => cmd'[u] = cmd[u] /\ proc'[u] = proc[u]
  BY <1>1, <1>2
<1>5. ASSUME NEW u \in Caller, u # t, \A a : Mine(a) \subseteq Mine(a)'
      PROVE  VersionOK(cmd[u], proc[u])'
  <2>1. Carries(u)
    BY <1>4, <1>5 DEF Carries
  <2> QED BY <2>1, <1>5, CarriesOn
<1>6. Begin(op) # "sent"
  BY DEF Begin
<1> HIDE DEF b
<1>7. CASE \E code : cmd' = [cmd EXCEPT ![t] = [b EXCEPT !.pc = "unwind", !.code = code]]
                     /\ UNCHANGED written
  <2>1. cmd'[t].pc = "unwind" /\ UNCHANGED written
    BY <1>1, <1>3, <1>7
  <2>2. \A a : Mine(a)' = Mine(a) /\ Held(a)' = Held(a) /\ Waiting(a)' = Waiting(a)
    BY <2>1, SameVersions
  <2>3. VersionOK(cmd[t], proc[t])'
    BY <2>1 DEF VersionOK, Active
  <2>4. \A u \in Caller : VersionOK(cmd[u], proc[u])'
    BY <2>2, <2>3, <1>5
  <2> QED BY <1>1, <2>1, <2>2, <2>4 DEF VersionInv, written
<1>8. CASE /\ op \notin Writes /\ UNCHANGED written
           /\ cmd' = [cmd EXCEPT ![t] = [b EXCEPT !.pc = Begin(op)]]
  <2>1. cmd'[t].pc # "sent" /\ cmd'[t].op \notin Writes
    BY <1>1, <1>3, <1>6, <1>8
  <2>2. \A a : Mine(a)' = Mine(a) /\ Held(a)' = Held(a) /\ Waiting(a)' = Waiting(a)
    BY <1>8, SameVersions
  <2>3. VersionOK(cmd[t], proc[t])'
    BY <2>1 DEF VersionOK, Active
  <2>4. \A u \in Caller : VersionOK(cmd[u], proc[u])'
    BY <2>2, <2>3, <1>5
  <2> QED BY <1>1, <1>8, <2>2, <2>4 DEF VersionInv, written
<1>9. CASE /\ op \in Writes /\ nextVer <= MaxVer
           /\ cmd' = [cmd EXCEPT ![t] = [b EXCEPT !.pc = Begin(op), !.ver = nextVer]]
           /\ nextVer' = nextVer + 1
           /\ by' = [by EXCEPT ![nextVer] = r.vars.storage]
  <2>1. cmd'[t].pc # "sent" /\ cmd'[t].ver = nextVer /\ proc'[t].storage = r.vars.storage
    BY <1>1, <1>2, <1>3, <1>6, <1>9
  <2>2. nextVer \in 1..MaxVer /\ DOMAIN by = 1..MaxVer
    BY <1>9, MaxVerNat DEF VersionInv
  <2>3. /\ nextVer \in Mine(r.vars.storage)' /\ nextVer' \in 1..MaxVer + 1
        /\ DOMAIN by' = 1..MaxVer
        /\ \A a : /\ Mine(a) \subseteq Mine(a)' /\ Held(a) \subseteq Held(a)'
                  /\ Waiting(a) \subseteq Waiting(a)'
    BY <1>9, <2>2, NewVersion
  <2>4. VersionOK(cmd[t], proc[t])'
    BY <2>1, <2>3 DEF VersionOK, Mine
  <2>5. \A u \in Caller : VersionOK(cmd[u], proc[u])'
    BY <2>3, <2>4, <1>5
  <2>6. \A a \in Account : objects'[a] \in [Path -> Held(a)']
    BY <1>1, <2>3 DEF VersionInv
  <2>7. \A c \in CachePath : pending'[c] \in [Path -> Waiting(Owner[c])']
    BY <1>1, <2>3 DEF VersionInv
  <2> QED BY <1>1, <2>3, <2>5, <2>6, <2>7 DEF VersionInv
<1> QED BY <1>2, <1>7, <1>8, <1>9

\* A write to a mounted file system is a version for the account of the mount.
LEMMA MountedVersions ==
    ASSUME NEW Owner \in [CachePath -> Account], RunInv, Apart(Owner), VersionInv(Owner),
           NEW t \in Caller, NEW p \in Path, mountedWrite(t, p)
    PROVE  VersionInv(Owner)'
<1> DEFINE a == proc[t].storage
           d == proc[t].cachePath
           v == nextVer
<1>1. CmdOK(t, cmd[t], proc[t]) /\ cmd[t].pc = "mounted"
  BY DEF RunInv, mountedWrite
<1>2. a \in Account /\ d \in CachePath
  BY <1>1, KindsApart DEF CmdOK, Active
<1>3. a = Owner[d]
  BY <1>2 DEF Apart
<1>4. /\ v \in 1..MaxVer /\ DOMAIN by = 1..MaxVer /\ nextVer' = nextVer + 1
      /\ by' = [by EXCEPT ![v] = a] /\ pending' = [pending EXCEPT ![d][p] = v]
      /\ UNCHANGED <<objects, cmd, proc>>
  BY MaxVerNat DEF mountedWrite, VersionInv
<1>5. /\ v \in Mine(Owner[d])' /\ nextVer' \in 1..MaxVer + 1 /\ DOMAIN by' = 1..MaxVer
      /\ \A b : /\ Mine(b) \subseteq Mine(b)' /\ Held(b) \subseteq Held(b)'
                /\ Waiting(b) \subseteq Waiting(b)'
  <2>1. \A x : x = a => v \in Mine(x)'
    BY <1>4, NewVersion
  <2>2. \A x : x = Owner[d] => v \in Mine(x)'
    BY <2>1, <1>3
  <2>3. /\ nextVer' \in 1..MaxVer + 1 /\ DOMAIN by' = 1..MaxVer
        /\ \A b : /\ Mine(b) \subseteq Mine(b)' /\ Held(b) \subseteq Held(b)'
                  /\ Waiting(b) \subseteq Waiting(b)'
    BY <1>4, NewVersion
  <2>4. d' = d
    BY <1>4
  <2> QED BY <2>2, <2>3, <2>4
<1>6. \A b \in Account : objects'[b] \in [Path -> Held(b)']
  BY <1>4, <1>5 DEF VersionInv
<1>7. \A c \in CachePath : pending'[c] \in [Path -> Waiting(Owner[c])']
  <2>1. v \in Waiting(Owner[d])'
    BY <1>5 DEF Waiting
  <2>2. DOMAIN pending = CachePath /\ \A c \in CachePath : pending[c] \in [Path -> Waiting(Owner[c])']
    BY <1>5 DEF VersionInv
  <2>3. pending'[d] = [pending[d] EXCEPT ![p] = v] /\ \A c \in CachePath : c # d => pending'[c] = pending[c]
    BY <2>2, <1>2, <1>4
  <2>4. d' = d
    BY <1>4
  <2>5. [pending[d] EXCEPT ![p] = v] \in [Path -> Waiting(Owner[d])']
    BY <2>1, <2>2, <2>4, <1>2
  <2> QED BY <2>2, <2>3, <2>4, <2>5, <1>2
<1>8. \A u \in Caller : VersionOK(cmd[u], proc[u])'
  <2>1. \A u \in Caller : Carries(u)
    BY <1>4 DEF Carries
  <2> QED BY <2>1, <1>5, CarriesOn
<1>9. DOMAIN objects' = Account /\ DOMAIN pending' = CachePath
  BY <1>4 DEF VersionInv
<1> QED BY <1>5, <1>6, <1>7, <1>8, <1>9 DEF VersionInv

\* Every step keeps the versions apart.
LEMMA NextVersions ==
    ASSUME NEW Owner \in [CachePath -> Account], RunInv, Apart(Owner), VersionInv(Owner), [Next]_vars
    PROVE  VersionInv(Owner)'
<1>1. ASSUME NEW t \in Caller, User(t) PROVE VersionInv(Owner)'
  <2>1. ASSUME NEW op \in CommandsOf[t], NEW args \in SUBSET Path, NEW to \in Path,
               run(t, op, args, to)
        PROVE  VersionInv(Owner)'
    BY <2>1, RunVersions
  <2>2. ASSUME NEW p \in Path, mountedWrite(t, p) PROVE VersionInv(Owner)'
    BY <2>2, MountedVersions
  <2>3. CASE \/ \E flags \in FlagSetsOf[t] : main(t, flags)
             \/ quit(t) \/ kill(t) \/ loop(t) \/ \E code \in {0, 1} : unmount(t, code)
    <3>1. UNCHANGED <<objects, pending, written>>
      BY <2>3 DEF main, quit, kill, loop, unmount, cache
    <3>2. cmd \in [Caller -> CmdType] /\ cmd[t] \in CmdType /\ DOMAIN proc = Caller
      BY DEF RunInv
    <3>3. \A u \in Caller : u # t => cmd'[u] = cmd[u] /\ proc'[u] = proc[u]
      BY <2>3, <3>2 DEF main, quit, kill, loop, unmount, Goto
    <3>4. CASE \/ \E flags \in FlagSetsOf[t] : main(t, flags)
               \/ quit(t) \/ kill(t)
      <4>1. cmd'[t].pc \in {"none", "prompt"}
        <5>1. NoCommand.pc = "none" /\ [NoCommand EXCEPT !.pc = "prompt"].pc = "prompt"
          BY DEF NoCommand
        <5>2. ASSUME NEW flags \in FlagSetsOf[t], main(t, flags) PROVE cmd'[t].pc = "prompt"
          BY <3>2, <5>1, <5>2 DEF main
        <5>3. ASSUME quit(t) PROVE cmd'[t].pc = "none"
          BY <3>2, <5>3 DEF quit, Goto, CmdType
        <5>4. ASSUME kill(t) PROVE cmd'[t].pc = "none"
          BY <3>2, <5>1, <5>4 DEF kill
        <5> QED BY <3>4, <5>2, <5>3, <5>4
      <4>2. Carries(t)
        BY <4>1 DEF Carries, Active
      <4> QED BY <3>1, <3>3, <4>2, QuietStep DEF Carries
    <3>5. CASE loop(t) \/ \E code \in {0, 1} : unmount(t, code)
      <4>1. /\ cmd'[t].pc = "paths" /\ cmd'[t].op = cmd[t].op /\ cmd'[t].ver = cmd[t].ver
            /\ cmd[t].pc = "mounted" /\ UNCHANGED proc
        <5>1. CASE loop(t)
          BY <3>2, <5>1 DEF loop, CmdType
        <5>2. ASSUME NEW code \in {0, 1}, unmount(t, code)
              PROVE  /\ cmd'[t].pc = "paths" /\ cmd'[t].op = cmd[t].op /\ cmd'[t].ver = cmd[t].ver
                     /\ cmd[t].pc = "mounted" /\ UNCHANGED proc
          BY <3>2, <5>2 DEF unmount, CmdType
        <5> QED BY <3>5, <5>1, <5>2
      <4>2. Carries(t)
        BY <4>1 DEF Carries, Active
      <4> QED BY <3>1, <3>3, <4>2, QuietStep DEF Carries
    <3> QED BY <2>3, <3>4, <3>5
  <2> QED BY <1>1, <2>1, <2>2, <2>3 DEF User
<1>2. ASSUME NEW t \in Caller, Step(t) PROVE VersionInv(Owner)'
  BY <1>2, StepVersions
<1>3. CASE UNCHANGED vars
  BY <1>3, QuietStep DEF vars, cache, Carries
<1> QED BY <1>1, <1>2, <1>3 DEF Next

\* Whatever the processes do and in whatever order they come and go, a file reaches
\* the account that it was written for and no other, as long as no cache directory
\* is used for two accounts.
THEOREM FilesReachTheirAccount ==
    ASSUME NEW Owner \in [CachePath -> Account]
    PROVE  Spec /\ []Apart(Owner) => []Isolation
<1>1. Init => VersionInv(Owner)
  <2> SUFFICES ASSUME Init PROVE VersionInv(Owner) OBVIOUS
  <2>1. nextVer \in 1..MaxVer + 1 /\ DOMAIN by = 1..MaxVer
    BY MaxVerNat DEF Init
  <2>2. \A a : 0 \in Held(a) /\ 0 \in Waiting(a)
    BY DEF Held, Waiting
  <2>3. DOMAIN objects = Account /\ \A a \in Account : objects[a] \in [Path -> Held(a)]
    BY <2>2 DEF Init
  <2>4. DOMAIN pending = CachePath /\ \A c \in CachePath : pending[c] \in [Path -> Waiting(Owner[c])]
    BY <2>2 DEF Init
  <2>5. \A t \in Caller : cmd[t].pc = "none"
    BY DEF Init, NoCommand
  <2> QED BY <2>1, <2>3, <2>4, <2>5 DEF VersionInv, VersionOK, Active
<1>2. RunInv /\ Apart(Owner) /\ VersionInv(Owner) /\ [Next]_vars => VersionInv(Owner)'
  BY NextVersions
<1>3. VersionInv(Owner) => Isolation
  <2> SUFFICES ASSUME VersionInv(Owner), NEW a \in Account, NEW p \in Path,
                      objects[a][p] \in 1..MaxVer
               PROVE  by[objects[a][p]] = a
    BY DEF Isolation
  <2>1. objects[a][p] \in Held(a)
    BY DEF VersionInv
  <2>2. objects[a][p] # 0 /\ objects[a][p] # Empty
    BY MaxVerNat DEF Empty
  <2> QED BY <2>1, <2>2 DEF Held, Mine
<1> QED BY <1>1, <1>2, <1>3, RunInvariant, PTL DEF Spec
=============================================================================
