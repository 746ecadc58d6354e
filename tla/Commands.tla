------------------------------ MODULE Commands ------------------------------
(***************************************************************************)
(* The command line: objfs.go, commands.go, cache_commands.go and the      *)
(* credentials of auth/auth.go.  Processes, of which some are shells, run  *)
(* commands against shared state: the configuration file, the stored       *)
(* credentials, the objects of several accounts and the cache directories. *)
(*                                                                         *)
(* A command resolves its variables (needvar), opens the cache if it is a  *)
(* cache command, makes a request to the storage per path, each through    *)
(* module Retry, closes the cache and exits.  The file cache is abstracted *)
(* to the versions that it still has to upload; module Cache has the rest. *)
(* That a storage makes its requests with Retry, with a body if it         *)
(* uploads, and takes a missing response for an error, is how the storages *)
(* outside this repository use it.                                         *)
(***************************************************************************)
EXTENDS Naturals, Sequences, FiniteSets, Config, Retry

CONSTANTS
    Path,
    Account,
    Service,        \* the names that storages and auths are registered under
    DataDir,        \* the data directories
    HomeDir,        \* the one of appdata.DataDir
    Nobody,         \* nil: no account, no process
    FlagSetsOf,     \* the flags given at each terminal
    File,           \* the configuration file in the beginning
    Keys,           \* the credentials in the beginning: the account they are for
    Settings,       \* the operands of "config": section, option and value
    Passes,         \* the operands of "keyring": user and account
    AuthPaths,      \* the operands of "auth"
    CommandsOf,     \* the commands issued at each terminal
    Shells,         \* the terminals at which shells are started
    MaxStarts,      \* bound: processes started
    MaxCommands,    \* bound: commands given
    MaxVer          \* bound: contents written

\* A directory, and the object of a file just made.
Empty == MaxVer + 1

\* The commands on several paths and on one; "ls" stands for stat and statfs too,
\* "rm" for rmdir.
PathsCommands == {"ls", "mkdir", "rm"}
SingleCommands == {"mv", "get", "put"}
CachePathsCommands == {"cache-ls", "cache-mkdir", "cache-rm"}
CacheSingleCommands == {"cache-mv", "cache-get", "cache-put"}
Resets == {"cache-reset", "mount"}
Inner == {"config-set", "config-delete", "keyring-set", "keyring-delete"}

WithPaths == PathsCommands \cup CachePathsCommands
WithOnePath == SingleCommands \cup CacheSingleCommands
Cached == CachePathsCommands \cup CacheSingleCommands \cup Resets \cup {"cache-pending"}
Local == Inner \cup {"auth"}
Moves == {"mv", "cache-mv"}
Writes == {"put", "cache-put"}

ASSUME CommandsAssumption ==
    /\ CommandsOf \in [Caller -> SUBSET (WithPaths \cup WithOnePath \cup Cached \cup Local)]
    /\ Nobody \notin Account \cup Caller
    /\ "" \notin Service
    /\ \A place \in DOMAIN Keys : Keys[place] \in Account
    /\ \A s \in Passes : s[2] \in Account
    /\ MaxStarts \in Nat /\ MaxCommands \in Nat /\ MaxVer \in Nat

\* A section, or the flags given, name data directories.
DirsKnown(s) == "datadir" \in DOMAIN s => s["datadir"] \in DataDir \cup {""}

ASSUME DataDirAssumption ==
    /\ HomeDir \in DataDir
    /\ DirsKnown(Default)
    /\ \A n \in DOMAIN File : DirsKnown(File[n])
    /\ \A t \in Caller : \A flags \in FlagSetsOf[t] : DirsKnown(flags)
    /\ \A s \in Settings : s[2] = "datadir" => s[3] \in DataDir \cup {""}

VARIABLES
    config,     \* the configuration file
    keys,       \* the stored credentials: the account, by the place where they are kept
    objects,    \* the objects of each account: 0 if absent
    pending,    \* for each cache directory the versions that are to be uploaded
    indexed,    \* the cache directories that have an index file
    lock,       \* the process that has the index of a cache directory open
    proc,       \* the global variables of each process
    cmd,        \* the command in progress, or the last one
    starts,     \* processes started so far
    commands,   \* commands given so far
    nextVer,    \* next version to be written
    by,         \* the account that each version was written for
    want        \* the settings made so far

disk == <<config, keys, want>>
cache == <<pending, indexed, lock>>
counts == <<starts, commands>>
written == <<nextVer, by>>
vars == <<disk, objects, cache, proc, cmd, call, counts, written>>

CachePath == DataDir \X Service

NoSection == [o \in {} |-> ""]
NoFile == [n \in {} |-> NoSection]

\* The global variables of objfs.go as a process starts.
Zero == [up |-> FALSE, flags |-> NoSection,
         once |-> FALSE, programConfig |-> NoFile, keyring |-> "system", dataDir |-> "",
         authName |-> "", credentialPath |-> <<>>, storageName |-> "",
         credentials |-> Nobody, authSession |-> Nobody, storage |-> Nobody, cachePath |-> <<>>]

\* args are the paths left, undone those whose operation has not succeeded; at is
\* the path of the request at hand and ok what the server said to it.
NoCommand == [pc |-> "none", op |-> "none", args |-> {}, to |-> "", at |-> "", ver |-> 0,
              ok |-> FALSE, failed |-> FALSE, closing |-> FALSE, undone |-> {}, code |-> 0]

-----------------------------------------------------------------------------
(* needvar *)

\* The variables that needvar leaves, and the exit code that it panics with.
Vars(p) == [vars |-> p, code |-> 0]
Panics(p, code) == [vars |-> p, code |-> code]
Then(r, F(_)) == IF r.code = 0 THEN F(r.vars) ELSE r

\* The user's keyring is kept in the data directory and laid over the system's.  On
\* an unknown kind the system's stays in use.
initKeyring(p, kind) ==
    IF kind = "system" THEN Vars(p)
    ELSE IF kind \in {"user", "userplain"} THEN Vars([p EXCEPT !.keyring = p.dataDir])
    ELSE Panics(p, 2)

\* The options of a process.
Options(p, m) ==
    [p EXCEPT !.once = TRUE, !.authName = m["auth"], !.credentialPath = m["credentials"],
              !.storageName = m["storage"],
              !.dataDir = IF m["datadir"] = "" THEN HomeDir ELSE m["datadir"]]

\* Mutant: the configuration is used but not kept.
onceUnkept(p) ==
    LET m == flagMap(config, p.flags) IN initKeyring(Options(p, m), m["keyring"])

\* needvarOnce.  A panic does not make it run again.
needvarOnce(p) ==
    LET m == flagMap(config, p.flags)
    IN initKeyring([Options(p, m) EXCEPT !.programConfig = config], m["keyring"])

\* Where ReadCredentials looks and WriteCredentials writes.  The first takes the
\* path of a "file:" URI, the second the URI itself for the name of the file.  What
\* the user's keyring does not have is looked up in the system's.
KeyringAt(p, user) == <<"keyring", p.keyring, user>>
Found(p, user) ==
    IF KeyringAt(p, user) \in DOMAIN keys THEN KeyringAt(p, user) ELSE KeyringAt(Zero, user)
ReadFrom(p, path) ==
    CASE path[1] = "keyring" -> Found(p, path[2])
      [] path[1] = "uri" -> <<"file", path[2]>>
      [] path[1] = "file" -> path
WriteTo(p, path) == IF path[1] = "keyring" THEN KeyringAt(p, path[2]) ELSE path

needStorageName(p) == IF p.storageName # "" THEN Vars(p) ELSE Panics(p, 2)

needAuthName(p) ==
    LET default(q) == Vars([q EXCEPT !.authName = q.storageName])
    IN IF p.authName # "" THEN Vars(p) ELSE Then(needStorageName(p), default)

needCredentialPath(p) ==
    LET default(q) == Vars([q EXCEPT !.credentialPath = <<"keyring", q.storageName>>])
    IN IF p.credentialPath # <<>> THEN Vars(p) ELSE Then(needStorageName(p), default)

needCredentials(p) ==
    LET read(q) == LET place == ReadFrom(q, q.credentialPath)
                   IN IF place \in DOMAIN keys THEN Vars([q EXCEPT !.credentials = keys[place]])
                      ELSE Panics(q, 2)
    IN IF p.credentials # Nobody THEN Vars(p) ELSE Then(needCredentialPath(p), read)

needAuthSession(p) ==
    LET session(q) == IF q.authName \in Service
                      THEN Vars([q EXCEPT !.authSession = q.credentials])
                      ELSE Panics(q, 2)
    IN IF p.authSession # Nobody THEN Vars(p)
       ELSE Then(Then(needAuthName(p), needCredentials), session)

\* An auth name that is set decides what the storage is opened with.
needStorage(p) ==
    LET creds(q) == IF p.authName # "" THEN q.authSession ELSE q.credentials
        open(q) == IF q.storageName \in Service THEN Vars([q EXCEPT !.storage = creds(q)])
                   ELSE Panics(q, 1)
    IN IF p.storage # Nobody THEN Vars(p)
       ELSE Then(Then(IF p.authName # "" THEN needAuthSession(p) ELSE needCredentials(p),
                      needStorageName), open)

\* Mutant: the data directory of another process.
needAnyCachePath(p) ==
    Vars([p EXCEPT !.cachePath = <<HomeDir, p.storageName>>])

needCachePath(p) ==
    LET join(q) == Vars([q EXCEPT !.cachePath = <<q.dataDir, q.storageName>>])
    IN IF p.cachePath # <<>> THEN Vars(p) ELSE Then(needStorageName(p), join)

\* The variables that each command asks for.
needvar(p, op) ==
    LET q == IF p.once THEN Vars(p) ELSE needvarOnce(p)
    IN CASE op \in Inner -> q
         [] op = "auth" -> Then(q, needAuthSession)
         [] op \in Cached -> Then(Then(q, needStorage), needCachePath)
         [] OTHER -> Then(q, needStorage)

-----------------------------------------------------------------------------
(* Processes and their commands *)

Init ==
    /\ config = File /\ want = File
    /\ keys = Keys
    /\ objects = [a \in Account |-> [p \in Path |-> 0]]
    /\ pending = [c \in CachePath |-> [p \in Path |-> 0]]
    /\ indexed = {}
    /\ lock = [c \in CachePath |-> Nobody]
    /\ proc = [t \in Caller |-> Zero]
    /\ cmd = [t \in Caller |-> NoCommand]
    /\ call = [t \in Caller |-> NoCall]
    /\ starts = 0 /\ commands = 0
    /\ nextVer = 1
    /\ by = [v \in 1..MaxVer |-> Nobody]

Goto(t, pc) == cmd' = [cmd EXCEPT ![t].pc = pc]

\* Exit with a code: a panic that unwinds the stack and its deferred calls.
Exit(t, code) == cmd' = [cmd EXCEPT ![t].pc = "unwind", ![t].code = code]

\* main, with a command or with "shell".
main(t, flags) ==
    /\ ~proc[t].up
    /\ starts < MaxStarts
    /\ starts' = starts + 1
    /\ proc' = [proc EXCEPT ![t] = [Zero EXCEPT !.up = TRUE, !.flags = flags]]
    /\ cmd' = [cmd EXCEPT ![t] = [NoCommand EXCEPT !.pc = "prompt"]]
    /\ UNCHANGED <<disk, objects, cache, call, commands, written>>

\* Session may return an error: the variables that were set before it stay.
NoLogin(p, r) ==
    [vars |-> [r.vars EXCEPT !.authSession = Nobody, !.storage = p.storage, !.cachePath = p.cachePath],
     code |-> 1]
Resolutions(p, op) ==
    UNION {{r} \cup (IF r.vars.authSession # p.authSession THEN {NoLogin(p, r)} ELSE {}) :
           r \in {needvar(p, op)}}

\* Where a command goes on with its variables.
Begin(op) ==
    IF op \in Local THEN "local" ELSE IF op \in Cached THEN "open" ELSE "paths"

\* run: a command from the command line or from a line of the shell.  It begins
\* with its variables and the count of its operands.  What "config" and "keyring"
\* exit with is dropped by the run that they call.
run(t, op, args, to) ==
    /\ cmd[t].pc = "prompt"
    /\ op \in CommandsOf[t]
    /\ commands < MaxCommands
    /\ commands' = commands + 1
    /\ op \in WithOnePath => Cardinality(args) <= 1
    /\ op \notin WithPaths \cup WithOnePath => args = {}
    /\ op \in Moves => to \notin args
    /\ op \in Writes => nextVer <= MaxVer
    /\ \E r \in Resolutions(proc[t], op) :
       LET code == IF r.code # 0 THEN r.code
                   ELSE IF op \in WithOnePath /\ args = {} THEN 2 ELSE 0
           c == [NoCommand EXCEPT !.op = op, !.args = args, !.undone = args,
                                  !.to = IF op \in Moves THEN to ELSE ""]
       IN /\ proc' = [proc EXCEPT ![t] = r.vars]
          /\ \/ /\ code # 0
                /\ cmd' = [cmd EXCEPT ![t] = [c EXCEPT !.pc = "unwind",
                                                       !.code = IF op \in Inner THEN 0 ELSE code]]
                /\ UNCHANGED written
             \/ /\ code = 0 /\ op \notin Writes
                /\ cmd' = [cmd EXCEPT ![t] = [c EXCEPT !.pc = Begin(op)]]
                /\ UNCHANGED written
             \/ /\ code = 0 /\ op \in Writes
                /\ cmd' = [cmd EXCEPT ![t] = [c EXCEPT !.pc = Begin(op), !.ver = nextVer]]
                /\ nextVer' = nextVer + 1
                /\ by' = [by EXCEPT ![nextVer] = r.vars.storage]
    /\ UNCHANGED <<disk, objects, cache, call, starts>>

\* ^D at the prompt of a shell.
quit(t) ==
    /\ cmd[t].pc = "prompt" /\ t \in Shells
    /\ proc' = [proc EXCEPT ![t] = Zero]
    /\ Goto(t, "none")
    /\ UNCHANGED <<disk, objects, cache, call, counts, written>>

\* Mutant: only a command that succeeds closes the cache.
ReleasedIfOk(t) ==
    [c \in CachePath |-> IF lock[c] = t /\ cmd[t].code = 0 THEN Nobody ELSE lock[c]]

\* CloseCache, deferred: the database is closed.
Released(t) == [c \in CachePath |-> IF lock[c] = t THEN Nobody ELSE lock[c]]

\* The end of run, which recovers from the panic, and of a process that is no shell.
recover(t) ==
    /\ cmd[t].pc = "unwind"
    /\ lock' = Released(t)
    /\ cmd' = [cmd EXCEPT ![t] = [NoCommand EXCEPT !.pc = IF t \in Shells THEN "prompt" ELSE "none",
                                                   !.op = cmd[t].op, !.undone = cmd[t].undone,
                                                   !.code = cmd[t].code]]
    /\ proc' = IF t \in Shells THEN proc ELSE [proc EXCEPT ![t] = Zero]
    /\ UNCHANGED <<disk, objects, pending, indexed, call, counts, written>>

\* The process is killed: the operating system unlocks the index.
kill(t) ==
    /\ cmd[t].pc \notin {"none", "prompt"}
    /\ lock' = [c \in CachePath |-> IF lock[c] = t THEN Nobody ELSE lock[c]]
    /\ cmd' = [cmd EXCEPT ![t] = NoCommand]
    /\ proc' = [proc EXCEPT ![t] = Zero]
    /\ call' = [call EXCEPT ![t] = NoCall]
    /\ UNCHANGED <<disk, objects, pending, indexed, counts, written>>

-----------------------------------------------------------------------------
(* Commands on the configuration and the credentials *)

\* config.Set and config.Delete: setting s is <<section, option, value>>.
Set(file, s) ==
    LET old == Section(file, s[1])
        new == [o \in DOMAIN old \cup {s[2]} |-> IF o = s[2] THEN s[3] ELSE old[o]]
    IN [n \in DOMAIN file \cup {s[1]} |-> IF n = s[1] THEN new ELSE file[n]]
Delete(file, s) ==
    [n \in DOMAIN file |-> IF n # s[1] THEN file[n]
                           ELSE [o \in DOMAIN file[n] \ {s[2]} |-> file[n][o]]]

\* The whole file is written from what was read of it once.
WriteConfig(t, file) ==
    /\ proc' = [proc EXCEPT ![t].programConfig = file]
    /\ config' = file

ConfigSet(t, s) ==
    /\ cmd[t].pc = "local" /\ cmd[t].op = "config-set"
    /\ WriteConfig(t, Set(proc[t].programConfig, s))
    /\ want' = Set(want, s)
    /\ Exit(t, 0)
    /\ UNCHANGED <<keys, objects, cache, call, counts, written>>

ConfigDelete(t, s) ==
    /\ cmd[t].pc = "local" /\ cmd[t].op = "config-delete"
    /\ WriteConfig(t, Delete(proc[t].programConfig, s))
    /\ want' = Delete(want, s)
    /\ Exit(t, 0)
    /\ UNCHANGED <<keys, objects, cache, call, counts, written>>

\* WriteCredentials and keyring.Delete.
Stored(place, account) ==
    [l \in DOMAIN keys \cup {place} |-> IF l = place THEN account ELSE keys[l]]
Erased(place) == [l \in DOMAIN keys \ {place} |-> keys[l]]

\* The key of a user that is set to the credentials of an account, or deleted; the
\* error of a key that is not there is dropped.
KeyringSet(t, user, account) ==
    /\ cmd[t].pc = "local" /\ cmd[t].op = "keyring-set"
    /\ keys' = Stored(KeyringAt(proc[t], user), account)
    /\ Exit(t, 0)
    /\ UNCHANGED <<config, want, objects, cache, proc, call, counts, written>>

KeyringDelete(t, user) ==
    /\ cmd[t].pc = "local" /\ cmd[t].op = "keyring-delete"
    /\ keys' = Erased(KeyringAt(proc[t], user))
    /\ Exit(t, 0)
    /\ UNCHANGED <<config, want, objects, cache, proc, call, counts, written>>

Auth(t, path) ==
    /\ cmd[t].pc = "local" /\ cmd[t].op = "auth"
    /\ keys' = Stored(WriteTo(proc[t], path), proc[t].authSession)
    /\ Exit(t, 0)
    /\ UNCHANGED <<config, want, objects, cache, proc, call, counts, written>>

-----------------------------------------------------------------------------
(* Requests *)

\* What a server does with a request: the account's objects afterwards, and
\* whether it agrees.  The cache makes a file or a directory only where there is
\* none, and uploads what is pending.
Refused(o) == [objects |-> o, ok |-> FALSE]
Done(o) == [objects |-> o, ok |-> TRUE]
Serve(o, c, version) ==
    CASE c.op \in {"ls", "get", "cache-ls", "cache-get"} ->
            IF o[c.at] = 0 THEN Refused(o) ELSE Done(o)
      [] c.op \in {"mkdir", "cache-mkdir", "cache-put"} ->
            IF o[c.at] # 0 THEN Refused(o) ELSE Done([o EXCEPT ![c.at] = Empty])
      [] c.op \in {"rm", "cache-rm"} ->
            IF o[c.at] = 0 THEN Refused(o) ELSE Done([o EXCEPT ![c.at] = 0])
      [] c.op \in Moves ->
            IF o[c.at] = 0 THEN Refused(o)
            ELSE Done([o EXCEPT ![c.to] = o[c.at], ![c.at] = 0])
      [] c.op = "put" \/ c.op \in Resets -> Done([o EXCEPT ![c.at] = version])

\* The paths of a cache that are to be uploaded.
Pending(c) == {p \in Path : pending[c][p] # 0}

\* A request for path p.
Request(t, p, body) ==
    /\ begin(t, body)
    /\ cmd' = [cmd EXCEPT ![t].pc = "sent", ![t].at = p, ![t].ok = FALSE]

\* Path p of command c is done.
Past(c, p) == [c EXCEPT !.pc = "paths", !.args = @ \ {p}, !.undone = @ \ {p}]

\* Ls, Stat, Mkdir, Rmdir, Rm: one path after another.
eachPath(t, p) ==
    /\ cmd[t].pc = "paths" /\ cmd[t].op \in PathsCommands
    /\ p \in cmd[t].args
    /\ Request(t, p, FALSE)
    /\ UNCHANGED <<disk, objects, cache, proc, counts, written>>

\* Mv, Get, Put.
onePath(t, p) ==
    /\ cmd[t].pc = "paths" /\ cmd[t].op \in SingleCommands
    /\ p \in cmd[t].args
    /\ Request(t, p, cmd[t].op = "put")
    /\ UNCHANGED <<disk, objects, cache, proc, counts, written>>

\* CacheLs, CacheStat, CacheMkdir, CacheRmdir, CacheRm.
cacheEachPath(t, p) ==
    /\ cmd[t].pc = "paths" /\ cmd[t].op \in CachePathsCommands
    /\ p \in cmd[t].args
    /\ Request(t, p, FALSE)
    /\ UNCHANGED <<disk, objects, cache, proc, counts, written>>

\* CacheMv, CacheGet, CachePut.  A file that is pending is in the cache.
cacheOnePath(t, p) ==
    /\ cmd[t].pc = "paths" /\ cmd[t].op \in CacheSingleCommands
    /\ p \in cmd[t].args
    /\ \/ /\ cmd[t].op = "cache-get" /\ p \in Pending(proc[t].cachePath)
          /\ cmd' = [cmd EXCEPT ![t] = Past(@, p)]
          /\ UNCHANGED call
       \/ /\ cmd[t].op = "cache-get" => p \notin Pending(proc[t].cachePath)
          /\ Request(t, p, cmd[t].op = "cache-put")
    /\ UNCHANGED <<disk, objects, cache, proc, counts, written>>

\* uploadAll.
uploadPath(t, p) ==
    /\ cmd[t].pc = "paths" /\ cmd[t].op \in Resets
    /\ p \in cmd[t].args
    /\ Request(t, p, TRUE)
    /\ UNCHANGED <<disk, objects, cache, proc, counts, written>>

\* One attempt of Retry.  The server acts on a request that it answers, and may
\* have acted on one whose connection breaks.
sendRequest(t, o) ==
    /\ cmd[t].pc = "sent"
    /\ attempt(t, o)
    /\ LET c == cmd[t]
           a == proc[t].storage
           r == Serve(objects[a], c, IF c.op \in Resets THEN pending[proc[t].cachePath][c.at]
                                     ELSE c.ver)
       IN \/ /\ o \in {"answer", "broken"}
             /\ objects' = [objects EXCEPT ![a] = r.objects]
             /\ cmd' = [cmd EXCEPT ![t].ok = (o = "answer" /\ r.ok)]
          \/ o # "answer" /\ UNCHANGED <<objects, cmd>>
    /\ UNCHANGED <<disk, cache, proc, counts, written>>

stopRetrying(t) ==
    /\ cmd[t].pc = "sent"
    /\ giveUp(t)
    /\ UNCHANGED <<disk, objects, cache, proc, cmd, counts, written>>

\* The versions pending after a request of command c that succeeded.
PendingAfter(c, pend) ==
    CASE c.op = "cache-put" -> [pend EXCEPT ![c.at] = c.ver]
      [] c.op = "cache-rm" \/ c.op \in Resets -> [pend EXCEPT ![c.at] = 0]
      [] c.op = "cache-mv" -> [pend EXCEPT ![c.to] = pend[c.at], ![c.at] = 0]
      [] OTHER -> pend

\* Command c after its request has failed: the next path, "fail", or the end of an
\* upload of all, which OpenCache and CloseCache ignore and cache-reset does not.
AfterFailure(c) ==
    CASE c.op \in WithPaths -> [c EXCEPT !.pc = "paths", !.args = @ \ {c.at}, !.failed = TRUE]
      [] c.op = "mount" -> [c EXCEPT !.pc = "paths", !.args = {}]
      [] OTHER -> [c EXCEPT !.pc = "unwind", !.code = 1]

\* The request has come back.  A cache that is told that there is no object to remove
\* forgets the file all the same.
endRequest(t) ==
    /\ cmd[t].pc = "sent"
    /\ \/ /\ Answered(t) /\ cmd[t].ok
          /\ cmd' = [cmd EXCEPT ![t] = Past(@, cmd[t].at)]
          /\ pending' = IF cmd[t].op \in Cached
                        THEN [pending EXCEPT ![proc[t].cachePath] = PendingAfter(cmd[t], @)]
                        ELSE pending
       \/ /\ Unanswered(t) \/ (Answered(t) /\ ~cmd[t].ok)
          /\ cmd' = [cmd EXCEPT ![t] = AfterFailure(@)]
          /\ pending' = IF Answered(t) /\ cmd[t].op = "cache-rm"
                        THEN [pending EXCEPT ![proc[t].cachePath] = PendingAfter(cmd[t], @)]
                        ELSE pending
    /\ call' = [call EXCEPT ![t] = NoCall]
    /\ UNCHANGED <<disk, objects, indexed, lock, proc, counts, written>>

\* Mutant: a failure is forgotten.
ExitCodeOk(c) == 0

\* A command on several paths fails if one of them did.
ExitCode(c) == IF c.failed THEN 1 ELSE 0

\* No path is left.
finish(t) ==
    /\ cmd[t].pc = "paths"
    /\ cmd[t].args = {}
    /\ \/ cmd[t].op = "mount" /\ ~cmd[t].closing /\ Goto(t, "mounted")
       \/ cmd[t].op = "mount" /\ cmd[t].closing /\ Exit(t, cmd[t].code)
       \/ cmd[t].op # "mount" /\ Exit(t, ExitCode(cmd[t]))
    /\ UNCHANGED <<disk, objects, cache, proc, call, counts, written>>

-----------------------------------------------------------------------------
(* The cache *)

\* OpenCache as far as the index: cache-pending wants one that exists, and the
\* storage is asked for its Info.
OpenCache(t) ==
    /\ cmd[t].pc = "open"
    /\ \/ cmd[t].op = "cache-pending" /\ proc[t].cachePath \notin indexed /\ Exit(t, 1)
       \/ (cmd[t].op = "cache-pending" => proc[t].cachePath \in indexed) /\ Goto(t, "lock")
    /\ UNCHANGED <<disk, objects, cache, proc, call, counts, written>>

InfoFails(t) ==
    /\ cmd[t].pc = "open"
    /\ Exit(t, 1)
    /\ UNCHANGED <<disk, objects, cache, proc, call, counts, written>>

\* bolt.Open waits for the lock on the index.  Mount and cache-reset go on with an
\* upload of all.
openIndex(t) ==
    /\ cmd[t].pc = "lock"
    /\ LET c == proc[t].cachePath
       IN /\ lock[c] = Nobody
          /\ lock' = [lock EXCEPT ![c] = t]
          /\ indexed' = indexed \cup {c}
          /\ cmd' = [cmd EXCEPT ![t].pc = "paths",
                                ![t].args = IF cmd[t].op \in Resets THEN Pending(c) ELSE @,
                                ![t].undone = IF cmd[t].op \in Resets THEN Pending(c) ELSE @]
    /\ UNCHANGED <<disk, objects, pending, proc, call, counts, written>>

\* A file is written in the mounted file system.
mountedWrite(t, p) ==
    /\ cmd[t].pc = "mounted"
    /\ nextVer <= MaxVer
    /\ nextVer' = nextVer + 1
    /\ by' = [by EXCEPT ![nextVer] = proc[t].storage]
    /\ pending' = [pending EXCEPT ![proc[t].cachePath][p] = nextVer]
    /\ UNCHANGED <<disk, objects, indexed, lock, proc, cmd, call, counts>>

\* The cache's loop uploads what is pending.
loop(t) ==
    /\ cmd[t].pc = "mounted"
    /\ Pending(proc[t].cachePath) # {}
    /\ cmd' = [cmd EXCEPT ![t].pc = "paths", ![t].args = Pending(proc[t].cachePath)]
    /\ UNCHANGED <<disk, objects, cache, proc, call, counts, written>>

\* fs.Mount returns, and CloseCache uploads what is left.
unmount(t, code) ==
    /\ cmd[t].pc = "mounted"
    /\ cmd' = [cmd EXCEPT ![t].pc = "paths", ![t].closing = TRUE, ![t].code = code,
                          ![t].args = Pending(proc[t].cachePath)]
    /\ UNCHANGED <<disk, objects, cache, proc, call, counts, written>>

-----------------------------------------------------------------------------
\* What a process does once a command has been given.
Step(t) ==
    \/ \E s \in Settings : ConfigSet(t, s) \/ ConfigDelete(t, s)
    \/ \E s \in Passes : KeyringSet(t, s[1], s[2]) \/ KeyringDelete(t, s[1])
    \/ \E path \in AuthPaths : Auth(t, path)
    \/ OpenCache(t) \/ InfoFails(t) \/ openIndex(t)
    \/ \E p \in Path : \/ eachPath(t, p) \/ onePath(t, p) \/ cacheEachPath(t, p)
                       \/ cacheOnePath(t, p) \/ uploadPath(t, p)
    \/ \E o \in Outcomes : sendRequest(t, o)
    \/ stopRetrying(t) \/ endRequest(t) \/ finish(t) \/ recover(t)

\* What the user and the environment do.
User(t) ==
    \/ \E flags \in FlagSetsOf[t] : main(t, flags)
    \/ \E op \in CommandsOf[t], args \in SUBSET Path, to \in Path : run(t, op, args, to)
    \/ quit(t) \/ kill(t) \/ loop(t)
    \/ \E p \in Path : mountedWrite(t, p)
    \/ \E code \in {0, 1} : unmount(t, code)

Next == \E t \in Caller : Step(t) \/ User(t)

Spec == Init /\ [][Next]_vars /\ \A t \in Caller : WF_vars(Step(t))

-----------------------------------------------------------------------------
(* Properties *)

\* The options of needvar are those that the comment on the configuration
\* variables of objfs.go describes, whatever the file has become.
Precedence ==
    \A t \in Caller : \A flags \in FlagSetsOf[t], o \in Opt :
        flagMap(config, flags)[o] = Documented(config, flags, o)

\* A file reaches the account that it was written for and no other, whichever
\* process uploads it, and in whatever order the processes come and go.
Isolation ==
    \A a \in Account, p \in Path :
        objects[a][p] \in 1..MaxVer => by[objects[a][p]] = a

\* A command on paths that exits with 0 has done all of them.
ExitHonest ==
    \A t \in Caller :
        /\ cmd[t].pc \in {"none", "prompt"} /\ cmd[t].code = 0
        /\ cmd[t].op \in WithPaths \cup WithOnePath \cup {"cache-reset"}
        => cmd[t].undone = {}

\* No setting is lost: the configuration file holds all that were made, though
\* each process writes the file as it once read it.
ConfigKept == config = want

\* A process that does not end by itself: one that has mounted a file system, or
\* whose request is caught in Retry.
Stays(t) ==
    (cmd[t].op = "mount" /\ cmd[t].pc \notin {"none", "prompt"}) \/ call[t].pc = "spin"

\* A command that was given ends, or it waits for an index that a process keeps
\* which does not end.
CommandsEnd ==
    \A t \in Caller :
        (cmd[t].pc \notin {"none", "prompt", "mounted"}) ~>
            \/ cmd[t].pc \in {"none", "prompt", "mounted"}
            \/ call[t].pc = "spin"
            \/ /\ cmd[t].pc = "lock"
               /\ \E u \in Caller \ {t} : lock[proc[t].cachePath] = u /\ Stays(u)
=============================================================================
