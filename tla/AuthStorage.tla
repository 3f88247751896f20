---------------------------- MODULE AuthStorage ----------------------------
(***************************************************************************)
(* pi.coding.agent.core.AuthStorage: credentials in the memory of each     *)
(* storage object and in one file, auth.json, that storages of several     *)
(* processes share under a lock. A caller that needs an expired OAuth      *)
(* token takes the locks, reads the file again and, if the token there is  *)
(* expired too, has the server rotate it and writes the file.              *)
(*                                                                         *)
(* A credential is a number: of an API key, or of the access and refresh   *)
(* token the OAuth server issued together; 0 is none. The server accepts   *)
(* each refresh token once. A read that needs no refresh changes nothing   *)
(* and has no action.                                                      *)
(*                                                                         *)
(* The lock of the file is two: the table the JVM keeps of the locks its   *)
(* own channels hold or wait for, and the lock of the process that the     *)
(* system knows. Closing any channel of the lock file may give up the      *)
(* latter (FileLock: on some systems it releases all locks the JVM holds). *)
(***************************************************************************)
EXTENDS Naturals

CONSTANTS
  Callers, Storages, Processes, Providers,
  OAuth,        (* the providers whose credentials expire                  *)
  Layouts,      (* which storage each caller may use, of which process     *)
  MaxIssued,    (* bound: credentials ever issued                          *)
  Crashes,      (* bound: times a process is killed                        *)
  Faults,       (* what may go wrong: "ioerror", "answer"                  *)
  NoCaller,
  Missing,      (* there is no file yet                                    *)
  Unreadable    (* what a reader gets from a file cut in the middle        *)

ASSUME AuthAssumption ==
  /\ OAuth \subseteq Providers
  /\ Layouts \subseteq [storage : [Callers -> Storages],
                        process : [Storages -> Processes]]
  /\ MaxIssued \in Nat /\ Crashes \in Nat
  /\ Faults \subseteq {"ioerror", "answer"}
  /\ NoCaller \notin Callers
  /\ Unreadable # Missing
  /\ Unreadable \notin [Providers -> Nat] /\ Missing \notin [Providers -> Nat]

VARIABLES
  file,          (* its credentials, missing, or unreadable                *)
  authByProvider,(* of each storage                                        *)
  constructed,   (* the storages whose init has run                        *)
  storageLock,   (* of each storage: its holder                            *)
  lockTable,     (* of each process: whose channel holds or awaits the lock*)
  fileLock,      (* the system's lock: the caller it was granted to        *)
  pc, op,        (* of each caller                                         *)
  live,          (* the refresh tokens the server would accept             *)
  expired,       (* the access tokens past their time                      *)
  issued,        (* every credential up to here was issued                 *)
  layout,
  crashes,
  saved,         (* history: the last contents written in full             *)
  blind,         (* history: the last load found no file it could read     *)
  faulted,       (* history: a write was cut or failed, an answer got lost *)
  dropped        (* history: a lock that was held was given up by a close  *)

locks   == <<storageLock, lockTable, fileLock>>
server  == <<live, expired, issued>>
history == <<saved, blind, faulted, dropped>>
vars    == <<file, authByProvider, constructed, locks, pc, op, server,
             layout, crashes, history>>

NoOp       == [name |-> "none", provider |-> 0, credential |-> 0]
Nothing    == [p \in Providers |-> 0]
Contents   == [Providers -> Nat]

Load       == [name |-> "load", provider |-> 0, credential |-> 0]

Op(name, p, c) == [name |-> name, provider |-> p, credential |-> c]

StorageOf(t) == layout.storage[t]
ProcessOf(t) == layout.process[StorageOf(t)]

(* Where a caller stands that was given all locks, and where one that      *)
(* writes does. *)
Inside  == {"load", "decide", "truncate", "write"}
Writing == {"truncate", "write"}

SameProcess(s, r) == layout.process[s] = layout.process[r]

At(t, place) == pc' = [pc EXCEPT ![t] = place]

(* What an exception leaves to do: getOAuthAccessToken answers it by       *)
(* loading the file again, from any other call it reaches the caller. *)
AfterThrow(o) == IF o.name = "refresh" THEN Load ELSE NoOp

(* The end of the block under the lock of the file: use {} releases it. *)
Unlock(t) ==
  /\ lockTable' = [lockTable EXCEPT ![ProcessOf(t)] = NoCaller]
  /\ fileLock' = IF fileLock = t THEN NoCaller ELSE fileLock
  /\ blind' = FALSE
  /\ UNCHANGED storageLock

(* The block has returned. *)
Finish(t) ==
  /\ Unlock(t)
  /\ At(t, "close") /\ op' = [op EXCEPT ![t] = NoOp]

-----------------------------------------------------------------------------
(* Calls                                                                   *)

Init ==
  /\ file = Missing /\ saved = Nothing
  /\ authByProvider = [s \in Storages |-> Nothing]
  /\ constructed = {}
  /\ storageLock = [s \in Storages |-> NoCaller]
  /\ lockTable = [q \in Processes |-> NoCaller]
  /\ fileLock = NoCaller
  /\ pc = [t \in Callers |-> "idle"]
  /\ op = [t \in Callers |-> NoOp]
  /\ live = {} /\ expired = {} /\ issued = 0
  /\ layout \in Layouts
  /\ crashes = 0 /\ blind = FALSE /\ faulted = FALSE /\ dropped = FALSE

Call(t, o) ==
  /\ pc[t] = "idle"
  /\ op' = [op EXCEPT ![t] = o]
  /\ At(t, "storage")

(* AuthStorage(path): init loads the file. *)
Construct(t) ==
  /\ StorageOf(t) \notin constructed
  /\ \A u \in Callers : StorageOf(u) = StorageOf(t) => pc[u] = "idle"
  /\ Call(t, Load)
  /\ UNCHANGED <<file, authByProvider, constructed, locks, server, layout,
                 crashes, history>>

(* getApiKey of an expired token. *)
GetOAuthAccessToken(t) ==
  /\ StorageOf(t) \in constructed
  /\ \E p \in OAuth :
       /\ authByProvider[StorageOf(t)][p] \in expired
       /\ Call(t, Op("refresh", p, 0))
  /\ UNCHANGED <<file, authByProvider, constructed, locks, server, layout,
                 crashes, history>>

(* setApiKey, login: a new credential; clear, logout: none. *)
PersistProviderChange(t) ==
  /\ StorageOf(t) \in constructed
  /\ \E p \in Providers :
       \/ /\ Call(t, Op("change", p, 0))
          /\ UNCHANGED server
       \/ /\ issued < MaxIssued
          /\ issued' = issued + 1
          /\ Call(t, Op("change", p, issued + 1))
          /\ live' = IF p \in OAuth THEN live \cup {issued + 1} ELSE live
          /\ UNCHANGED expired
  /\ UNCHANGED <<file, authByProvider, constructed, locks, layout, crashes,
                 history>>

Expire ==
  /\ \E n \in live \ expired : expired' = expired \cup {n}
  /\ UNCHANGED <<file, authByProvider, constructed, locks, pc, op, live, issued,
                 layout, crashes, history>>

-----------------------------------------------------------------------------
(* withStorageLock                                                         *)

(* The lock of the storage's threads; channel.lock() then enters the       *)
(* channel in the JVM's table and waits for other processes ... *)
TakeStorageLock(t) ==
  /\ pc[t] = "storage"
  /\ storageLock[StorageOf(t)] = NoCaller
  /\ storageLock' = [storageLock EXCEPT ![StorageOf(t)] = t]
  /\ UNCHANGED <<file, authByProvider, constructed, fileLock, server, layout,
                 crashes, history>>

EnterTable(t) ==
  /\ TakeStorageLock(t)
  /\ lockTable[ProcessOf(t)] = NoCaller
  /\ lockTable' = [lockTable EXCEPT ![ProcessOf(t)] = t]
  /\ At(t, "wait") /\ UNCHANGED op

TakeFileLock(t) ==
  /\ pc[t] = "wait"
  /\ fileLock = NoCaller
  /\ fileLock' = t
  /\ At(t, "load")
  /\ UNCHANGED <<file, authByProvider, constructed, storageLock, lockTable, op, server,
                 layout, crashes, history>>

(* ... and throws when the table has another channel of its own process.   *)
OverlappingFileLock(t) ==
  /\ TakeStorageLock(t)
  /\ lockTable[ProcessOf(t)] # NoCaller
  /\ At(t, "unwind") /\ op' = [op EXCEPT ![t] = AfterThrow(op[t])]
  /\ UNCHANGED lockTable

(* Mutant: an exception that skips the release of the locks. *)
ThrowLocked(t) ==
  /\ op' = [op EXCEPT ![t] = NoOp]
  /\ At(t, "idle")
  /\ blind' = FALSE
  /\ UNCHANGED locks

(* An exception in the block leaves the lock of the file. *)
Throw(t) ==
  /\ Unlock(t)
  /\ At(t, "unwind") /\ op' = [op EXCEPT ![t] = AfterThrow(op[t])]

(* The close of a channel may give up the lock of another channel of its   *)
(* process, and the storage's lock is released. *)
CloseChannel(t) ==
  /\ \/ UNCHANGED <<fileLock, dropped>>
     \/ /\ fileLock # NoCaller /\ ProcessOf(fileLock) = ProcessOf(t)
        /\ fileLock' = NoCaller /\ dropped' = TRUE
  /\ storageLock' = [storageLock EXCEPT ![StorageOf(t)] = NoCaller]
  /\ UNCHANGED <<file, authByProvider, lockTable, server, layout, crashes, saved, blind,
                 faulted>>

Leave(t) ==
  /\ pc[t] = "close"
  /\ CloseChannel(t)
  /\ constructed' = constructed \cup {StorageOf(t)}
  /\ At(t, "idle") /\ UNCHANGED op

Unwind(t) ==
  /\ pc[t] = "unwind"
  /\ CloseChannel(t)
  /\ At(t, IF op[t] = Load THEN "storage" ELSE "idle")
  /\ UNCHANGED <<constructed, op>>

-----------------------------------------------------------------------------
(* Mutant: only a storage's first call reads the file. *)
LoadOnce(t) ==
  /\ pc[t] = "load"
  /\ blind' = (file \in {Missing, Unreadable})
  /\ IF file \in {Missing, Unreadable} \/ StorageOf(t) \in constructed
     THEN UNCHANGED authByProvider
     ELSE authByProvider' = [authByProvider EXCEPT ![StorageOf(t)] = file]
  /\ At(t, "decide")
  /\ UNCHANGED <<file, constructed, locks, op, server, layout, crashes, saved,
                 faulted, dropped>>

(* loadUnlocked: a file that is not there or does not parse leaves the     *)
(* memory as it is. *)
LoadUnlocked(t) ==
  /\ pc[t] = "load"
  /\ blind' = (file \in {Missing, Unreadable})
  /\ IF file \in {Missing, Unreadable}
     THEN UNCHANGED authByProvider
     ELSE authByProvider' = [authByProvider EXCEPT ![StorageOf(t)] = file]
  /\ At(t, "decide")
  /\ UNCHANGED <<file, constructed, locks, op, server, layout, crashes, saved,
                 faulted, dropped>>

Current(t) == authByProvider[StorageOf(t)][op[t].provider]

Put(t, c) ==
  authByProvider' = [authByProvider EXCEPT ![StorageOf(t)][op[t].provider] = c]

(* What was loaded is all that was wanted, or is still good. *)
Return(t) ==
  /\ pc[t] = "decide"
  /\ \/ op[t] = Load
     \/ op[t].name = "refresh" /\ Current(t) \notin expired
  /\ Finish(t)
  /\ UNCHANGED <<file, authByProvider, constructed, server, layout, crashes, saved,
                 faulted, dropped>>

Change(t) ==
  /\ pc[t] = "decide"
  /\ op[t].name = "change"
  /\ Put(t, op[t].credential)
  /\ At(t, "truncate")
  /\ UNCHANGED <<file, constructed, locks, op, server, layout, crashes,
                 history>>

Asks(t) ==
  /\ pc[t] = "decide"
  /\ op[t].name = "refresh"
  /\ Current(t) \in expired

(* oauthProvider.refreshToken: the server retires the token and issues the *)
(* next one. *)
Rotate(t) ==
  /\ Current(t) \in live
  /\ issued < MaxIssued
  /\ issued' = issued + 1
  /\ live' = (live \ {Current(t)}) \cup {issued + 1}
  /\ UNCHANGED expired

(* Mutant: the new token stays in memory. *)
RefreshInMemory(t) ==
  /\ Asks(t)
  /\ Rotate(t)
  /\ Put(t, issued + 1)
  /\ Finish(t)
  /\ UNCHANGED <<file, constructed, layout, crashes, saved, faulted, dropped>>

RefreshToken(t) ==
  /\ Asks(t)
  /\ Rotate(t)
  /\ Put(t, issued + 1)
  /\ At(t, "truncate")
  /\ UNCHANGED <<file, constructed, locks, op, layout, crashes, history>>

RefreshFails(t) ==
  /\ Asks(t)
  /\ Throw(t)
  /\ UNCHANGED <<file, authByProvider, constructed, server, layout, crashes,
                 saved, faulted, dropped>>

RefreshAnswerLost(t) ==
  /\ "answer" \in Faults
  /\ Asks(t)
  /\ Rotate(t)
  /\ Throw(t)
  /\ faulted' = TRUE
  /\ UNCHANGED <<file, authByProvider, constructed, layout, crashes, saved, dropped>>

-----------------------------------------------------------------------------
(* persistUnlocked: opening truncates the file, then it is written.        *)

Truncate(t) ==
  /\ pc[t] = "truncate"
  /\ file' = Unreadable
  /\ At(t, "write")
  /\ UNCHANGED <<authByProvider, constructed, locks, op, server, layout,
                 crashes, history>>

Write(t) ==
  /\ pc[t] = "write"
  /\ file' = authByProvider[StorageOf(t)]
  /\ saved' = authByProvider[StorageOf(t)]
  /\ Finish(t)
  /\ UNCHANGED <<authByProvider, constructed, server, layout, crashes, faulted,
                 dropped>>

WriteFails(t) ==
  /\ "ioerror" \in Faults
  /\ pc[t] \in Writing
  /\ Throw(t)
  /\ faulted' = TRUE
  /\ UNCHANGED <<file, authByProvider, constructed, server, layout, crashes,
                 saved, dropped>>

(* The process is killed; the system releases its lock. *)
Crash(q) ==
  LET dead == {s \in Storages : layout.process[s] = q}
      died == {t \in Callers : StorageOf(t) \in dead}
  IN  /\ crashes < Crashes
      /\ \E t \in died : pc[t] # "idle" \/ StorageOf(t) \in constructed
      /\ crashes' = crashes + 1
      /\ authByProvider' = [s \in Storages |->
           IF s \in dead THEN Nothing ELSE authByProvider[s]]
      /\ constructed' = constructed \ dead
      /\ storageLock' = [s \in Storages |->
           IF s \in dead THEN NoCaller ELSE storageLock[s]]
      /\ lockTable' = [lockTable EXCEPT ![q] = NoCaller]
      /\ fileLock' = IF fileLock \in died THEN NoCaller ELSE fileLock
      /\ pc' = [t \in Callers |-> IF t \in died THEN "idle" ELSE pc[t]]
      /\ op' = [t \in Callers |-> IF t \in died THEN NoOp ELSE op[t]]
      /\ faulted' = (faulted \/ \E t \in died : pc[t] \in Writing)
      /\ UNCHANGED <<file, server, layout, saved, blind, dropped>>

-----------------------------------------------------------------------------
(* Inside the locks a caller goes on by itself. *)
Proceed(t) ==
  \/ LoadUnlocked(t) \/ Return(t)
  \/ Change(t) \/ RefreshToken(t) \/ RefreshFails(t) \/ RefreshAnswerLost(t)
  \/ Truncate(t) \/ Write(t) \/ WriteFails(t)
  \/ Leave(t) \/ Unwind(t)

Next ==
  \/ \E t \in Callers :
       \/ Construct(t) \/ GetOAuthAccessToken(t) \/ PersistProviderChange(t)
       \/ EnterTable(t) \/ OverlappingFileLock(t) \/ TakeFileLock(t) \/ Proceed(t)
  \/ Expire
  \/ \E q \in Processes : Crash(q)

Spec == Init /\ [][Next]_vars

FairSpec == Spec /\ \A t \in Callers : WF_vars(Proceed(t))

-----------------------------------------------------------------------------
TypeOK ==
  /\ file \in Contents \cup {Missing, Unreadable} /\ saved \in Contents
  /\ authByProvider \in [Storages -> Contents]
  /\ constructed \subseteq Storages
  /\ storageLock \in [Storages -> Callers \cup {NoCaller}]
  /\ lockTable \in [Processes -> Callers \cup {NoCaller}]
  /\ fileLock \in Callers \cup {NoCaller}
  /\ pc \in [Callers -> {"idle", "storage", "wait", "close", "unwind"} \cup Inside]
  /\ op \in [Callers ->
       {NoOp, Load}
         \cup [name : {"refresh", "change"}, provider : Providers, credential : Nat]]
  /\ live \subseteq Nat /\ expired \subseteq Nat /\ issued \in Nat
  /\ layout \in Layouts
  /\ crashes \in Nat /\ blind \in BOOLEAN /\ faulted \in BOOLEAN /\ dropped \in BOOLEAN

(* The lock excludes the other processes: unless one with two storages     *)
(* shares the file with another one, and has lost its lock to the close of *)
(* a channel. *)
LockExcludes ==
  \/ ~dropped
  \/ \A s, r \in Storages : SameProcess(s, r)
  \/ \A s, r \in Storages : SameProcess(s, r) => s = r

(* A writer that could read the file changes the one credential it was     *)
(* asked to change: what other processes stored in the meantime is not     *)
(* undone by the copy it had in memory. So does one that found no file,    *)
(* until a write failed: then the memory may hold what the file does not.  *)
OneProviderPerWrite ==
  [][(saved' # saved /\ LockExcludes /\ (blind => ~faulted)) =>
        \E p \in Providers : saved' = [saved EXCEPT ![p] = saved'[p]]]_vars

(* Two callers that find the same token expired do not both spend it: a    *)
(* caller about to ask the server has a token the server still accepts, as *)
(* long as the lock excludes and no token was lost by a fault. *)
RefreshSpendsLiveToken ==
  \A t \in Callers : (Asks(t) /\ ~faulted /\ LockExcludes) => Current(t) \in live

(* Between writes the file holds what was written last, and in it logins   *)
(* the server accepts: a token is retired only while its successor is on   *)
(* the way to the file. *)
FileKeepsLogin ==
  ((\A t \in Callers : pc[t] \notin Writing) /\ ~faulted /\ LockExcludes) =>
     /\ saved = IF file = Missing THEN Nothing ELSE file
     /\ \A p \in OAuth : saved[p] \in live \cup {0}

(* Again and again a caller holds no lock, unless it waits for another    *)
(* process: whoever was given the locks gives all of them back, however    *)
(* the call ends. *)
LockIsReleased ==
  \A t \in Callers :
    []<>( \/ pc[t] = "wait"
          \/ /\ fileLock # t /\ \A q \in Processes : lockTable[q] # t
             /\ \A s \in Storages : storageLock[s] # t )
=============================================================================
