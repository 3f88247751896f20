------------------------- MODULE AuthStorageProofs -------------------------
(***************************************************************************)
(* AuthStorage, proved for every set of callers, storages, processes and   *)
(* providers, and every layout: while the lock excludes, no refresh spends *)
(* a token that was spent before, the file keeps the last login that was   *)
(* saved, and a write changes one provider.                                *)
(*                                                                         *)
(* All three rest on one thing that no single state of the file shows:     *)
(* what a caller decides upon is what the file holds. Locked says who may  *)
(* decide (whoever is inside has the lock of its storage, the entry in its *)
(* process's table and, until a close drops it, the system's lock), Copies *)
(* what a caller finds there, Distinct that no two places hold the same    *)
(* credential unless one was copied from the other, and Honest what the    *)
(* file and the memory of the provider agree on while nothing has failed.  *)
(***************************************************************************)
EXTENDS AuthStorage, TLAPS

(* Where a caller stands that has its storage's lock, and where one whose  *)
(* channel is in its process's table does.                                 *)
InStorage == {"wait", "close", "unwind"} \cup Inside
InTable   == {"wait"} \cup Inside

(* The lock goes to whoever the JVM's table lets wait for it and only to   *)
(* one of those that are inside; a close drops it only where two storages  *)
(* share a process; and the calls that are under way are the ones the      *)
(* class offers.                                                           *)
Locked ==
  /\ \A t \in Callers :
       /\ pc[t] \in InStorage => storageLock[StorageOf(t)] = t
       /\ pc[t] \in InTable => lockTable[ProcessOf(t)] = t
       /\ ~dropped /\ pc[t] \in Inside => fileLock = t
  /\ fileLock # NoCaller => pc[fileLock] \in Inside
  /\ dropped => \E s, r \in Storages : s # r /\ SameProcess(s, r)
  /\ \A t \in Callers :
       /\ op[t].name = "refresh" => op[t].provider \in OAuth
       /\ pc[t] \in Writing => op[t].name \in {"refresh", "change"}
       /\ pc[t] \in {"storage"} \cup InTable =>
            op[t].name \in {"load", "refresh", "change"}
       /\ pc[t] \in {"idle", "close"} => op[t] = NoOp
       /\ pc[t] = "unwind" => op[t] \in {NoOp, Load}

(* What a copy in memory is worth: the lock excludes, and a load that      *)
(* found no file left nothing behind that a failed write had put there.    *)
Trusted == LockExcludes /\ (blind => ~faulted)

(* Two contents that differ in one provider at most.                       *)
OneApart(m, n) == \E p \in Providers : \A q \in Providers \ {p} : m[q] = n[q]

(* A caller that decides has just loaded the file, so its storage holds    *)
(* what was saved last; a caller that writes has changed one provider of   *)
(* that.                                                                   *)
Copies ==
  /\ file \in {saved, Missing, Unreadable}
  /\ file = Missing => saved = Nothing
  /\ Trusted => \A t \in Callers :
       /\ pc[t] = "decide" => authByProvider[StorageOf(t)] = saved
       /\ pc[t] \in Writing => OneApart(authByProvider[StorageOf(t)], saved)

(* A change whose credential is neither in the file nor in a storage yet.  *)
Pending(t) ==
  op[t].name = "change" /\ pc[t] \in {"storage", "wait", "load", "decide"}

(* No two providers hold the same credential.                              *)
Injective(m) ==
  \A p, q \in Providers : p # q /\ m[p] # 0 => m[p] # m[q]

(* Credentials are numbered as they are issued: every number in the file,  *)
(* in a storage or in a pending change was issued, to one provider, and a  *)
(* pending one is held nowhere else.                                       *)
Distinct ==
  /\ live \subseteq 1..issued /\ expired \subseteq 1..issued
  /\ \A p \in Providers : saved[p] <= issued
  /\ \A s \in Storages, p \in Providers : authByProvider[s][p] <= issued
  /\ Injective(saved)
  /\ \A s \in Storages : Injective(authByProvider[s])
  /\ \A t \in Callers : Pending(t) /\ op[t].credential # 0 =>
       /\ op[t].credential <= issued
       /\ \A p \in Providers : saved[p] # op[t].credential
       /\ \A s \in Storages, p \in Providers :
            authByProvider[s][p] # op[t].credential
       /\ \A u \in Callers : u # t /\ Pending(u) =>
            op[u].credential # op[t].credential

(* Every OAuth login in m would still be accepted.                         *)
LiveOrNone(m) == \A p \in OAuth : m[p] \in live \cup {0}

(* While nothing has failed and the lock excludes: the file is cut only in *)
(* a write, what is saved, about to be saved or pending would be accepted, *)
(* and as long as there is no file only its first writer has a copy.       *)
Honest == (~faulted /\ LockExcludes) =>
  /\ (\A t \in Callers : pc[t] # "write") => file # Unreadable
  /\ (\A t \in Callers : pc[t] \notin Writing) => LiveOrNone(saved)
  /\ \A t \in Callers :
       /\ pc[t] \in Writing => LiveOrNone(authByProvider[StorageOf(t)])
       /\ Pending(t) /\ op[t].provider \in OAuth =>
            op[t].credential \in live \cup {0}
  /\ file = Missing =>
       \A s \in Storages :
         (\A t \in Callers : StorageOf(t) = s => pc[t] \notin Writing) =>
           authByProvider[s] = Nothing

(* The inductive invariant.                                                *)
IInv == TypeOK /\ Locked /\ Copies /\ Distinct /\ Honest

-----------------------------------------------------------------------------
(* What a caller that leaves the block under the lock is left with: its    *)
(* result, or an exception.                                                *)
Left(t) ==
  \/ At(t, "close") /\ op' = [op EXCEPT ![t] = NoOp]
  \/ At(t, "unwind") /\ op' = [op EXCEPT ![t] = AfterThrow(op[t])]

(* The steps that leave the block.                                         *)
Leaving(t) ==
  Return(t) \/ RefreshFails(t) \/ RefreshAnswerLost(t) \/ Write(t) \/ WriteFails(t)

(* Each of them gives up the lock of the file.                             *)
LEMMA LeavesTheBlock ==
  ASSUME NEW t \in Callers, Leaving(t)
  PROVE  /\ pc[t] \in Inside /\ Unlock(t) /\ Left(t)
         /\ UNCHANGED <<layout, constructed, crashes, dropped, authByProvider>>
BY DEF Leaving, Return, RefreshFails, RefreshAnswerLost, Write, WriteFails, Finish,
       Throw, Left, Asks, Inside, Writing

(* An exception leaves nothing to do, or a load.                           *)
LEMMA ThrowLeaves ==
  ASSUME NEW o
  PROVE  AfterThrow(o) \in {NoOp, Load}
BY DEF AfterThrow

(* Where the one who leaves and the others are afterwards.                 *)
LEMMA LeftAlone ==
  ASSUME TypeOK, NEW t \in Callers, Left(t)
  PROVE  /\ pc'[t] \in {"close", "unwind"} /\ op'[t] \in {NoOp, Load}
         /\ pc'[t] = "close" => op'[t] = NoOp
         /\ \A u \in Callers \ {t} : pc'[u] = pc[u] /\ op'[u] = op[u]
BY ThrowLeaves DEF Left, At, TypeOK

(* A storage and a process are of the layout.                              *)
LEMMA Placed ==
  ASSUME TypeOK, NEW t \in Callers
  PROVE  StorageOf(t) \in Storages /\ ProcessOf(t) \in Processes
BY AuthAssumption DEF TypeOK, StorageOf, ProcessOf

(* While the lock excludes, one caller at a time is inside: of two in one  *)
(* process only one is in the table, and of two in different processes     *)
(* only one has the system's lock.                                         *)
LEMMA Alone ==
  ASSUME TypeOK, Locked, LockExcludes, NEW t \in Callers, NEW u \in Callers,
         pc[t] \in Inside, pc[u] \in Inside
  PROVE  t = u
<1>1. lockTable[ProcessOf(t)] = t /\ lockTable[ProcessOf(u)] = u
  BY DEF Locked, InTable
<1>2. CASE ~dropped
  BY <1>2 DEF Locked
<1>3. CASE \A s, r \in Storages : SameProcess(s, r)
  BY <1>1, <1>3, Placed DEF SameProcess, ProcessOf
<1>4. CASE dropped /\ \A s, r \in Storages : SameProcess(s, r) => s = r
  BY <1>4 DEF Locked
<1>5. QED
  BY <1>2, <1>3, <1>4 DEF LockExcludes

(* A lock that was dropped stays dropped.                                  *)
LEMMA ExcludedBefore ==
  ASSUME UNCHANGED layout, dropped => dropped', LockExcludes'
  PROVE  LockExcludes
BY DEF LockExcludes, SameProcess

(* The one who leaves gives up what it had, so nobody else loses any.      *)
LEMMA LeavingKeepsLocked ==
  ASSUME TypeOK, Locked, NEW t \in Callers, Leaving(t)
  PROVE  Locked'
<1>1. /\ pc[t] \in Inside /\ Unlock(t)
      /\ UNCHANGED <<layout, dropped>>
  BY LeavesTheBlock
<1>2. /\ pc'[t] \in {"close", "unwind"} /\ op'[t] \in {NoOp, Load}
      /\ pc'[t] = "close" => op'[t] = NoOp
      /\ \A u \in Callers \ {t} : pc'[u] = pc[u] /\ op'[u] = op[u]
  BY LeavesTheBlock, LeftAlone
<1>3. \A u \in Callers : /\ StorageOf(u) \in Storages /\ ProcessOf(u) \in Processes
                         /\ StorageOf(u)' = StorageOf(u) /\ ProcessOf(u)' = ProcessOf(u)
  BY <1>1, Placed DEF StorageOf, ProcessOf
<1>4. /\ storageLock' = storageLock
      /\ lockTable' = [lockTable EXCEPT ![ProcessOf(t)] = NoCaller]
      /\ fileLock' = IF fileLock = t THEN NoCaller ELSE fileLock
  BY <1>1 DEF Unlock
<1>5. storageLock[StorageOf(t)] = t /\ lockTable[ProcessOf(t)] = t
  BY <1>1 DEF Locked, InStorage, InTable
<1>6. \A u \in Callers : pc'[u] \in InStorage => storageLock'[StorageOf(u)] = u
  BY <1>2, <1>4, <1>5 DEF Locked
<1>7. \A u \in Callers : pc'[u] \in InTable => lockTable'[ProcessOf(u)] = u
  <2> SUFFICES ASSUME NEW u \in Callers, pc'[u] \in InTable
               PROVE  lockTable'[ProcessOf(u)] = u
    OBVIOUS
  <2>1. u # t
    BY <1>2 DEF InTable, Inside
  <2>2. lockTable[ProcessOf(u)] = u
    BY <1>2, <2>1 DEF Locked
  <2>3. QED
    BY <1>3, <1>4, <1>5, <2>1, <2>2 DEF TypeOK
<1>8. \A u \in Callers : ~dropped /\ pc'[u] \in Inside => fileLock' = u
  BY <1>2, <1>4 DEF Locked, Inside
<1>9. fileLock' # NoCaller => pc'[fileLock'] \in Inside
  BY <1>2, <1>4 DEF Locked, TypeOK
<1>10. dropped' => \E s, r \in Storages : s # r /\ SameProcess(s, r)'
  BY <1>1 DEF Locked, SameProcess
<1>11. \A u \in Callers :
       /\ op'[u].name = "refresh" => op'[u].provider \in OAuth
       /\ pc'[u] \in Writing => op'[u].name \in {"refresh", "change"}
       /\ pc'[u] \in {"storage"} \cup InTable =>
            op'[u].name \in {"load", "refresh", "change"}
       /\ pc'[u] \in {"idle", "close"} => op'[u] = NoOp
       /\ pc'[u] = "unwind" => op'[u] \in {NoOp, Load}
  <2> TAKE u \in Callers
  <2>1. CASE u = t
    BY <1>2, <2>1 DEF NoOp, Load, Writing, InTable, Inside
  <2>2. CASE u # t
    BY <1>2, <2>2 DEF Locked
  <2>3. QED
    BY <2>1, <2>2
<1>12. QED
  BY <1>1, <1>3, <1>6, <1>7, <1>8, <1>9, <1>10, <1>11 DEF Locked

(* put() changes one provider of one storage.                              *)
LEMMA PutOne ==
  ASSUME TypeOK, NEW t \in Callers, op[t].provider \in Providers, NEW c \in Nat,
         Put(t, c)
  PROVE  /\ authByProvider' \in [Storages -> Contents]
         /\ authByProvider'[StorageOf(t)] =
              [authByProvider[StorageOf(t)] EXCEPT ![op[t].provider] = c]
         /\ \A s \in Storages \ {StorageOf(t)} : authByProvider'[s] = authByProvider[s]
BY AuthAssumption DEF TypeOK, Put, StorageOf, Contents

(* A refresh and a change name a provider and carry a credential.          *)
LEMMA OpHasProvider ==
  ASSUME TypeOK, NEW t \in Callers, op[t].name \in {"refresh", "change"}
  PROVE  op[t].provider \in Providers /\ op[t].credential \in Nat
BY DEF TypeOK, NoOp, Load

(* A step that issues, retires or forgets credentials, but stores none.    *)
LEMMA DistinctKept ==
  ASSUME TypeOK, Distinct, NEW n \in Nat, issued' = n, issued <= n,
         live' \subseteq 1..n, expired' \subseteq 1..n,
         UNCHANGED <<saved, authByProvider>>,
         \A u \in Callers : Pending(u)' => Pending(u) /\ op'[u] = op[u]
  PROVE  Distinct'
<1>1. \A p \in Providers : saved[p] \in Nat /\ saved[p] <= n
  BY DEF Distinct, TypeOK, Contents
<1>2. \A s \in Storages, p \in Providers :
        authByProvider[s][p] \in Nat /\ authByProvider[s][p] <= n
  <2> TAKE s \in Storages, p \in Providers
  <2>1. authByProvider[s][p] \in Nat /\ authByProvider[s][p] <= issued
    BY DEF Distinct, TypeOK, Contents
  <2>2. QED
    BY <2>1 DEF TypeOK
<1>3. \A t \in Callers : Pending(t)' /\ op'[t].credential # 0 =>
       /\ op'[t].credential <= n
       /\ \A p \in Providers : saved[p] # op'[t].credential
       /\ \A s \in Storages, p \in Providers :
            authByProvider[s][p] # op'[t].credential
       /\ \A u \in Callers : u # t /\ Pending(u)' =>
            op'[u].credential # op'[t].credential
  <2> TAKE t \in Callers
  <2> SUFFICES ASSUME Pending(t), op[t].credential # 0, op'[t] = op[t]
               PROVE  /\ op[t].credential <= n
                      /\ \A p \in Providers : saved[p] # op[t].credential
                      /\ \A s \in Storages, p \in Providers :
                           authByProvider[s][p] # op[t].credential
                      /\ \A u \in Callers : u # t /\ Pending(u)' =>
                           op'[u].credential # op[t].credential
    OBVIOUS
  <2>1. op[t].credential \in Nat /\ op[t].credential <= issued
    BY OpHasProvider DEF Distinct, Pending
  <2>2. op[t].credential <= n
    BY <2>1 DEF TypeOK
  <2>3. QED
    BY <2>2 DEF Distinct
<1>4. Injective(saved)' /\ \A s \in Storages : Injective(authByProvider[s])'
  BY DEF Distinct, Injective
<1>5. QED
  BY <1>1, <1>2, <1>3, <1>4 DEF Distinct

(* The number of the next credential is a new one.                         *)
LEMMA NextIsNew ==
  ASSUME TypeOK, Distinct
  PROVE  \E n \in Nat :
           /\ n = issued + 1 /\ issued <= n /\ n # 0
           /\ n \notin live /\ n \notin expired
           /\ live \subseteq 1..n /\ expired \subseteq 1..n /\ n \in 1..n
           /\ \A p \in Providers : saved[p] # n /\ saved[p] <= n
           /\ \A s \in Storages, p \in Providers :
                authByProvider[s][p] # n /\ authByProvider[s][p] <= n
           /\ \A t \in Callers : Pending(t) =>
                op[t].credential # n /\ op[t].credential <= n
<1> DEFINE n == issued + 1
<1>1. n \in Nat /\ issued \in Nat /\ issued < n /\ issued <= n /\ n # 0 /\ n \in 1..n
  BY DEF TypeOK
<1>2. \A k \in Nat : k <= issued => k # n /\ k <= n
  BY <1>1
<1>3. \A k \in 1..issued : k \in Nat /\ k <= issued /\ k \in 1..n
  BY <1>1
<1> HIDE DEF n
<1>4. n \notin live /\ n \notin expired /\ live \subseteq 1..n /\ expired \subseteq 1..n
  BY <1>2, <1>3 DEF Distinct
<1>5. \A p \in Providers : saved[p] # n /\ saved[p] <= n
  BY <1>2 DEF Distinct, TypeOK, Contents
<1>6. \A s \in Storages, p \in Providers :
        authByProvider[s][p] # n /\ authByProvider[s][p] <= n
  BY <1>2 DEF Distinct, TypeOK, Contents
<1>7. \A t \in Callers : Pending(t) =>
        op[t].credential # n /\ op[t].credential <= n
  <2> TAKE t \in Callers
  <2>1. Pending(t) => op[t].credential \in Nat
    BY OpHasProvider DEF Pending
  <2>2. Pending(t) => op[t].credential <= issued
    BY <1>1 DEF Distinct
  <2>3. QED
    BY <1>2, <2>1, <2>2
<1>8. n = issued + 1
  BY DEF n
<1>9. QED
  BY <1>1, <1>4, <1>5, <1>6, <1>7, <1>8

(* A step outside the writing of the file, after which no more is pending  *)
(* than was, leaves the history honest.                                    *)
LEMMA HonestKept ==
  ASSUME TypeOK, Honest,
         UNCHANGED <<file, saved, layout>>, live \subseteq live',
         faulted => faulted', dropped => dropped',
         \A s \in Storages : authByProvider'[s] \in {authByProvider[s], Nothing},
         \A u \in Callers : ~faulted' =>
           /\ pc'[u] = "write" <=> pc[u] = "write"
           /\ pc'[u] = "truncate" <=> pc[u] = "truncate"
           /\ pc[u] \in Writing =>
                authByProvider'[StorageOf(u)] = authByProvider[StorageOf(u)],
         \A u \in Callers : ~faulted' /\ Pending(u)' /\ op'[u].provider \in OAuth =>
           \/ op'[u].credential \in live' \cup {0}
           \/ Pending(u) /\ op'[u] = op[u]
  PROVE  Honest'
<1> SUFFICES ASSUME ~faulted', LockExcludes'
             PROVE  /\ (\A t \in Callers : pc'[t] # "write") => file' # Unreadable
                    /\ (\A t \in Callers : pc'[t] \notin Writing) => LiveOrNone(saved)'
                    /\ \A t \in Callers :
                         /\ pc'[t] \in Writing =>
                              LiveOrNone(authByProvider[StorageOf(t)])'
                         /\ Pending(t)' /\ op'[t].provider \in OAuth =>
                              op'[t].credential \in live' \cup {0}
                    /\ file' = Missing =>
                         \A s \in Storages :
                           (\A t \in Callers : StorageOf(t)' = s => pc'[t] \notin Writing) =>
                             authByProvider'[s] = Nothing
  BY DEF Honest
<1>1. ~faulted /\ LockExcludes
  BY ExcludedBefore
<1>2. \A t \in Callers : StorageOf(t)' = StorageOf(t)
  BY DEF StorageOf
<1>3. \A t \in Callers : pc'[t] \in Writing <=> pc[t] \in Writing
  BY DEF Writing
<1>4. (\A t \in Callers : pc'[t] # "write") => file' # Unreadable
  BY <1>1 DEF Honest
<1>5. (\A t \in Callers : pc'[t] \notin Writing) => LiveOrNone(saved)'
  BY <1>1, <1>3 DEF Honest, LiveOrNone
<1>6. \A t \in Callers : pc'[t] \in Writing => LiveOrNone(authByProvider[StorageOf(t)])'
  BY <1>1, <1>2, <1>3 DEF Honest, LiveOrNone
<1>7. \A t \in Callers : Pending(t)' /\ op'[t].provider \in OAuth =>
        op'[t].credential \in live' \cup {0}
  BY <1>1 DEF Honest
<1>8. file' = Missing =>
        \A s \in Storages :
          (\A t \in Callers : StorageOf(t)' = s => pc'[t] \notin Writing) =>
            authByProvider'[s] = Nothing
  BY <1>1, <1>2, <1>3 DEF Honest
<1>9. QED
  BY <1>4, <1>5, <1>6, <1>7, <1>8

(* Every step keeps the types.                                             *)
LEMMA TypeStep ==
  ASSUME TypeOK, [Next]_vars
  PROVE  TypeOK'
<1>1. ASSUME NEW t \in Callers, Construct(t) PROVE TypeOK'
  BY <1>1 DEF TypeOK, locks, server, history, Construct, Call, At
<1>2. ASSUME NEW t \in Callers, GetOAuthAccessToken(t) PROVE TypeOK'
  BY <1>2, AuthAssumption
     DEF TypeOK, locks, server, history, GetOAuthAccessToken, Call, At, Op
<1>3. ASSUME NEW t \in Callers, PersistProviderChange(t) PROVE TypeOK'
  <2>1. op' \in [Callers -> {NoOp, Load}
          \cup [name : {"refresh", "change"}, provider : Providers, credential : Nat]]
    BY <1>3 DEF PersistProviderChange, Call, Op, TypeOK
  <2>2. issued + 1 \in Nat /\ issued \in Nat
    BY DEF TypeOK
  <2>3. issued' \in Nat
    BY <1>3, <2>2 DEF PersistProviderChange, server
  <2>4. live' \subseteq live \cup {issued + 1}
    BY <1>3 DEF PersistProviderChange, server
  <2>5. live' \subseteq Nat
    BY <2>2, <2>4 DEF TypeOK
  <2>6. QED
    BY <1>3, <2>1, <2>3, <2>5
       DEF PersistProviderChange, Call, At, TypeOK, server, locks, history
<1>4. ASSUME NEW t \in Callers, EnterTable(t) PROVE TypeOK'
  BY <1>4, Placed DEF TypeOK, server, history, EnterTable, TakeStorageLock, At
<1>5. ASSUME NEW t \in Callers, TakeFileLock(t) PROVE TypeOK'
  BY <1>5 DEF TypeOK, Inside, server, history, TakeFileLock, At
<1>6. ASSUME NEW t \in Callers, OverlappingFileLock(t) PROVE TypeOK'
  <2>1. op' \in [Callers -> {NoOp, Load}
          \cup [name : {"refresh", "change"}, provider : Providers, credential : Nat]]
    BY <1>6, ThrowLeaves DEF OverlappingFileLock, TypeOK
  <2>2. QED
    BY <1>6, <2>1, Placed
       DEF TypeOK, server, history, OverlappingFileLock, TakeStorageLock, At
<1>7. ASSUME NEW t \in Callers, LoadUnlocked(t) PROVE TypeOK'
  BY <1>7 DEF TypeOK, Inside, locks, server, LoadUnlocked, At
<1>8. ASSUME NEW t \in Callers, Leave(t) PROVE TypeOK'
  BY <1>8, Placed DEF TypeOK, server, Leave, CloseChannel, At
<1>9. ASSUME NEW t \in Callers, Change(t) PROVE TypeOK'
  BY <1>9, AuthAssumption
     DEF TypeOK, Contents, NoOp, Load, Inside, StorageOf, locks, server,
         history, Change, Put, At
<1>10. ASSUME NEW t \in Callers, RefreshToken(t) PROVE TypeOK'
  <2>1. PICK n \in Nat : n = issued + 1
    BY DEF TypeOK
  <2>2. Put(t, n) /\ op[t].name = "refresh" /\ issued' = n
    BY <1>10, <2>1 DEF RefreshToken, Rotate, Asks
  <2>3. authByProvider' \in [Storages -> Contents]
    BY <2>2, PutOne, OpHasProvider
  <2>4. live' \subseteq Nat
    BY <1>10, <2>1 DEF RefreshToken, Rotate, TypeOK
  <2>5. QED
    BY <1>10, <2>2, <2>3, <2>4
       DEF RefreshToken, Rotate, At, TypeOK, Inside, locks, history
<1>11. ASSUME NEW t \in Callers, Unwind(t) PROVE TypeOK'
  BY <1>11, Placed DEF TypeOK, server, Unwind, CloseChannel, At
<1>12. ASSUME NEW t \in Callers, Leaving(t) PROVE TypeOK'
  <2>1. /\ Unlock(t) /\ Left(t)
        /\ UNCHANGED <<layout, constructed, crashes, dropped, authByProvider>>
    BY <1>12, LeavesTheBlock
  <2>2. op' \in [Callers -> {NoOp, Load}
          \cup [name : {"refresh", "change"}, provider : Providers, credential : Nat]]
    BY <2>1, ThrowLeaves DEF Left, TypeOK
  <2>3. pc' \in [Callers -> {"idle", "storage", "wait", "close", "unwind"} \cup Inside]
    BY <2>1 DEF Left, At, TypeOK
  <2>4. /\ storageLock' \in [Storages -> Callers \cup {NoCaller}]
        /\ lockTable' \in [Processes -> Callers \cup {NoCaller}]
        /\ fileLock' \in Callers \cup {NoCaller} /\ blind' \in BOOLEAN
    BY <2>1 DEF Unlock, TypeOK
  <2>5. PICK n \in Nat : n = issued + 1
    BY DEF TypeOK
  <2>6. live' \subseteq Nat /\ expired' \subseteq Nat /\ issued' \in Nat
    BY <1>12, <2>5
       DEF Leaving, Return, RefreshFails, RefreshAnswerLost, Rotate, Write, WriteFails,
           server, TypeOK
  <2>7. /\ file' \in Contents \cup {Missing, Unreadable} /\ saved' \in Contents
        /\ faulted' \in BOOLEAN
    <3>1. CASE Write(t)
      BY <3>1, Placed DEF Write, TypeOK
    <3>2. CASE ~Write(t)
      BY <1>12, <3>2
         DEF Leaving, Return, RefreshFails, RefreshAnswerLost, WriteFails, TypeOK
    <3>3. QED
      BY <3>1, <3>2
  <2>8. QED
    BY <2>1, <2>2, <2>3, <2>4, <2>6, <2>7 DEF TypeOK
<1>13. ASSUME NEW t \in Callers, Truncate(t) PROVE TypeOK'
  BY <1>13 DEF TypeOK, Inside, locks, server, history, Truncate, At
<1>14. ASSUME Expire PROVE TypeOK'
  BY <1>14 DEF TypeOK, locks, history, Expire
<1>15. ASSUME NEW q \in Processes, Crash(q) PROVE TypeOK'
  BY <1>15 DEF TypeOK, Contents, Nothing, server, Crash
<1>16. CASE UNCHANGED vars
  BY <1>16 DEF TypeOK, locks, server, history, vars
<1>17. QED
  BY <1>1, <1>2, <1>3, <1>4, <1>5, <1>6, <1>7, <1>8, <1>9, <1>10, <1>11, <1>12,
     <1>13, <1>14, <1>15, <1>16 DEF Next, Proceed, Leaving

(* The close of a channel by one that is not inside: the storage's lock is *)
(* released, and the lock of a caller of the same process may be gone.     *)
LEMMA ClosingKeepsLocked ==
  ASSUME TypeOK, Locked, NEW t \in Callers, Leave(t) \/ Unwind(t)
  PROVE  Locked'
<1>1. /\ pc[t] \in {"close", "unwind"} /\ CloseChannel(t) /\ op' = op
      /\ pc' = [pc EXCEPT ![t] = IF op[t] = Load /\ pc[t] = "unwind" THEN "storage"
                                 ELSE "idle"]
  BY DEF Leave, Unwind, At, Locked, NoOp, Load
<1>2. /\ \A u \in Callers \ {t} : pc'[u] = pc[u]
      /\ pc'[t] \in {"idle", "storage"} /\ (pc'[t] = "storage" => op[t] = Load)
  BY <1>1 DEF TypeOK
<1>3. \A u \in Callers : /\ StorageOf(u) \in Storages /\ ProcessOf(u) \in Processes
                         /\ StorageOf(u)' = StorageOf(u) /\ ProcessOf(u)' = ProcessOf(u)
  BY <1>1, Placed DEF CloseChannel, StorageOf, ProcessOf
<1>4. /\ storageLock' = [storageLock EXCEPT ![StorageOf(t)] = NoCaller]
      /\ UNCHANGED <<lockTable, layout>>
      /\ \/ UNCHANGED <<fileLock, dropped>>
         \/ /\ fileLock # NoCaller /\ ProcessOf(fileLock) = ProcessOf(t)
            /\ fileLock' = NoCaller /\ dropped' = TRUE
  BY <1>1 DEF CloseChannel
<1>5. storageLock[StorageOf(t)] = t
  BY <1>1 DEF Locked, InStorage
<1>6. \A u \in Callers : pc'[u] \in InStorage => storageLock'[StorageOf(u)] = u
  <2> SUFFICES ASSUME NEW u \in Callers, pc'[u] \in InStorage
               PROVE  storageLock'[StorageOf(u)] = u
    OBVIOUS
  <2>1. u # t
    BY <1>2 DEF InStorage, Inside
  <2>2. storageLock[StorageOf(u)] = u
    BY <1>2, <2>1 DEF Locked
  <2>3. QED
    BY <1>3, <1>4, <1>5, <2>1, <2>2 DEF TypeOK
<1>7. \A u \in Callers : pc'[u] \in InTable => lockTable'[ProcessOf(u)] = u
  BY <1>2, <1>4 DEF Locked, InTable, Inside
<1>8. \A u \in Callers : ~dropped' /\ pc'[u] \in Inside => fileLock' = u
  BY <1>2, <1>4 DEF Locked, Inside
<1>9. fileLock' # NoCaller => pc'[fileLock'] \in Inside
  BY <1>1, <1>2, <1>4 DEF Locked, TypeOK, Inside
<1>10. dropped' => \E s, r \in Storages : s # r /\ SameProcess(s, r)'
  <2>1. CASE UNCHANGED <<fileLock, dropped>>
    BY <1>4, <2>1 DEF Locked, SameProcess
  <2>2. CASE fileLock # NoCaller /\ ProcessOf(fileLock) = ProcessOf(t)
    <3> DEFINE u == fileLock
    <3>1. u \in Callers /\ pc[u] \in Inside
      BY <2>2 DEF Locked, TypeOK
    <3>2. StorageOf(u) # StorageOf(t)
      BY <1>1, <1>5, <3>1 DEF Locked, InStorage, Inside
    <3>3. SameProcess(StorageOf(u), StorageOf(t))
      BY <2>2 DEF SameProcess, ProcessOf
    <3>4. QED
      BY <1>3, <1>4, <3>1, <3>2, <3>3 DEF SameProcess
  <2>3. QED
    BY <1>4, <2>1, <2>2
<1>11. \A u \in Callers :
       /\ op'[u].name = "refresh" => op'[u].provider \in OAuth
       /\ pc'[u] \in Writing => op'[u].name \in {"refresh", "change"}
       /\ pc'[u] \in {"storage"} \cup InTable =>
            op'[u].name \in {"load", "refresh", "change"}
       /\ pc'[u] \in {"idle", "close"} => op'[u] = NoOp
       /\ pc'[u] = "unwind" => op'[u] \in {NoOp, Load}
  <2> TAKE u \in Callers
  <2>1. CASE u = t
    <3>1. op'[t] \in {NoOp, Load} /\ (pc'[t] = "idle" => op'[t] = NoOp)
      BY <1>1 DEF Locked, TypeOK
    <3>2. QED
      BY <1>1, <1>2, <2>1, <3>1 DEF NoOp, Load, Writing, InTable, Inside
  <2>2. CASE u # t
    BY <1>1, <1>2, <2>2 DEF Locked
  <2>3. QED
    BY <2>1, <2>2
<1>12. QED
  BY <1>3, <1>6, <1>7, <1>8, <1>9, <1>10, <1>11 DEF Locked

(* A step of the one who is inside that touches no lock.                   *)
LEMMA StayingKeepsLocked ==
  ASSUME TypeOK, Locked, NEW t \in Callers, NEW place \in Inside,
         pc[t] \in Inside, At(t, place), UNCHANGED <<locks, op, layout, dropped>>,
         place \in Writing => op[t].name \in {"refresh", "change"}
  PROVE  Locked'
<1>1. \A u \in Callers : pc'[u] = IF u = t THEN place ELSE pc[u]
  BY DEF At, TypeOK
<1>2. \A u \in Callers : StorageOf(u)' = StorageOf(u) /\ ProcessOf(u)' = ProcessOf(u)
  BY DEF StorageOf, ProcessOf
<1>3. \A s, r \in Storages : SameProcess(s, r)' <=> SameProcess(s, r)
  BY DEF SameProcess
<1>4. \A u \in Callers : /\ pc'[u] \in InStorage => pc[u] \in InStorage
                         /\ pc'[u] \in InTable => pc[u] \in InTable
                         /\ pc'[u] \in Inside <=> pc[u] \in Inside
  BY <1>1 DEF InStorage, InTable
<1>5. fileLock' # NoCaller => pc'[fileLock'] \in Inside
  BY <1>4 DEF Locked, TypeOK, locks
<1>6. \A u \in Callers :
       /\ op'[u].name = "refresh" => op'[u].provider \in OAuth
       /\ pc'[u] \in Writing => op'[u].name \in {"refresh", "change"}
       /\ pc'[u] \in {"storage"} \cup InTable =>
            op'[u].name \in {"load", "refresh", "change"}
       /\ pc'[u] \in {"idle", "close"} => op'[u] = NoOp
       /\ pc'[u] = "unwind" => op'[u] \in {NoOp, Load}
  BY <1>1 DEF Locked, InTable, Inside
<1>7. QED
  BY <1>2, <1>3, <1>4, <1>5, <1>6 DEF Locked, locks

(* Every step keeps Locked: locks are taken one after the other on the way *)
(* in and released together on the way out, whatever the reason.           *)
LEMMA LockedStep ==
  ASSUME TypeOK, Locked, [Next]_vars
  PROVE  Locked'
<1>1. ASSUME NEW t \in Callers, Construct(t) PROVE Locked'
  BY <1>1
     DEF TypeOK, Locked, Load, InStorage, InTable, Inside, Writing, StorageOf, ProcessOf,
         SameProcess, locks, history, Construct, Call, At
<1>2. ASSUME NEW t \in Callers, GetOAuthAccessToken(t) PROVE Locked'
  BY <1>2
     DEF TypeOK, Locked, InStorage, InTable, Inside, Writing, StorageOf, ProcessOf,
         SameProcess, locks, history, GetOAuthAccessToken, Call, At, Op
<1>3. ASSUME NEW t \in Callers, PersistProviderChange(t) PROVE Locked'
  <2>1. PICK o \in [name : {"change"}, provider : Providers, credential : Nat] : Call(t, o)
    BY <1>3 DEF PersistProviderChange, Op, TypeOK
  <2>2. QED
    BY <1>3, <2>1
       DEF PersistProviderChange, Call, At, Locked, TypeOK, InStorage, InTable, Inside,
           Writing, StorageOf, ProcessOf, SameProcess, locks, history
<1>4. ASSUME NEW t \in Callers, EnterTable(t) PROVE Locked'
  BY <1>4, Placed, AuthAssumption
     DEF TypeOK, Locked, InStorage, InTable, Inside, Writing, StorageOf, ProcessOf,
         SameProcess, history, EnterTable, TakeStorageLock, At
<1>5. ASSUME NEW t \in Callers, TakeFileLock(t) PROVE Locked'
  BY <1>5, AuthAssumption
     DEF TypeOK, Locked, InStorage, InTable, Inside, Writing, StorageOf, ProcessOf,
         SameProcess, history, TakeFileLock, At
<1>6. ASSUME NEW t \in Callers, OverlappingFileLock(t) PROVE Locked'
  <2>1. op'[t] \in {NoOp, Load} /\ \A u \in Callers \ {t} : op'[u] = op[u]
    BY <1>6, ThrowLeaves DEF OverlappingFileLock, TypeOK
  <2>2. QED
    BY <1>6, <2>1, Placed, AuthAssumption
       DEF TypeOK, Locked, InStorage, InTable, Inside, Writing, StorageOf, ProcessOf,
           SameProcess, NoOp, Load, history, OverlappingFileLock, TakeStorageLock, At
<1>7. ASSUME NEW t \in Callers, LoadUnlocked(t) PROVE Locked'
  BY <1>7, StayingKeepsLocked, Zenon DEF LoadUnlocked, Inside, Writing
<1>8. ASSUME NEW t \in Callers, Leave(t) PROVE Locked'
  BY <1>8, ClosingKeepsLocked
<1>9. ASSUME NEW t \in Callers, Change(t) PROVE Locked'
  BY <1>9, StayingKeepsLocked DEF Change, Inside, history
<1>10. ASSUME NEW t \in Callers, RefreshToken(t) PROVE Locked'
  BY <1>10, StayingKeepsLocked DEF RefreshToken, Asks, Inside, history
<1>11. ASSUME NEW t \in Callers, Unwind(t) PROVE Locked'
  BY <1>11, ClosingKeepsLocked
<1>12. ASSUME NEW t \in Callers, Leaving(t) PROVE Locked'
  BY <1>12, LeavingKeepsLocked
<1>13. ASSUME NEW t \in Callers, Truncate(t) PROVE Locked'
  <2>1. op[t].name \in {"refresh", "change"}
    BY <1>13 DEF Truncate, Locked, Writing
  <2>2. QED
    BY <1>13, <2>1, StayingKeepsLocked DEF Truncate, Inside, history
<1>14. ASSUME Expire PROVE Locked'
  BY <1>14 DEF Locked, StorageOf, ProcessOf, SameProcess, locks, history, Expire
<1>15. ASSUME NEW q \in Processes, Crash(q) PROVE Locked'
  <2> DEFINE dead == {s \in Storages : layout.process[s] = q}
             died == {t \in Callers : StorageOf(t) \in dead}
  <2>1. \A t \in Callers : /\ StorageOf(t) \in Storages /\ StorageOf(t)' = StorageOf(t)
                           /\ ProcessOf(t) \in Processes /\ ProcessOf(t)' = ProcessOf(t)
    BY <1>15, Placed DEF Crash, StorageOf, ProcessOf
  <2>2. \A t \in Callers :
          /\ t \in died => pc'[t] = "idle" /\ op'[t] = NoOp
          /\ t \notin died => pc'[t] = pc[t] /\ op'[t] = op[t]
    BY <1>15 DEF Crash
  <2>3. \A t \in Callers : t \notin died =>
          /\ storageLock'[StorageOf(t)] = storageLock[StorageOf(t)]
          /\ lockTable'[ProcessOf(t)] = lockTable[ProcessOf(t)]
    BY <1>15, <2>1 DEF Crash, ProcessOf, TypeOK
  <2>4. fileLock' = (IF fileLock \in died THEN NoCaller ELSE fileLock)
    BY <1>15 DEF Crash
  <2>5. UNCHANGED <<layout, dropped>>
    BY <1>15 DEF Crash
  <2> HIDE DEF dead, died
  <2>6. \A t \in Callers :
          /\ pc'[t] \in InStorage => storageLock'[StorageOf(t)] = t
          /\ pc'[t] \in InTable => lockTable'[ProcessOf(t)] = t
          /\ ~dropped /\ pc'[t] \in Inside => fileLock' = t
    BY <2>2, <2>3, <2>4 DEF Locked, InStorage, InTable, Inside
  <2>7. fileLock' # NoCaller => pc'[fileLock'] \in Inside
    BY <2>2, <2>4 DEF Locked, TypeOK
  <2>8. dropped' => \E s, r \in Storages : s # r /\ SameProcess(s, r)'
    BY <2>5 DEF Locked, SameProcess
  <2>9. \A u \in Callers :
       /\ op'[u].name = "refresh" => op'[u].provider \in OAuth
       /\ pc'[u] \in Writing => op'[u].name \in {"refresh", "change"}
       /\ pc'[u] \in {"storage"} \cup InTable =>
            op'[u].name \in {"load", "refresh", "change"}
       /\ pc'[u] \in {"idle", "close"} => op'[u] = NoOp
       /\ pc'[u] = "unwind" => op'[u] \in {NoOp, Load}
    BY <2>2 DEF Locked, NoOp, Writing, InTable, Inside
  <2>10. QED
    BY <2>1, <2>5, <2>6, <2>7, <2>8, <2>9 DEF Locked
<1>16. CASE UNCHANGED vars
  BY <1>16 DEF Locked, StorageOf, ProcessOf, SameProcess, locks, history, vars
<1>17. QED
  BY <1>1, <1>2, <1>3, <1>4, <1>5, <1>6, <1>7, <1>8, <1>9, <1>10, <1>11, <1>12,
     <1>13, <1>14, <1>15, <1>16 DEF Next, Proceed, Leaving

(* A step that neither reads nor writes the file, and leaves alone the     *)
(* memory of the storages that are decided for.                            *)
LEMMA CopiesKept ==
  ASSUME TypeOK, Copies, UNCHANGED <<file, saved, layout>>,
         Trusted' => Trusted,
         \A t \in Callers : Trusted' /\ pc'[t] \in {"decide"} \cup Writing =>
           /\ pc'[t] \in Writing <=> pc[t] \in Writing
           /\ pc'[t] = "decide" <=> pc[t] = "decide"
           /\ authByProvider'[StorageOf(t)] = authByProvider[StorageOf(t)]
  PROVE  Copies'
<1>1. \A t \in Callers : StorageOf(t)' = StorageOf(t)
  BY DEF StorageOf
<1>2. ASSUME Trusted', NEW t \in Callers
      PROVE  /\ pc'[t] = "decide" => authByProvider'[StorageOf(t)'] = saved'
             /\ pc'[t] \in Writing => OneApart(authByProvider[StorageOf(t)], saved)'
  <2>1. CASE pc'[t] = "decide"
    BY <1>1, <1>2, <2>1 DEF Copies, Writing
  <2>2. CASE pc'[t] \in Writing
    BY <1>1, <1>2, <2>2 DEF Copies, Writing, OneApart
  <2>3. QED
    BY <2>1, <2>2
<1>3. QED
  BY <1>2 DEF Copies, Nothing

(* A step that does not load can only lose the trust.                      *)
LEMMA TrustedBefore ==
  ASSUME UNCHANGED <<layout, blind>>, dropped => dropped', faulted => faulted', Trusted'
  PROVE  Trusted
BY ExcludedBefore DEF Trusted

(* put() in the memory of the one who decides.                             *)
LEMMA PutKeepsCopies ==
  ASSUME TypeOK, Locked, Copies, NEW t \in Callers, op[t].provider \in Providers,
         NEW c \in Nat, Put(t, c), UNCHANGED <<file, saved, layout, dropped, faulted, blind>>,
         pc[t] = "decide", pc' = [pc EXCEPT ![t] = "truncate"]
  PROVE  Copies'
<1> SUFFICES ASSUME Trusted'
             PROVE  \A u \in Callers :
                      /\ pc'[u] = "decide" => authByProvider'[StorageOf(u)'] = saved'
                      /\ pc'[u] \in Writing =>
                           OneApart(authByProvider[StorageOf(u)], saved)'
  BY DEF Copies, Nothing
<1>1. Trusted /\ LockExcludes
  BY TrustedBefore DEF Trusted
<1>2. \A u \in Callers \ {t} : pc[u] \notin Inside
  BY <1>1, Alone DEF Inside
<1>3. \A u \in Callers : pc'[u] \in {"decide"} \cup Writing => u = t
  BY <1>2 DEF TypeOK, Inside, Writing
<1>4. pc'[t] = "truncate" /\ StorageOf(t)' = StorageOf(t) /\ StorageOf(t) \in Storages
  BY Placed DEF TypeOK, StorageOf
<1>5. authByProvider[StorageOf(t)] = saved /\ saved \in [Providers -> Nat]
  BY <1>1 DEF Copies, TypeOK, Contents
<1>6. authByProvider'[StorageOf(t)] = [saved EXCEPT ![op[t].provider] = c]
  BY <1>5, PutOne
<1>7. OneApart(authByProvider[StorageOf(t)], saved)'
  BY <1>4, <1>5, <1>6 DEF OneApart
<1>8. QED
  BY <1>3, <1>4, <1>7

(* Every step keeps Copies: no other caller can change the file, or this   *)
(* storage's copy of it, between a load and the decision.                  *)
LEMMA CopiesStep ==
  ASSUME TypeOK, Locked, Copies, Distinct, Honest, [Next]_vars
  PROVE  Copies'
<1>1. ASSUME NEW t \in Callers, Construct(t) PROVE Copies'
  BY <1>1, TrustedBefore, CopiesKept DEF TypeOK, Writing, history, Construct, Call, At
<1>2. ASSUME NEW t \in Callers, GetOAuthAccessToken(t) PROVE Copies'
  BY <1>2, TrustedBefore, CopiesKept
     DEF TypeOK, Writing, history, GetOAuthAccessToken, Call, At
<1>3. ASSUME NEW t \in Callers, PersistProviderChange(t) PROVE Copies'
  <2>1. /\ UNCHANGED <<file, saved, layout, authByProvider, blind, faulted, dropped>>
        /\ pc' = [pc EXCEPT ![t] = "storage"] /\ pc[t] = "idle"
    BY <1>3 DEF history, PersistProviderChange, Call, At
  <2>2. QED
    BY <2>1, TrustedBefore, CopiesKept DEF TypeOK, Writing
<1>4. ASSUME NEW t \in Callers, EnterTable(t) PROVE Copies'
  BY <1>4, TrustedBefore, CopiesKept
     DEF TypeOK, Writing, history, EnterTable, TakeStorageLock, At
<1>5. ASSUME NEW t \in Callers, TakeFileLock(t) PROVE Copies'
  BY <1>5, TrustedBefore, CopiesKept DEF TypeOK, Writing, history, TakeFileLock, At
<1>6. ASSUME NEW t \in Callers, OverlappingFileLock(t) PROVE Copies'
  BY <1>6, TrustedBefore, CopiesKept
     DEF TypeOK, Writing, history, OverlappingFileLock, TakeStorageLock, At
<1>7. ASSUME NEW t \in Callers, LoadUnlocked(t) PROVE Copies'
  <2>1. /\ UNCHANGED <<file, saved, layout, dropped, faulted>>
        /\ pc[t] = "load" /\ pc' = [pc EXCEPT ![t] = "decide"]
        /\ blind' = (file \in {Missing, Unreadable})
    BY <1>7 DEF LoadUnlocked, At
  <2> SUFFICES ASSUME Trusted'
               PROVE  \A u \in Callers :
                        /\ pc'[u] = "decide" => authByProvider'[StorageOf(u)'] = saved'
                        /\ pc'[u] \in Writing =>
                             OneApart(authByProvider[StorageOf(u)], saved)'
    BY <2>1 DEF Copies, Nothing
  <2>2. LockExcludes
    BY <2>1, ExcludedBefore DEF Trusted
  <2>3. \A u \in Callers \ {t} : pc[u] \notin Inside
    BY <2>1, <2>2, Alone DEF Inside
  <2>4. \A u \in Callers : pc'[u] \in {"decide"} \cup Writing => u = t
    BY <2>1, <2>3 DEF TypeOK, Inside, Writing
  <2>5. pc'[t] = "decide" /\ StorageOf(t)' = StorageOf(t) /\ StorageOf(t) \in Storages
    BY <2>1, Placed DEF TypeOK, StorageOf
  <2>6. authByProvider'[StorageOf(t)] = saved
    <3>1. CASE file \in {Missing, Unreadable}
      <4>1. ~faulted /\ UNCHANGED authByProvider
        <5>1. blind' /\ faulted' = faulted
          BY <2>1, <3>1
        <5>2. ~faulted
          BY <5>1, Zenon DEF Trusted
        <5>3. QED
          BY <1>7, <3>1, <5>2 DEF LoadUnlocked
      <4>2. \A u \in Callers : pc[u] \notin Writing
        BY <2>1, <2>3 DEF Inside, Writing
      <4>3. file = Missing
        BY <2>2, <3>1, <4>1, <4>2 DEF Honest, Writing
      <4>4. saved = Nothing /\ authByProvider[StorageOf(t)] = Nothing
        BY <2>2, <2>5, <4>1, <4>2, <4>3 DEF Honest, Copies
      <4>5. QED
        BY <4>1, <4>4
    <3>2. CASE file \notin {Missing, Unreadable}
      BY <1>7, <2>5, <3>2 DEF LoadUnlocked, Copies, TypeOK
    <3>3. QED
      BY <3>1, <3>2
  <2>7. QED
    BY <2>1, <2>4, <2>5, <2>6 DEF Writing
<1>8. ASSUME NEW t \in Callers, Leave(t) PROVE Copies'
  <2>1. /\ UNCHANGED <<file, saved, layout, authByProvider, blind, faulted>>
        /\ dropped => dropped'
        /\ pc' = [pc EXCEPT ![t] = "idle"] /\ pc[t] = "close"
    BY <1>8 DEF Leave, CloseChannel, At
  <2>2. QED
    BY <2>1, TrustedBefore, CopiesKept DEF TypeOK, Writing
<1>9. ASSUME NEW t \in Callers, Change(t) PROVE Copies'
  <2>1. /\ UNCHANGED <<file, saved, layout, op>> /\ Put(t, op[t].credential)
        /\ pc[t] = "decide" /\ pc' = [pc EXCEPT ![t] = "truncate"]
        /\ op[t].name = "change" /\ UNCHANGED <<dropped, faulted, blind>>
    BY <1>9 DEF Change, At, history
  <2>2. QED
    BY <2>1, PutKeepsCopies, OpHasProvider
<1>10. ASSUME NEW t \in Callers, RefreshToken(t) PROVE Copies'
  <2>1. PICK n \in Nat : n = issued + 1
    BY DEF TypeOK
  <2>2. /\ UNCHANGED <<file, saved, layout, op>> /\ Put(t, n)
        /\ pc[t] = "decide" /\ pc' = [pc EXCEPT ![t] = "truncate"]
        /\ op[t].name = "refresh" /\ UNCHANGED <<dropped, faulted, blind>>
    BY <1>10, <2>1 DEF RefreshToken, Asks, At, history
  <2>3. QED
    BY <2>2, PutKeepsCopies, OpHasProvider
<1>11. ASSUME NEW t \in Callers, Unwind(t) PROVE Copies'
  <2>1. /\ UNCHANGED <<file, saved, layout, authByProvider, blind, faulted>>
        /\ dropped => dropped'
        /\ pc' = [pc EXCEPT ![t] = IF op[t] = Load THEN "storage" ELSE "idle"]
        /\ pc[t] = "unwind"
    BY <1>11 DEF Unwind, CloseChannel, At
  <2>2. pc'[t] \in {"idle", "storage"} /\ \A u \in Callers \ {t} : pc'[u] = pc[u]
    BY <2>1 DEF TypeOK
  <2>3. QED
    BY <2>1, <2>2, TrustedBefore, CopiesKept DEF Writing
<1>12. ASSUME NEW t \in Callers, Leaving(t) PROVE Copies'
  <2>1. /\ pc[t] \in Inside /\ UNCHANGED <<layout, dropped>>
        /\ pc'[t] \in {"close", "unwind"}
        /\ \A u \in Callers \ {t} : pc'[u] = pc[u]
    BY <1>12, LeavesTheBlock, LeftAlone
  <2>2. Trusted' => \A u \in Callers : pc'[u] \notin {"decide"} \cup Writing
    <3> SUFFICES ASSUME Trusted', NEW u \in Callers
                 PROVE  pc'[u] \notin {"decide"} \cup Writing
      OBVIOUS
    <3>1. LockExcludes
      BY <2>1, ExcludedBefore DEF Trusted
    <3>2. QED
      BY <2>1, <3>1, Alone DEF Inside, Writing
  <2>3. /\ file' \in {saved', Missing, Unreadable}
        /\ file' = Missing => saved' = Nothing
    <3>1. CASE Write(t)
      BY <3>1, Placed, AuthAssumption DEF Write, TypeOK, Contents
    <3>2. CASE UNCHANGED <<file, saved>>
      BY <3>2 DEF Copies
    <3>3. QED
      BY <1>12, <3>1, <3>2 DEF Leaving, Return, RefreshFails, RefreshAnswerLost, WriteFails
  <2>4. QED
    BY <2>2, <2>3 DEF Copies, Nothing
<1>13. ASSUME NEW t \in Callers, Truncate(t) PROVE Copies'
  <2>1. /\ UNCHANGED <<saved, layout, authByProvider, blind, faulted, dropped>>
        /\ file' = Unreadable
        /\ pc[t] = "truncate" /\ pc' = [pc EXCEPT ![t] = "write"]
    BY <1>13 DEF Truncate, At, history
  <2>2. \A u \in Callers : pc'[u] = "decide" <=> pc[u] = "decide"
    BY <2>1 DEF TypeOK
  <2>3. \A u \in Callers : pc'[u] \in Writing <=> pc[u] \in Writing
    BY <2>1 DEF TypeOK, Writing
  <2>4. \A u \in Callers : StorageOf(u)' = StorageOf(u)
    BY <2>1 DEF StorageOf
  <2>5. Trusted' => Trusted
    BY <2>1, TrustedBefore
  <2>6. QED
    BY <2>1, <2>2, <2>3, <2>4, <2>5, AuthAssumption DEF Copies, OneApart
<1>14. ASSUME Expire PROVE Copies'
  BY <1>14, TrustedBefore, CopiesKept DEF history, Expire
<1>15. ASSUME NEW q \in Processes, Crash(q) PROVE Copies'
  <2>1. /\ UNCHANGED <<file, saved, layout, blind, dropped>>
        /\ faulted => faulted'
    BY <1>15 DEF Crash
  <2>2. \A t \in Callers : pc'[t] # "idle" =>
          pc'[t] = pc[t] /\ authByProvider'[StorageOf(t)] = authByProvider[StorageOf(t)]
    BY <1>15, Placed DEF Crash
  <2>3. QED
    BY <2>1, <2>2, TrustedBefore, CopiesKept DEF Writing
<1>16. CASE UNCHANGED vars
  BY <1>16, TrustedBefore, CopiesKept DEF history, vars
<1>17. QED
  BY <1>1, <1>2, <1>3, <1>4, <1>5, <1>6, <1>7, <1>8, <1>9, <1>10, <1>11, <1>12,
     <1>13, <1>14, <1>15, <1>16 DEF Next, Proceed, Leaving

(* The changes of those that wait for their turn are not touched by one    *)
(* that leaves or closes.                                                  *)
LEMMA PendingAlone ==
  ASSUME TypeOK, Locked, NEW t \in Callers, Leaving(t) \/ Leave(t) \/ Unwind(t)
  PROVE  \A u \in Callers : Pending(u)' => Pending(u) /\ op'[u] = op[u]
<1>1. CASE Leaving(t)
  BY <1>1, LeavesTheBlock, LeftAlone DEF Pending
<1>2. CASE Leave(t)
  BY <1>2 DEF Leave, At, Pending, TypeOK
<1>3. CASE Unwind(t)
  <2>1. op' = op /\ op[t] \in {NoOp, Load} /\ \A u \in Callers \ {t} : pc'[u] = pc[u]
    BY <1>3 DEF Unwind, At, TypeOK, Locked
  <2>2. QED
    BY <2>1 DEF Pending, NoOp, Load
<1>4. QED
  BY <1>1, <1>2, <1>3

(* Every step keeps Distinct: a credential that is stored is a new one or  *)
(* a pending one, which leaves its change at that moment.                  *)
LEMMA DistinctStep ==
  ASSUME TypeOK, Locked, Copies, Distinct, [Next]_vars
  PROVE  Distinct'
<1>1. ASSUME NEW t \in Callers, Construct(t) PROVE Distinct'
  BY <1>1
     DEF Locked, Distinct, Pending, NoOp, Load, server, history, Construct,
         Call, At
<1>2. ASSUME NEW t \in Callers, GetOAuthAccessToken(t) PROVE Distinct'
  BY <1>2
     DEF Locked, Distinct, Pending, NoOp, server, history, GetOAuthAccessToken,
         Call, At, Op
<1>3. ASSUME NEW t \in Callers, PersistProviderChange(t) PROVE Distinct'
  <2>1. PICK n \in Nat :
           /\ n = issued + 1 /\ issued <= n /\ n # 0
           /\ live \subseteq 1..n /\ expired \subseteq 1..n /\ n \in 1..n
           /\ \A p \in Providers : saved[p] # n /\ saved[p] <= n
           /\ \A s \in Storages, p \in Providers :
                authByProvider[s][p] # n /\ authByProvider[s][p] <= n
           /\ \A u \in Callers : Pending(u) =>
                op[u].credential # n /\ op[u].credential <= n
    BY NextIsNew
  <2>2. /\ UNCHANGED <<saved, authByProvider, expired>>
        /\ \A u \in Callers \ {t} : op'[u] = op[u] /\ (Pending(u)' <=> Pending(u))
    BY <1>3
       DEF PersistProviderChange, Call, At, Pending, TypeOK, history, server
  <2>3. CASE op'[t].credential = 0 /\ UNCHANGED <<live, issued>>
    BY <2>2, <2>3 DEF Distinct, Injective
  <2>4. CASE op'[t].credential = n /\ issued' = n /\ live' \subseteq live \cup {n}
    <3>1. live' \subseteq 1..n /\ expired' \subseteq 1..n
      BY <2>1, <2>2, <2>4
    <3>2. \A u \in Callers : Pending(u)' /\ op'[u].credential # 0 =>
            /\ op'[u].credential <= n
            /\ \A p \in Providers : saved[p] # op'[u].credential
            /\ \A s \in Storages, p \in Providers :
                 authByProvider[s][p] # op'[u].credential
            /\ \A v \in Callers : v # u /\ Pending(v)' =>
                 op'[v].credential # op'[u].credential
      BY <2>1, <2>2, <2>4 DEF Distinct
    <3>3. Injective(saved)' /\ \A s \in Storages : Injective(authByProvider[s])'
      BY <2>2 DEF Distinct, Injective
    <3>4. QED
      BY <2>1, <2>2, <2>4, <3>1, <3>2, <3>3 DEF Distinct
  <2>5. \/ op'[t].credential = 0 /\ UNCHANGED <<live, issued>>
        \/ op'[t].credential = n /\ issued' = n /\ live' \subseteq live \cup {n}
    BY <1>3, <2>1 DEF PersistProviderChange, Call, Op, TypeOK, server
  <2>6. QED
    BY <2>3, <2>4, <2>5
<1>4. ASSUME NEW t \in Callers, EnterTable(t) PROVE Distinct'
  BY <1>4 DEF Distinct, Pending, server, history, EnterTable, TakeStorageLock, At
<1>5. ASSUME NEW t \in Callers, TakeFileLock(t) PROVE Distinct'
  BY <1>5 DEF Distinct, Pending, server, history, TakeFileLock, At
<1>6. ASSUME NEW t \in Callers, OverlappingFileLock(t) PROVE Distinct'
  <2>1. UNCHANGED <<live, expired, issued, saved, authByProvider>>
    BY <1>6 DEF OverlappingFileLock, TakeStorageLock, server, history
  <2>2. \A u \in Callers : Pending(u)' => Pending(u) /\ op'[u] = op[u]
    BY <1>6, ThrowLeaves DEF OverlappingFileLock, At, Pending, TypeOK
  <2>3. issued \in Nat /\ issued <= issued
    BY DEF TypeOK
  <2>4. live' \subseteq 1..issued /\ expired' \subseteq 1..issued
    BY <2>1 DEF Distinct
  <2>5. QED
    BY <2>1, <2>2, <2>3, <2>4, DistinctKept
<1>7. ASSUME NEW t \in Callers, LoadUnlocked(t) PROVE Distinct'
  <2>1. UNCHANGED <<live, expired, issued, saved, op>>
    BY <1>7 DEF LoadUnlocked, server
  <2>2. \A s \in Storages : authByProvider'[s] = authByProvider[s] \/ authByProvider'[s] = saved
    BY <1>7 DEF LoadUnlocked, Copies, TypeOK
  <2>3. \A u \in Callers : Pending(u)' <=> Pending(u)
    BY <1>7 DEF LoadUnlocked, At, Pending, TypeOK
  <2>4. \A s \in Storages : Injective(authByProvider'[s])
    BY <2>2 DEF Distinct
  <2>5. \A s \in Storages, p \in Providers : authByProvider'[s][p] <= issued
    BY <2>2 DEF Distinct
  <2>6. \A u \in Callers : Pending(u) /\ op[u].credential # 0 =>
          \A s \in Storages, p \in Providers :
            authByProvider'[s][p] # op[u].credential
    BY <2>2 DEF Distinct
  <2>7. Injective(saved)' /\ \A s \in Storages : Injective(authByProvider[s])'
    BY <2>1, <2>4 DEF Distinct, Injective
  <2>8. QED
    BY <2>1, <2>3, <2>5, <2>6, <2>7 DEF Distinct
<1>8. ASSUME NEW t \in Callers, Leave(t) PROVE Distinct'
  <2>1. UNCHANGED <<live, expired, issued, saved, authByProvider>>
    BY <1>8 DEF Leave, CloseChannel, server
  <2>2. \A u \in Callers : Pending(u)' => Pending(u) /\ op'[u] = op[u]
    BY <1>8, PendingAlone
  <2>3. issued \in Nat /\ issued <= issued
    BY DEF TypeOK
  <2>4. live' \subseteq 1..issued /\ expired' \subseteq 1..issued
    BY <2>1 DEF Distinct
  <2>5. QED
    BY <2>1, <2>2, <2>3, <2>4, DistinctKept
<1>9. ASSUME NEW t \in Callers, Change(t) PROVE Distinct'
  BY <1>9
     DEF TypeOK, Distinct, Injective, Pending, server, history, Change, Put, At
<1>10. ASSUME NEW t \in Callers, RefreshToken(t) PROVE Distinct'
  <2>1. PICK n \in Nat :
           /\ n = issued + 1 /\ issued <= n /\ n # 0
           /\ live \subseteq 1..n /\ expired \subseteq 1..n /\ n \in 1..n
           /\ \A p \in Providers : saved[p] # n /\ saved[p] <= n
           /\ \A s \in Storages, p \in Providers :
                authByProvider[s][p] # n /\ authByProvider[s][p] <= n
           /\ \A u \in Callers : Pending(u) =>
                op[u].credential # n /\ op[u].credential <= n
    BY NextIsNew
  <2>2. /\ issued' = n /\ live' \subseteq 1..n /\ expired' \subseteq 1..n
        /\ UNCHANGED <<saved, op>> /\ Put(t, n) /\ op[t].name = "refresh"
    BY <1>10, <2>1 DEF RefreshToken, Rotate, Asks, history
  <2>3. PICK p \in Providers :
          /\ authByProvider'[StorageOf(t)] = [authByProvider[StorageOf(t)] EXCEPT ![p] = n]
          /\ \A s \in Storages \ {StorageOf(t)} : authByProvider'[s] = authByProvider[s]
    BY <2>2, PutOne, OpHasProvider
  <2>4. \A s \in Storages, q \in Providers :
          authByProvider'[s][q] = n \/ authByProvider'[s][q] = authByProvider[s][q]
    BY <2>3 DEF TypeOK, Contents
  <2>5. \A u \in Callers : Pending(u)' => Pending(u)
    BY <1>10 DEF RefreshToken, At, Pending, TypeOK
  <2>6. \A s \in Storages, q \in Providers : authByProvider'[s][q] <= n
    BY <2>1, <2>4
  <2>7. \A s \in Storages : Injective(authByProvider'[s])
    <3> SUFFICES ASSUME NEW s \in Storages PROVE Injective(authByProvider'[s])
      OBVIOUS
    <3>1. Injective(authByProvider[s]) /\ authByProvider[s] \in [Providers -> Nat]
      BY DEF Distinct, TypeOK, Contents
    <3>2. CASE authByProvider'[s] = authByProvider[s]
      BY <3>1, <3>2
    <3>3. CASE authByProvider'[s] = [authByProvider[s] EXCEPT ![p] = n]
      BY <2>1, <3>1, <3>3 DEF Injective
    <3>4. QED
      BY <2>3, <3>2, <3>3
  <2>8. \A u \in Callers : Pending(u) /\ op[u].credential # 0 =>
          \A s \in Storages, q \in Providers :
            authByProvider'[s][q] # op[u].credential
    BY <2>1, <2>4 DEF Distinct
  <2>9. Injective(saved)' /\ \A s \in Storages : Injective(authByProvider[s])'
    BY <2>2, <2>7 DEF Distinct, Injective
  <2>10. QED
    BY <2>1, <2>2, <2>5, <2>6, <2>8, <2>9 DEF Distinct
<1>11. ASSUME NEW t \in Callers, Unwind(t) PROVE Distinct'
  <2>1. UNCHANGED <<live, expired, issued, saved, authByProvider>>
    BY <1>11 DEF Unwind, CloseChannel, server
  <2>2. \A u \in Callers : Pending(u)' => Pending(u) /\ op'[u] = op[u]
    BY <1>11, PendingAlone
  <2>3. issued \in Nat /\ issued <= issued
    BY DEF TypeOK
  <2>4. live' \subseteq 1..issued /\ expired' \subseteq 1..issued
    BY <2>1 DEF Distinct
  <2>5. QED
    BY <2>1, <2>2, <2>3, <2>4, DistinctKept
<1>12. ASSUME NEW t \in Callers, Leaving(t) PROVE Distinct'
  <2>1. \A u \in Callers : Pending(u)' => Pending(u) /\ op'[u] = op[u]
    BY <1>12, PendingAlone
  <2>2. CASE RefreshAnswerLost(t)
    <3>1. PICK n \in Nat :
            /\ n = issued + 1 /\ issued <= n
            /\ live \subseteq 1..n /\ expired \subseteq 1..n /\ n \in 1..n
      BY NextIsNew
    <3>2. issued' = n /\ live' \subseteq 1..n /\ expired' \subseteq 1..n
      BY <2>2, <3>1 DEF RefreshAnswerLost, Rotate
    <3>3. UNCHANGED <<saved, authByProvider>>
      BY <2>2 DEF RefreshAnswerLost
    <3>4. QED
      BY <2>1, <3>1, <3>2, <3>3, DistinctKept
  <2>3. CASE Write(t)
    <3>1. /\ UNCHANGED <<live, expired, issued, authByProvider>>
          /\ saved' = authByProvider[StorageOf(t)] /\ StorageOf(t) \in Storages
      BY <2>3, Placed DEF Write, server
    <3>2. \A p \in Providers : saved'[p] <= issued
      BY <3>1 DEF Distinct
    <3>3. Injective(saved)' /\ \A s \in Storages : Injective(authByProvider[s])'
      BY <3>1 DEF Distinct, Injective
    <3>4. \A u \in Callers : Pending(u)' /\ op'[u].credential # 0 =>
            /\ op'[u].credential <= issued
            /\ \A p \in Providers : saved'[p] # op'[u].credential
            /\ \A s \in Storages, p \in Providers :
                 authByProvider[s][p] # op'[u].credential
            /\ \A v \in Callers : v # u /\ Pending(v)' =>
                 op'[v].credential # op'[u].credential
      BY <2>1, <3>1 DEF Distinct
    <3>5. QED
      BY <3>1, <3>2, <3>3, <3>4 DEF Distinct
  <2>4. CASE UNCHANGED <<live, expired, issued, saved, authByProvider>>
    <3>1. issued \in Nat /\ issued <= issued
      BY DEF TypeOK
    <3>2. live' \subseteq 1..issued /\ expired' \subseteq 1..issued
      BY <2>4 DEF Distinct
    <3>3. QED
      BY <2>1, <2>4, <3>1, <3>2, DistinctKept
  <2>5. QED
    BY <1>12, <2>2, <2>3, <2>4 DEF Leaving, Return, RefreshFails, WriteFails, server
<1>13. ASSUME NEW t \in Callers, Truncate(t) PROVE Distinct'
  BY <1>13 DEF Distinct, Pending, server, history, Truncate, At
<1>14. ASSUME Expire PROVE Distinct'
  BY <1>14 DEF Distinct, Pending, history, Expire
<1>15. ASSUME NEW q \in Processes, Crash(q) PROVE Distinct'
  BY <1>15 DEF TypeOK, Distinct, Injective, Pending, Nothing, server, Crash
<1>16. CASE UNCHANGED vars
  BY <1>16 DEF Distinct, Pending, server, history, vars
<1>17. QED
  BY <1>1, <1>2, <1>3, <1>4, <1>5, <1>6, <1>7, <1>8, <1>9, <1>10, <1>11, <1>12,
     <1>13, <1>14, <1>15, <1>16 DEF Next, Proceed, Leaving

(* put() in the memory of the one who decides: what it is about to write   *)
(* would be accepted, if the new credential is and none of the others is   *)
(* retired.                                                                *)
LEMMA PutKeepsHonest ==
  ASSUME TypeOK, Locked, Copies, Honest, NEW t \in Callers,
         op[t].provider \in Providers, NEW c \in Nat, Put(t, c),
         UNCHANGED <<file, saved, layout, faulted, dropped, op>>,
         pc[t] = "decide", pc' = [pc EXCEPT ![t] = "truncate"],
         ~faulted /\ LockExcludes =>
           /\ op[t].provider \in OAuth => c \in live' \cup {0}
           /\ \A q \in OAuth \ {op[t].provider} : saved[q] \in live => saved[q] \in live'
           /\ \A u \in Callers \ {t} : Pending(u) /\ op[u].credential \in live =>
                op[u].credential \in live'
  PROVE  Honest'
<1> SUFFICES ASSUME ~faulted', LockExcludes' PROVE Honest'
  BY DEF Honest
<1>1. ~faulted /\ LockExcludes /\ Trusted
  BY ExcludedBefore DEF Trusted
<1>2. \A u \in Callers \ {t} : pc[u] \notin Inside
  BY <1>1, Alone DEF Inside
<1>3. \A u \in Callers \ {t} : pc'[u] = pc[u] /\ pc[u] \notin Writing
  BY <1>2 DEF TypeOK, Inside, Writing
<1>4. /\ pc'[t] = "truncate" /\ StorageOf(t) \in Storages
      /\ \A u \in Callers : StorageOf(u)' = StorageOf(u)
  BY Placed DEF TypeOK, StorageOf
<1>5. authByProvider[StorageOf(t)] = saved /\ saved \in [Providers -> Nat]
  BY <1>1 DEF Copies, TypeOK, Contents
<1>6. authByProvider'[StorageOf(t)] = [saved EXCEPT ![op[t].provider] = c]
  BY <1>5, PutOne
<1>7. \A u \in Callers : pc[u] \notin Writing
  BY <1>3 DEF Writing
<1>8. LiveOrNone(saved)
  BY <1>1, <1>7 DEF Honest
<1>9. LiveOrNone(authByProvider[StorageOf(t)])'
  BY <1>1, <1>4, <1>5, <1>6, <1>8, AuthAssumption DEF LiveOrNone
<1>10. \A u \in Callers : Pending(u)' /\ op'[u].provider \in OAuth =>
         op'[u].credential \in live' \cup {0}
  BY <1>1, <1>3, <1>4 DEF Honest, Pending
<1>11. file' = Missing =>
        \A s \in Storages :
          (\A u \in Callers : StorageOf(u)' = s => pc'[u] \notin Writing) =>
            authByProvider'[s] = Nothing
  <2> SUFFICES ASSUME file' = Missing, NEW s \in Storages,
                      \A u \in Callers : StorageOf(u)' = s => pc'[u] \notin Writing
               PROVE  authByProvider'[s] = Nothing
    OBVIOUS
  <2>1. s # StorageOf(t)
    BY <1>4 DEF Writing
  <2>2. authByProvider[s] = Nothing
    BY <1>1, <1>7 DEF Honest
  <2>3. QED
    BY <2>1, <2>2, PutOne
<1>12. file' # Unreadable /\ pc'[t] \in Writing
  BY <1>1, <1>4, <1>7 DEF Honest, Writing
<1>13. \A u \in Callers : pc'[u] \in Writing => LiveOrNone(authByProvider[StorageOf(u)])'
  BY <1>3, <1>9
<1>14. Nothing' = Nothing
  BY DEF Nothing
<1>15. QED
  BY <1>10, <1>11, <1>12, <1>13, <1>14 DEF Honest

(* Every step keeps Honest: the server retires a refresh token only in the *)
(* call whose write replaces it.                                           *)
LEMMA HonestStep ==
  ASSUME TypeOK, Locked, Copies, Distinct, Honest, [Next]_vars
  PROVE  Honest'
<1>1. ASSUME NEW t \in Callers, Construct(t) PROVE Honest'
  <2>1. UNCHANGED <<file, saved, layout, live, faulted, dropped, authByProvider>>
    BY <1>1 DEF Construct, Call, At, server, history
  <2>2. \A u \in Callers : /\ pc'[u] = "write" <=> pc[u] = "write"
                           /\ pc'[u] = "truncate" <=> pc[u] = "truncate"
    BY <1>1 DEF Construct, Call, At, server, history, TypeOK
  <2>3. \A u \in Callers : Pending(u)' => Pending(u) /\ op'[u] = op[u]
    BY <1>1 DEF Construct, Call, At, server, history, Pending, NoOp, Load, TypeOK
  <2>4. QED
    BY <2>1, <2>2, <2>3, HonestKept
<1>2. ASSUME NEW t \in Callers, GetOAuthAccessToken(t) PROVE Honest'
  <2>1. UNCHANGED <<file, saved, layout, live, faulted, dropped, authByProvider>>
    BY <1>2 DEF GetOAuthAccessToken, Call, At, Op, server, history
  <2>2. \A u \in Callers : /\ pc'[u] = "write" <=> pc[u] = "write"
                           /\ pc'[u] = "truncate" <=> pc[u] = "truncate"
    BY <1>2 DEF GetOAuthAccessToken, Call, At, Op, server, history, TypeOK
  <2>3. \A u \in Callers : Pending(u)' => Pending(u) /\ op'[u] = op[u]
    BY <1>2
       DEF GetOAuthAccessToken, Call, At, Op, server, history, Pending, NoOp, Load,
           TypeOK
  <2>4. QED
    BY <2>1, <2>2, <2>3, HonestKept
<1>3. ASSUME NEW t \in Callers, PersistProviderChange(t) PROVE Honest'
  <2>1. /\ UNCHANGED <<file, saved, layout, faulted, dropped, authByProvider>>
        /\ live \subseteq live' /\ pc[t] = "idle" /\ pc' = [pc EXCEPT ![t] = "storage"]
    BY <1>3 DEF PersistProviderChange, Call, At, server, history
  <2>2. /\ op'[t].provider \in OAuth => op'[t].credential \in live' \cup {0}
        /\ \A u \in Callers \ {t} : op'[u] = op[u]
    BY <1>3 DEF PersistProviderChange, Call, Op, TypeOK
  <2>3. \A u \in Callers \ {t} : Pending(u)' => Pending(u) /\ op'[u] = op[u]
    BY <2>1, <2>2 DEF Pending, TypeOK
  <2>4. \A u \in Callers : /\ pc'[u] = "write" <=> pc[u] = "write"
                           /\ pc'[u] = "truncate" <=> pc[u] = "truncate"
    BY <2>1 DEF TypeOK
  <2>5. QED
    BY <2>1, <2>2, <2>3, <2>4, HonestKept
<1>4. ASSUME NEW t \in Callers, EnterTable(t) PROVE Honest'
  <2>1. UNCHANGED <<file, saved, layout, live, faulted, dropped, authByProvider>>
    BY <1>4 DEF EnterTable, TakeStorageLock, At, server, history
  <2>2. \A u \in Callers : /\ pc'[u] = "write" <=> pc[u] = "write"
                           /\ pc'[u] = "truncate" <=> pc[u] = "truncate"
    BY <1>4 DEF EnterTable, TakeStorageLock, At, server, history, TypeOK
  <2>3. \A u \in Callers : Pending(u)' => Pending(u) /\ op'[u] = op[u]
    BY <1>4
       DEF EnterTable, TakeStorageLock, At, server, history, Pending, NoOp, Load, TypeOK
  <2>4. QED
    BY <2>1, <2>2, <2>3, HonestKept
<1>5. ASSUME NEW t \in Callers, TakeFileLock(t) PROVE Honest'
  <2>1. UNCHANGED <<file, saved, layout, live, faulted, dropped, authByProvider>>
    BY <1>5 DEF TakeFileLock, At, server, history
  <2>2. \A u \in Callers : /\ pc'[u] = "write" <=> pc[u] = "write"
                           /\ pc'[u] = "truncate" <=> pc[u] = "truncate"
    BY <1>5 DEF TakeFileLock, At, server, history, TypeOK
  <2>3. \A u \in Callers : Pending(u)' => Pending(u) /\ op'[u] = op[u]
    BY <1>5 DEF TakeFileLock, At, server, history, Pending, NoOp, Load, TypeOK
  <2>4. QED
    BY <2>1, <2>2, <2>3, HonestKept
<1>6. ASSUME NEW t \in Callers, OverlappingFileLock(t) PROVE Honest'
  <2>1. UNCHANGED <<file, saved, layout, live, faulted, dropped, authByProvider>>
    BY <1>6 DEF OverlappingFileLock, TakeStorageLock, At, server, history
  <2>2. \A u \in Callers : /\ pc'[u] = "write" <=> pc[u] = "write"
                           /\ pc'[u] = "truncate" <=> pc[u] = "truncate"
    BY <1>6 DEF OverlappingFileLock, TakeStorageLock, At, server, history, TypeOK
  <2>3. \A u \in Callers : Pending(u)' => Pending(u) /\ op'[u] = op[u]
    BY <1>6, ThrowLeaves
       DEF OverlappingFileLock, TakeStorageLock, At, server, history, Pending, NoOp,
           Load, TypeOK
  <2>4. QED
    BY <2>1, <2>2, <2>3, HonestKept
<1>7. ASSUME NEW t \in Callers, LoadUnlocked(t) PROVE Honest'
  <2>1. /\ UNCHANGED <<file, saved, layout, live, faulted, dropped, op>>
        /\ pc[t] = "load" /\ pc' = [pc EXCEPT ![t] = "decide"]
    BY <1>7 DEF LoadUnlocked, At, server
  <2> SUFFICES ASSUME ~faulted', LockExcludes' PROVE Honest'
    BY DEF Honest
  <2>2. ~faulted /\ LockExcludes
    BY <2>1, ExcludedBefore
  <2>3. \A u \in Callers : pc[u] \notin Writing /\ pc'[u] \notin Writing
    <3>1. \A u \in Callers \ {t} : pc[u] \notin Inside
      BY <2>1, <2>2, Alone DEF Inside
    <3>2. QED
      BY <2>1, <3>1 DEF TypeOK, Inside, Writing
  <2>4. file # Unreadable /\ LiveOrNone(saved)
    BY <2>2, <2>3 DEF Honest, Writing
  <2>5. LiveOrNone(saved)'
    BY <2>1, <2>4 DEF LiveOrNone
  <2>6. \A u \in Callers : Pending(u)' /\ op'[u].provider \in OAuth =>
          op'[u].credential \in live' \cup {0}
    BY <2>1, <2>2 DEF Honest, Pending, TypeOK
  <2>7. file' = Missing => \A s \in Storages : authByProvider'[s] = Nothing
    BY <1>7, <2>2, <2>3 DEF Honest, LoadUnlocked
  <2>8. Nothing' = Nothing
    BY DEF Nothing
  <2>9. QED
    BY <2>1, <2>3, <2>4, <2>5, <2>6, <2>7, <2>8 DEF Honest
<1>8. ASSUME NEW t \in Callers, Leave(t) PROVE Honest'
  <2>1. /\ UNCHANGED <<file, saved, layout, live, faulted, authByProvider>>
        /\ dropped => dropped'
    BY <1>8 DEF Leave, CloseChannel, server
  <2>2. \A u \in Callers : /\ pc'[u] = "write" <=> pc[u] = "write"
                           /\ pc'[u] = "truncate" <=> pc[u] = "truncate"
    BY <1>8 DEF Leave, At, TypeOK
  <2>3. \A u \in Callers : Pending(u)' => Pending(u) /\ op'[u] = op[u]
    BY <1>8, PendingAlone
  <2>4. QED
    BY <2>1, <2>2, <2>3, HonestKept
<1>9. ASSUME NEW t \in Callers, Change(t) PROVE Honest'
  <2>1. /\ UNCHANGED <<file, saved, layout, faulted, dropped, op, live>>
        /\ pc[t] = "decide" /\ pc' = [pc EXCEPT ![t] = "truncate"]
        /\ Put(t, op[t].credential) /\ op[t].name = "change"
    BY <1>9 DEF Change, At, server, history
  <2>2. op[t].provider \in Providers /\ op[t].credential \in Nat
    BY <2>1, OpHasProvider
  <2>3. ~faulted /\ LockExcludes /\ op[t].provider \in OAuth =>
          op[t].credential \in live' \cup {0}
    BY <2>1 DEF Honest, Pending
  <2>4. QED
    BY <2>1, <2>2, <2>3, PutKeepsHonest
<1>10. ASSUME NEW t \in Callers, RefreshToken(t) PROVE Honest'
  <2>1. PICK n \in Nat : n = issued + 1
    BY DEF TypeOK
  <2>2. /\ op[t].name = "refresh" /\ pc[t] = "decide"
        /\ live' = (live \ {Current(t)}) \cup {n}
        /\ pc' = [pc EXCEPT ![t] = "truncate"]
        /\ UNCHANGED <<file, saved, faulted, dropped, op, layout>>
        /\ Put(t, n)
    BY <1>10, <2>1 DEF RefreshToken, Asks, Rotate, At, history
  <2>3. op[t].provider \in OAuth /\ op[t].provider \in Providers
    BY <2>2, AuthAssumption DEF Locked
  <2>4. StorageOf(t) \in Storages /\ Current(t) = authByProvider[StorageOf(t)][op[t].provider]
    BY Placed DEF Current
  (* The retired token is no other provider's, and no pending one's.       *)
  <2>5. ~faulted /\ LockExcludes =>
          \A q \in OAuth \ {op[t].provider} : saved[q] \in live => saved[q] \in live'
    <3> SUFFICES ASSUME ~faulted, LockExcludes, NEW q \in OAuth \ {op[t].provider},
                        saved[q] \in live
                 PROVE  saved[q] \in live'
      OBVIOUS
    <3>1. Current(t) = saved[op[t].provider]
      BY <2>2, <2>4 DEF Copies, Trusted
    <3>2. saved[q] # 0 /\ q \in Providers
      BY AuthAssumption DEF Distinct, TypeOK
    <3>3. saved[q] # saved[op[t].provider]
      BY <2>3, <3>2 DEF Distinct, Injective
    <3>4. QED
      BY <2>2, <3>1, <3>3
  <2>6. \A u \in Callers \ {t} : Pending(u) /\ op[u].credential \in live =>
          op[u].credential \in live'
    <3> SUFFICES ASSUME NEW u \in Callers \ {t}, Pending(u), op[u].credential \in live
                 PROVE  op[u].credential \in live'
      OBVIOUS
    <3>1. op[u].credential # 0
      BY DEF Distinct, TypeOK
    <3>2. op[u].credential # Current(t)
      BY <2>3, <2>4, <3>1 DEF Distinct
    <3>3. QED
      BY <2>2, <3>2
  <2>7. QED
    BY <2>2, <2>3, <2>5, <2>6, PutKeepsHonest
<1>11. ASSUME NEW t \in Callers, Unwind(t) PROVE Honest'
  <2>1. /\ UNCHANGED <<file, saved, layout, live, faulted, authByProvider>>
        /\ dropped => dropped'
    BY <1>11 DEF Unwind, CloseChannel, server
  <2>2. \A u \in Callers : /\ pc'[u] = "write" <=> pc[u] = "write"
                           /\ pc'[u] = "truncate" <=> pc[u] = "truncate"
    BY <1>11 DEF Unwind, At, TypeOK
  <2>3. \A u \in Callers : Pending(u)' => Pending(u) /\ op'[u] = op[u]
    BY <1>11, PendingAlone
  <2>4. QED
    BY <2>1, <2>2, <2>3, HonestKept
<1>12. ASSUME NEW t \in Callers, Leaving(t) PROVE Honest'
  <2>1. /\ pc[t] \in Inside /\ pc'[t] \in {"close", "unwind"}
        /\ \A u \in Callers \ {t} : pc'[u] = pc[u] /\ op'[u] = op[u]
        /\ UNCHANGED <<layout, dropped, authByProvider>>
    BY <1>12, LeavesTheBlock, LeftAlone
  <2>2. \A u \in Callers : Pending(u)' => Pending(u) /\ op'[u] = op[u]
    BY <1>12, PendingAlone
  <2>3. CASE Return(t) \/ RefreshFails(t)
    <3>1. UNCHANGED <<file, saved, live, faulted>> /\ pc[t] = "decide"
      BY <2>3 DEF Return, RefreshFails, Asks, server
    <3>2. \A u \in Callers : /\ pc'[u] = "write" <=> pc[u] = "write"
                             /\ pc'[u] = "truncate" <=> pc[u] = "truncate"
      BY <2>1, <3>1
    <3>3. QED
      BY <2>1, <2>2, <3>1, <3>2, HonestKept
  <2>4. CASE RefreshAnswerLost(t) \/ WriteFails(t)
    BY <2>4 DEF Honest, RefreshAnswerLost, WriteFails
  <2>5. CASE Write(t)
    <3> SUFFICES ASSUME ~faulted', LockExcludes' PROVE Honest'
      BY DEF Honest
    <3>1. /\ file' = authByProvider[StorageOf(t)] /\ saved' = authByProvider[StorageOf(t)]
          /\ pc[t] = "write" /\ UNCHANGED <<live, faulted>>
      BY <2>5 DEF Write, server
    <3>2. ~faulted /\ LockExcludes
      BY <2>1, <3>1, ExcludedBefore
    <3>3. \A u \in Callers : pc'[u] \notin Writing
      BY <2>1, <3>2, Alone DEF Inside, Writing
    <3>4. file' # Unreadable /\ file' # Missing
      BY <3>1, Placed, AuthAssumption DEF TypeOK, Contents
    <3>5. LiveOrNone(saved)'
      BY <3>1, <3>2 DEF Honest, Writing, LiveOrNone
    <3>6. \A u \in Callers : Pending(u)' /\ op'[u].provider \in OAuth =>
            op'[u].credential \in live' \cup {0}
      BY <2>2, <3>1, <3>2 DEF Honest
    <3>7. QED
      BY <3>3, <3>4, <3>5, <3>6 DEF Honest
  <2>6. QED
    BY <1>12, <2>3, <2>4, <2>5 DEF Leaving
<1>13. ASSUME NEW t \in Callers, Truncate(t) PROVE Honest'
  <2>1. /\ UNCHANGED <<saved, layout, authByProvider, faulted, dropped, live, op>>
        /\ file' = Unreadable
        /\ pc[t] = "truncate" /\ pc' = [pc EXCEPT ![t] = "write"]
    BY <1>13 DEF Truncate, At, server, history
  <2> SUFFICES ASSUME ~faulted', LockExcludes' PROVE Honest'
    BY DEF Honest
  <2>2. ~faulted /\ LockExcludes
    BY <2>1, ExcludedBefore
  <2>3. /\ \A u \in Callers : pc'[u] \in Writing <=> pc[u] \in Writing
        /\ pc'[t] = "write" /\ pc[t] \in Writing
        /\ \A u \in Callers : Pending(u)' => Pending(u)
    BY <2>1 DEF TypeOK, Writing, Pending
  <2>4. file' # Missing
    BY <2>1, AuthAssumption
  <2>5. \A u \in Callers : pc'[u] \in Writing => LiveOrNone(authByProvider[StorageOf(u)])'
    BY <2>1, <2>2, <2>3 DEF Honest, LiveOrNone, StorageOf
  <2>6. \A u \in Callers : Pending(u)' /\ op'[u].provider \in OAuth =>
          op'[u].credential \in live' \cup {0}
    BY <2>1, <2>2, <2>3 DEF Honest
  <2>7. QED
    BY <2>3, <2>4, <2>5, <2>6 DEF Honest
<1>14. ASSUME Expire PROVE Honest'
  BY <1>14, HonestKept DEF Expire, history, Pending
<1>15. ASSUME NEW q \in Processes, Crash(q) PROVE Honest'
  <2> DEFINE dead == {s \in Storages : layout.process[s] = q}
             died == {t \in Callers : StorageOf(t) \in dead}
  <2>1. /\ UNCHANGED <<file, saved, layout, live, dropped>>
        /\ faulted' = (faulted \/ \E t \in died : pc[t] \in Writing)
    BY <1>15 DEF Crash, server
  <2>2. \A t \in Callers :
          /\ t \in died => pc'[t] = "idle"
          /\ t \notin died => /\ pc'[t] = pc[t] /\ op'[t] = op[t]
                              /\ StorageOf(t) \notin dead
    BY <1>15 DEF Crash
  <2>3. \A s \in Storages : authByProvider'[s] = IF s \in dead THEN Nothing ELSE authByProvider[s]
    BY <1>15 DEF Crash
  <2>4. \A t \in Callers : StorageOf(t) \in Storages
    BY Placed
  <2> HIDE DEF dead, died
  <2>5. \A u \in Callers : ~faulted' =>
           /\ pc'[u] = "write" <=> pc[u] = "write"
           /\ pc'[u] = "truncate" <=> pc[u] = "truncate"
           /\ pc[u] \in Writing =>
                authByProvider'[StorageOf(u)] = authByProvider[StorageOf(u)]
    BY <2>1, <2>2, <2>3, <2>4 DEF Writing
  <2>6. \A u \in Callers : Pending(u)' => Pending(u) /\ op'[u] = op[u]
    BY <2>2 DEF Pending
  <2>7. QED
    BY <2>1, <2>3, <2>5, <2>6, HonestKept
<1>16. CASE UNCHANGED vars
  BY <1>16, HonestKept DEF vars, server, history, Pending
<1>17. QED
  BY <1>1, <1>2, <1>3, <1>4, <1>5, <1>6, <1>7, <1>8, <1>9, <1>10, <1>11, <1>12,
     <1>13, <1>14, <1>15, <1>16 DEF Next, Proceed, Leaving

-----------------------------------------------------------------------------
(* The five parts hold together in every reachable state.                  *)
THEOREM InductiveInvariant == Spec => []IInv
<1>1. Init => IInv
  <2> SUFFICES ASSUME Init PROVE IInv
    OBVIOUS
  <2>1. TypeOK
    <3>1. Nothing \in Contents
      BY DEF Nothing, Contents
    <3>2. QED
      BY <3>1, Zenon DEF Init, TypeOK, Inside
  <2>2. Locked
    BY DEF Init, Locked, InStorage, InTable, Inside, Writing, NoOp
  <2>3. Copies
    BY DEF Init, Copies, Writing
  <2>4. Distinct
    BY DEF Init, Distinct, Injective, Nothing, NoOp, Pending
  <2>5. Honest
    <3>1. /\ file = Missing /\ saved = Nothing
          /\ \A s \in Storages : authByProvider[s] = Nothing
          /\ \A t \in Callers : pc[t] = "idle"
      BY DEF Init
    <3>2. LiveOrNone(saved)
      BY <3>1, AuthAssumption DEF LiveOrNone, Nothing
    <3>3. \A t \in Callers : ~Pending(t) /\ pc[t] \notin Writing
      BY <3>1 DEF Pending, Writing
    <3>4. QED
      BY <3>1, <3>2, <3>3, AuthAssumption DEF Honest
  <2>6. QED
    BY <2>1, <2>2, <2>3, <2>4, <2>5 DEF IInv
<1>2. IInv /\ [Next]_vars => IInv'
  BY TypeStep, LockedStep, CopiesStep, DistinctStep, HonestStep DEF IInv
<1>3. QED
  BY <1>1, <1>2, PTL DEF Spec

(* The variables keep their types.                                         *)
THEOREM TypeCorrect == Spec => []TypeOK
<1>1. IInv => TypeOK
  BY DEF IInv
<1>2. QED
  BY <1>1, InductiveInvariant, PTL

(* refreshOAuthAccessTokenLocked never offers the server a refresh token   *)
(* that was exchanged before, however many callers, storages and processes *)
(* race for the same file, until a fault loses a token or a close of one   *)
(* of two storages of a process drops the lock that excludes another one.  *)
THEOREM TokensAreSpentOnce == Spec => []RefreshSpendsLiveToken
<1>1. IInv => RefreshSpendsLiveToken
  <2> SUFFICES ASSUME IInv, NEW t \in Callers, Asks(t), ~faulted, LockExcludes
               PROVE  Current(t) \in live
    BY DEF RefreshSpendsLiveToken
  <2>1. op[t].provider \in OAuth
    BY DEF IInv, Locked, Asks
  <2>2. authByProvider[StorageOf(t)] = saved
    BY DEF IInv, Copies, Trusted, Asks
  <2>3. \A u \in Callers : pc[u] \notin Writing
    BY Alone DEF IInv, Asks, Inside, Writing
  <2>4. saved[op[t].provider] \in live \cup {0}
    BY <2>1, <2>3 DEF IInv, Honest, LiveOrNone
  <2>5. 0 \notin expired
    BY DEF IInv, Distinct, TypeOK
  <2>6. QED
    BY <2>2, <2>4, <2>5 DEF Asks, Current
<1>2. QED
  BY <1>1, InductiveInvariant, PTL

(* Between writes, while the lock excludes and nothing has failed, the     *)
(* file is what was saved last, and every OAuth login in it would be       *)
(* accepted: no caller has overwritten a newer token with an older copy.   *)
THEOREM LoginIsKept == Spec => []FileKeepsLogin
<1>1. IInv => FileKeepsLogin
  <2> SUFFICES ASSUME IInv, \A t \in Callers : pc[t] \notin Writing,
                      ~faulted, LockExcludes
               PROVE  /\ saved = IF file = Missing THEN Nothing ELSE file
                      /\ \A p \in OAuth : saved[p] \in live \cup {0}
    BY DEF FileKeepsLogin
  <2>1. file # Unreadable /\ LiveOrNone(saved)
    BY DEF IInv, Honest, Writing
  <2>2. file = saved \/ (file = Missing /\ saved = Nothing)
    BY <2>1 DEF IInv, Copies
  <2>3. saved # Missing
    BY AuthAssumption DEF IInv, TypeOK, Contents
  <2>4. QED
    BY <2>1, <2>2, <2>3 DEF LiveOrNone
<1>2. QED
  BY <1>1, InductiveInvariant, PTL

(* persistProviderChange and a refresh write the whole file from memory,   *)
(* and still change one provider of what was saved before, unless another  *)
(* process was let in or the memory holds what a failed write left there.  *)
THEOREM WritesChangeOneProvider == Spec => OneProviderPerWrite
<1> DEFINE A == (saved' # saved /\ LockExcludes /\ (blind => ~faulted)) =>
                  \E p \in Providers : saved' = [saved EXCEPT ![p] = saved'[p]]
<1>1. IInv /\ [Next]_vars => A
  <2> SUFFICES ASSUME IInv, [Next]_vars, saved' # saved, Trusted
               PROVE  \E p \in Providers : saved' = [saved EXCEPT ![p] = saved'[p]]
    BY DEF Trusted
  <2>1. PICK t \in Callers : Write(t)
    BY DEF Next, Proceed, vars, history, Construct, GetOAuthAccessToken,
           PersistProviderChange, EnterTable, TakeStorageLock, TakeFileLock,
           OverlappingFileLock, LoadUnlocked, Return, Change, RefreshToken, RefreshFails,
           RefreshAnswerLost, Truncate, WriteFails, Leave, Unwind, CloseChannel, Expire,
           Crash
  <2>2. OneApart(authByProvider[StorageOf(t)], saved)
    BY <2>1 DEF IInv, Copies, Write, Writing
  <2>3. PICK p \in Providers : \A q \in Providers \ {p} :
          authByProvider[StorageOf(t)][q] = saved[q]
    BY <2>2 DEF OneApart
  <2>4. saved' = authByProvider[StorageOf(t)] /\ saved' \in Contents /\ saved \in Contents
    BY <2>1, Placed DEF Write, IInv, TypeOK
  <2>5. QED
    BY <2>3, <2>4 DEF Contents
<1>2. QED
  BY <1>1, InductiveInvariant, PTL DEF Spec, OneProviderPerWrite
=============================================================================
