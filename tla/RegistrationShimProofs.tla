------------------------ MODULE RegistrationShimProofs ------------------------
(***************************************************************************)
(* What holds of the registration shim for any number of engines, handler  *)
(* threads and requests.                                                   *)
(***************************************************************************)
EXTENDS RegistrationShim, FiniteSetTheorems, TLAPS

(* The event loop registers urls.                                          *)
ScanInv == thread[Loop].at = "scan" => thread[Loop].ref \in Urls

(* A handle names one url: the url itself, or an id issued for it.         *)
HandleInv ==
  /\ OneHandlePerUrl
  /\ \A w \in workers : IF byUrl THEN w[1] = w[2] ELSE w[1] \in issued

(* A request that has been alone is the only one in progress.              *)
AloneInv == \A t \in Busy : thread[t].alone => Busy = {t}

(* Without a disturbance there is no request that has not been alone.      *)
CalmInv == ~overlapped => \A t \in Busy : thread[t].alone

(* How far a request that has been alone has brought the registry to disk. *)
CarriedInv ==
  \A t \in Busy : thread[t].alone =>
    /\ thread[t].at = "open" => thread[t].urls = Registered
    /\ thread[t].at = "write" =>
         /\ thread[t].urls = Registered /\ thread[t].fd = tmp
         /\ tmp # None /\ inode[tmp] = Blank
    /\ thread[t].at = "replace" => tmp # None /\ inode[tmp] = Registered

(* Without a disturbance the file is readable, and is the registry until a *)
(* request has changed the registry.                                       *)
FileInv ==
  ~overlapped =>
    /\ inode[file] \notin Unreadable
    /\ (\A t \in Busy : thread[t].at \in {"scan", "pop"}) => inode[file] = Registered

IInv == TypeOK /\ ScanInv /\ HandleInv /\ AloneInv /\ CalmInv /\ CarriedInv /\ FileInv /\ tmp # file

-----------------------------------------------------------------------------
(* A dictionary has a size.                                                *)
LEMMA SizeIsNat ==
  ASSUME NEW ws \in SUBSET (Keys \X Urls)
  PROVE  Cardinality(ws) \in Nat
  <1>1. IsFiniteSet(Keys)
    BY ShimAssumption, FS_Union DEF Keys
  <1>2. IsFiniteSet(Keys \X Urls)
    BY <1>1, ShimAssumption, FS_Product
  <1> QED
    BY <1>2, FS_Subset, FS_CardinalityType

(* There is a file for every thread, and two more.                         *)
LEMMA InodesTyped == 1 \in Inodes /\ Inodes \subseteq Nat /\ None \notin Inodes
  <1>1. IsFiniteSet({Loop})
    BY FS_Singleton
  <1>2. IsFiniteSet(Threads)
    BY <1>1, ShimAssumption, FS_Union DEF Threads
  <1>3. Cardinality(Threads) \in Nat
    BY <1>2, FS_CardinalityType
  <1> QED
    BY <1>3 DEF Inodes, None

LEMMA RestingTyped == Resting \in ThreadState
  BY DEF Resting, ThreadState, Phases

LEMMA ListsTyped ==
  ASSUME TypeOK, NEW t \in Threads, workers' \in SUBSET (Keys \X Urls), Lists(t)
  PROVE  thread' \in [Threads -> ThreadState]
  <1>1. PICK n \in Nat : n = Cardinality(workers')
    BY SizeIsNat
  <1>2. [thread[t] EXCEPT !.at = "list", !.size = n] \in ThreadState
    <2>1. \A s \in ThreadState : [s EXCEPT !.at = "list", !.size = n] \in ThreadState
      BY DEF ThreadState, Phases
    <2> QED
      BY <2>1 DEF TypeOK
  <1> QED
    BY <1>1, <1>2 DEF Lists, TypeOK

(* The registered urls are urls.                                           *)
LEMMA RegisteredTyped == TypeOK => Registered \subseteq Urls
  BY DEF TypeOK, Registered

(* Writing one list over another leaves a list or a torn file.             *)
LEMMA OverlayTyped ==
  ASSUME NEW old, NEW urls \in SUBSET Urls, NEW c \in Overlay(old, urls)
  PROVE  c \in Contents
  BY DEF Overlay, Contents, Unreadable

(* The requests of Post and Delete start in one way.                       *)
LEMMA Starts ==
  /\ \A u \in Urls : Post(u) => Start(Loop, "scan", u) /\ thread[Loop].at = "idle"
  /\ \A t \in Deleters, k \in Keys :
       Delete(t, k) => Start(t, "pop", k) /\ thread[t].at = "idle"
  BY DEF Post, Delete

-----------------------------------------------------------------------------
(* Types.                                                                  *)

LEMMA StartTyped ==
  ASSUME TypeOK, NEW t \in Threads, NEW at \in {"scan", "pop"}, NEW ref \in Keys,
         Start(t, at, ref)
  PROVE  TypeOK'
  <1>1. Size \in Nat
    BY SizeIsNat DEF TypeOK, Size
  <1> DEFINE fresh == [Resting EXCEPT !.at = at, !.ref = ref, !.size = Size, !.alone = (Busy = {})]
  <1>2. fresh \in ThreadState
    BY <1>1, RestingTyped DEF ThreadState, Phases, Resting
  <1>3. \A x \in Threads : [thread[x] EXCEPT !.alone = @ /\ x \notin Busy] \in ThreadState
    BY DEF TypeOK, ThreadState
  <1>4. thread' \in [Threads -> ThreadState]
    BY <1>2, <1>3 DEF Start
  <1>5. requests < MaxRequests /\ requests' = requests + 1
    BY DEF Start
  <1>6. requests' \in 0..MaxRequests
    BY <1>5, ShimAssumption DEF TypeOK
  <1>7. overlapped' \in BOOLEAN
    BY Zenon DEF Start
  <1> QED
    BY <1>4, <1>6, <1>7 DEF Start, TypeOK, disk

LEMMA NextTyped == TypeOK /\ ScanInv /\ [Next]_vars => TypeOK'
  <1> SUFFICES ASSUME TypeOK, ScanInv, [Next]_vars PROVE TypeOK'
    OBVIOUS
  <1> USE ShimAssumption
  <1>0. Loop \in Threads /\ Deleters \subseteq Threads
    BY DEF Threads
  <1>1. ASSUME NEW u \in Urls, Post(u)
        PROVE  TypeOK'
    BY <1>0, <1>1, Starts, StartTyped DEF Keys
  <1>2. ASSUME NEW t \in Deleters, NEW k \in Keys, Delete(t, k)
        PROVE  TypeOK'
    BY <1>0, <1>2, Starts, StartTyped
  <1>3. CASE Register
    <2> DEFINE u == thread[Loop].ref
    <2>1. u \in Urls
      BY <1>3 DEF ScanInv, Register
    <2>2. CASE u \in Registered
      <3>1. thread' \in [Threads -> ThreadState]
        BY <1>3, <2>2, RestingTyped DEF Register, TypeOK
      <3> QED
        BY <1>3, <2>2, <3>1 DEF Register, TypeOK, disk
    <2>3. CASE u \notin Registered
      <3>1. PICK k \in IF byUrl THEN {u} ELSE Ids \ issued :
              workers' = workers \cup {<<k, u>>} /\ issued' = issued \cup ({k} \cap Ids)
        BY <1>3, <2>3 DEF Register
      <3>2. workers' \in SUBSET (Keys \X Urls) /\ issued' \subseteq Ids
        BY <2>1, <3>1 DEF TypeOK, Keys
      <3>3. thread' \in [Threads -> ThreadState]
        BY <1>0, <1>3, <2>3, <3>2, ListsTyped DEF Register
      <3> QED
        BY <1>3, <3>2, <3>3 DEF Register, TypeOK, disk
    <2> QED
      BY <2>2, <2>3
  <1>4. ASSUME NEW t \in Deleters, Deregister(t)
        PROVE  TypeOK'
    <2>1. workers' \in SUBSET (Keys \X Urls)
      BY <1>4 DEF Deregister, TypeOK
    <2>2. thread' \in [Threads -> ThreadState]
      BY <1>0, <1>4, <2>1, ListsTyped, RestingTyped DEF Deregister, TypeOK
    <2> QED
      BY <1>4, <2>1, <2>2 DEF Deregister, TypeOK, disk
  <1>5. ASSUME NEW t \in Threads, Fails(t), UNCHANGED <<byUrl, workers, issued, disk, requests>>
        PROVE  TypeOK'
    <2>1. thread' \in [Threads -> ThreadState]
      BY <1>5, RestingTyped DEF Fails, TypeOK
    <2> QED
      BY <1>5, <2>1 DEF Fails, TypeOK, disk
  <1>6. ASSUME NEW t \in Threads, Snapshot(t), ~Fails(t)
        PROVE  TypeOK'
    <2>1. thread' = [thread EXCEPT ![t] = [@ EXCEPT !.at = "open", !.urls = Registered]]
      BY <1>6 DEF Snapshot
    <2>2. [thread[t] EXCEPT !.at = "open", !.urls = Registered] \in ThreadState
      BY RegisteredTyped DEF TypeOK, ThreadState, Phases
    <2>3. thread' \in [Threads -> ThreadState]
      BY <2>1, <2>2 DEF TypeOK
    <2> QED
      BY <1>6, <2>3 DEF Snapshot, TypeOK, disk
  <1>7. ASSUME NEW t \in Threads, Open(t)
        PROVE  TypeOK'
    <2>1. PICK i \in Inodes : /\ inode' = [inode EXCEPT ![i] = Blank]
                              /\ tmp' = i
                              /\ thread' = [thread EXCEPT ![t] = [@ EXCEPT !.at = "write", !.fd = i]]
      BY <1>7 DEF Open, Free, TypeOK
    <2>2. thread' \in [Threads -> ThreadState]
      <3>1. [thread[t] EXCEPT !.at = "write", !.fd = i] \in ThreadState
        BY DEF TypeOK, ThreadState, Phases
      <3> QED
        BY <2>1, <3>1 DEF TypeOK
    <2>3. inode' \in [Inodes -> Contents]
      BY <2>1 DEF TypeOK, Contents, Unreadable
    <2> QED
      BY <1>7, <2>1, <2>2, <2>3 DEF Open, TypeOK
  <1>8. ASSUME NEW t \in Threads, Write(t)
        PROVE  TypeOK'
    <2>1. PICK c \in Overlay(inode[thread[t].fd], thread[t].urls) :
            inode' = [inode EXCEPT ![thread[t].fd] = c]
      BY <1>8 DEF Write
    <2>2. c \in Contents
      BY <2>1, OverlayTyped DEF TypeOK, ThreadState
    <2>3. inode' \in [Inodes -> Contents]
      BY <2>1, <2>2 DEF TypeOK
    <2>4. thread' \in [Threads -> ThreadState]
      BY <1>8 DEF Write, TypeOK, ThreadState, Phases
    <2> QED
      BY <1>8, <2>3, <2>4 DEF Write, TypeOK
  <1>9. ASSUME NEW t \in Threads, Replace(t), tmp # None
        PROVE  TypeOK'
    <2>1. thread' \in [Threads -> ThreadState]
      BY <1>9, RestingTyped DEF Replace, TypeOK
    <2>2. file' \in Inodes /\ tmp' = None /\ inode' = inode
      BY <1>9 DEF Replace, TypeOK
    <2>3. overlapped' \in BOOLEAN
      BY <1>9 DEF Replace, TypeOK
    <2> QED
      BY <1>9, <2>1, <2>2, <2>3 DEF Replace, TypeOK
  <1>10. CASE Restart
    <2>1. thread' \in [Threads -> ThreadState]
      BY <1>10, RestingTyped DEF Restart
    <2>2. inode' \in [Inodes -> Contents]
      BY <1>10 DEF Restart, Contents
    <2>3. requests' \in 0..MaxRequests
      BY <1>10 DEF Restart, TypeOK
    <2> QED
      BY <1>10, <2>1, <2>2, <2>3, InodesTyped DEF Restart, TypeOK
  <1>11. CASE UNCHANGED vars
    BY <1>11 DEF vars, disk, TypeOK
  <1>12. ASSUME NEW t \in Threads, Raises(t)
         PROVE  TypeOK'
    BY <1>5, <1>12 DEF Raises
  <1>13. ASSUME NEW t \in Threads, Snapshot(t)
         PROVE  TypeOK'
    <2>1. CASE Fails(t)
      BY <1>5, <1>13, <2>1 DEF Snapshot
    <2> QED
      BY <1>6, <1>13, <2>1
  <1>14. ASSUME NEW t \in Threads, Replace(t)
         PROVE  TypeOK'
    <2>1. CASE tmp = None
      BY <1>5, <1>14, <2>1 DEF Replace
    <2>2. CASE tmp # None
      BY <1>9, <1>14, <2>2
    <2> QED
      BY <2>1, <2>2
  <1> QED
    BY <1>0, <1>1, <1>2, <1>3, <1>4, <1>7, <1>8, <1>10, <1>11, <1>12, <1>13, <1>14 DEF Next

-----------------------------------------------------------------------------
(* Who is in progress, and who is alone.                                   *)

(* A step of thread t: the others stay where they are, and t is done or    *)
(* goes on.                                                                *)
Works(t) ==
  /\ thread[t].at # "idle"
  /\ \A x \in Threads \ {t} : thread'[x] = thread[x]
  /\ \/ thread'[t] = Resting
     \/ /\ thread'[t].at \in {"list", "open", "write", "replace"}
        /\ thread'[t].alone = thread[t].alone

LEMMA Working ==
  ASSUME TypeOK
  PROVE  /\ Register => Works(Loop)
         /\ \A t \in Threads :
              Deregister(t) \/ Raises(t) \/ Snapshot(t) \/ Open(t) \/ Write(t) \/ Replace(t)
                => Works(t)
  <1>1. ASSUME NEW t \in Threads, Lists(t), thread[t].at # "idle"
        PROVE  Works(t)
    BY <1>1 DEF Lists, Works, TypeOK, ThreadState
  <1>2. ASSUME NEW t \in Threads, thread' = [thread EXCEPT ![t] = Resting], thread[t].at # "idle"
        PROVE  Works(t)
    BY <1>2 DEF Works, TypeOK
  <1>3. Register => Works(Loop)
    BY <1>1, <1>2 DEF Register, Threads
  <1>4. ASSUME NEW t \in Threads, Deregister(t)
        PROVE  Works(t)
    BY <1>1, <1>2, <1>4 DEF Deregister
  <1>5. ASSUME NEW t \in Threads, Raises(t)
        PROVE  Works(t)
    BY <1>2, <1>5 DEF Raises, Fails
  <1>6. ASSUME NEW t \in Threads, Snapshot(t)
        PROVE  Works(t)
    <2>1. CASE AllSplit
      BY <1>6, <2>1 DEF Snapshot, Works, TypeOK, ThreadState
    <2> QED
      BY <1>2, <1>6, <2>1 DEF Snapshot, Fails
  <1>7. ASSUME NEW t \in Threads, Open(t)
        PROVE  Works(t)
    BY <1>7 DEF Open, Works, TypeOK, ThreadState
  <1>8. ASSUME NEW t \in Threads, Write(t)
        PROVE  Works(t)
    BY <1>8 DEF Write, Works, TypeOK, ThreadState
  <1>9. ASSUME NEW t \in Threads, Replace(t)
        PROVE  Works(t)
    BY <1>2, <1>9 DEF Replace, Fails
  <1> QED
    BY <1>3, <1>4, <1>5, <1>6, <1>7, <1>8, <1>9

(* What a start does to the threads.                                       *)
LEMMA Starting ==
  ASSUME TypeOK, NEW t \in Threads, NEW at \in {"scan", "pop"}, NEW ref \in Keys,
         Start(t, at, ref), thread[t].at = "idle"
  PROVE  /\ Busy' = Busy \cup {t}
         /\ thread'[t].at = at /\ thread'[t].ref = ref /\ thread'[t].alone = (Busy = {})
         /\ \A x \in Threads \ {t} : thread'[x].at = thread[x].at /\ thread'[x].ref = thread[x].ref
         /\ \A x \in Busy : ~thread'[x].alone
         /\ overlapped' <=> overlapped \/ Busy # {}
  <1>1. thread'[t].at = at /\ thread'[t].ref = ref /\ thread'[t].alone = (Busy = {})
    BY DEF Start, Resting
  <1>2. ASSUME NEW x \in Threads \ {t}
        PROVE  /\ thread'[x].at = thread[x].at /\ thread'[x].ref = thread[x].ref
               /\ x \in Busy => ~thread'[x].alone
    BY DEF Start, TypeOK, ThreadState
  <1>3. Busy' = Busy \cup {t}
    BY <1>1, <1>2 DEF Busy
  <1>4. overlapped' <=> overlapped \/ Busy # {}
    BY DEF Start
  <1> QED
    BY <1>1, <1>2, <1>3, <1>4 DEF Busy

(* A working thread that has been alone is the only one, before and after. *)
LEMMA WorkingAlone ==
  ASSUME TypeOK, AloneInv, NEW t \in Threads, Works(t)
  PROVE  /\ t \in Busy /\ Busy' \subseteq Busy
         /\ \A x \in Busy' : thread'[x].alone => x = t /\ thread[t].alone /\ Busy = {t}
         /\ \A x \in Busy' : thread'[x].alone = thread[x].alone
  BY DEF Works, AloneInv, Busy, Resting

(* Some request starts, on the event loop with a url or elsewhere.         *)
Begins(t, at, ref) ==
  /\ Start(t, at, ref) /\ thread[t].at = "idle"
  /\ t = Loop => ref \in Urls
SomeStart ==
  \E t \in Threads, at \in {"scan", "pop"}, ref \in Keys : Begins(t, at, ref)

LEMMA BeginCases ==
  (\E u \in Urls : Post(u)) \/ (\E t \in Deleters, k \in Keys : Delete(t, k)) => SomeStart
  <1>1. ASSUME NEW u \in Urls, Post(u)
        PROVE  SomeStart
    <2>1. Begins(Loop, "scan", u) /\ Loop \in Threads /\ u \in Keys
      BY <1>1, Starts DEF Begins, Threads, Keys
    <2> QED
      BY <2>1 DEF SomeStart
  <1>2. ASSUME NEW t \in Deleters, NEW k \in Keys, Delete(t, k)
        PROVE  SomeStart
    <2>1. Begins(t, "pop", k) /\ t \in Threads
      BY <1>2, Starts, ShimAssumption DEF Begins, Threads
    <2> QED
      BY <2>1 DEF SomeStart
  <1> QED
    BY <1>1, <1>2

(* The kinds of step, as far as who is in progress is concerned.           *)
LEMMA StepCases ==
  ASSUME TypeOK, [Next]_vars
  PROVE  SomeStart \/ (\E t \in Threads : Works(t)) \/ Restart \/ UNCHANGED vars
  <1>3. Register => \E t \in Threads : Works(t)
    BY Working DEF Threads
  <1>4. ASSUME NEW t \in Deleters, Deregister(t)
        PROVE  \E x \in Threads : Works(x)
    BY <1>4, Working DEF Threads
  <1>5. ASSUME NEW t \in Threads,
               Raises(t) \/ Snapshot(t) \/ Open(t) \/ Write(t) \/ Replace(t)
        PROVE  \E x \in Threads : Works(x)
    BY <1>5, Working
  <1> QED
    BY BeginCases, <1>3, <1>4, <1>5 DEF Next

LEMMA NextAlone == TypeOK /\ AloneInv /\ [Next]_vars => AloneInv'
  <1> SUFFICES ASSUME TypeOK, AloneInv, [Next]_vars PROVE AloneInv'
    OBVIOUS
  <1>1. ASSUME NEW t \in Threads, NEW at \in {"scan", "pop"}, NEW ref \in Keys, Begins(t, at, ref)
        PROVE  AloneInv'
    <2>1. /\ Busy' = Busy \cup {t} /\ thread'[t].alone = (Busy = {})
          /\ \A x \in Busy : ~thread'[x].alone
      BY <1>1, Starting DEF Begins
    <2> QED
      BY <2>1 DEF AloneInv
  <1>2. ASSUME NEW t \in Threads, Works(t)
        PROVE  AloneInv'
    BY <1>2, WorkingAlone DEF AloneInv
  <1>3. CASE Restart
    BY <1>3 DEF Restart, AloneInv, Busy, Resting
  <1>4. CASE UNCHANGED vars
    BY <1>4 DEF vars, AloneInv, Busy
  <1> QED
    BY <1>1, <1>2, <1>3, <1>4, StepCases DEF SomeStart

LEMMA NextScan == TypeOK /\ ScanInv /\ [Next]_vars => ScanInv'
  <1> SUFFICES ASSUME TypeOK, ScanInv, [Next]_vars PROVE ScanInv'
    OBVIOUS
  <1>1. ASSUME NEW t \in Threads, NEW at \in {"scan", "pop"}, NEW ref \in Keys, Begins(t, at, ref)
        PROVE  ScanInv'
    BY <1>1, Starting DEF ScanInv, Threads, Begins
  <1>2. ASSUME NEW t \in Threads, Works(t)
        PROVE  ScanInv'
    BY <1>2 DEF ScanInv, Works, Resting, Threads
  <1>3. CASE Restart
    BY <1>3 DEF Restart, ScanInv, Resting, Threads
  <1>4. CASE UNCHANGED vars
    BY <1>4 DEF vars, ScanInv
  <1> QED
    BY <1>1, <1>2, <1>3, <1>4, StepCases DEF SomeStart

-----------------------------------------------------------------------------
(* Handles.                                                                *)

LEMMA NextHandles == TypeOK /\ ScanInv /\ HandleInv /\ [Next]_vars => HandleInv'
  <1> SUFFICES ASSUME TypeOK, ScanInv, HandleInv, [Next]_vars PROVE HandleInv'
    OBVIOUS
  <1>1. CASE UNCHANGED <<byUrl, workers, issued>>
    BY <1>1 DEF HandleInv, OneHandlePerUrl
  <1>2. CASE Register
    <2> DEFINE u == thread[Loop].ref
    <2>1. CASE u \in Registered
      BY <1>1, <1>2, <2>1 DEF Register
    <2>2. CASE u \notin Registered
      <3>1. PICK k \in IF byUrl THEN {u} ELSE Ids \ issued :
              workers' = workers \cup {<<k, u>>} /\ issued' = issued \cup ({k} \cap Ids)
        BY <1>2, <2>2 DEF Register
      <3>2. \A w \in workers : w[2] # u /\ w[1] # k
        BY <2>2, <3>1 DEF Registered, HandleInv
      <3>3. byUrl' = byUrl
        BY <1>2 DEF Register
      <3>4. OneHandlePerUrl'
        BY <3>1, <3>2 DEF HandleInv, OneHandlePerUrl
      <3>5. \A w \in workers' : IF byUrl' THEN w[1] = w[2] ELSE w[1] \in issued'
        BY <3>1, <3>3 DEF HandleInv
      <3> QED
        BY <3>4, <3>5 DEF HandleInv
    <2> QED
      BY <2>1, <2>2
  <1>3. ASSUME NEW t \in Deleters, Deregister(t)
        PROVE  HandleInv'
    <2>1. workers' \subseteq workers /\ byUrl' = byUrl /\ issued' = issued
      BY <1>3 DEF Deregister
    <2> QED
      BY <2>1 DEF HandleInv, OneHandlePerUrl
  <1>4. CASE Restart
    BY <1>4 DEF Restart, HandleInv, OneHandlePerUrl
  <1>5. ASSUME NEW t \in Threads, Raises(t) \/ Snapshot(t) \/ Open(t) \/ Write(t) \/ Replace(t)
        PROVE  HandleInv'
    BY <1>1, <1>5 DEF Raises, Snapshot, Open, Write, Replace
  <1>6. ASSUME NEW t, NEW at, NEW ref, Start(t, at, ref)
        PROVE  HandleInv'
    BY <1>1, <1>6 DEF Start
  <1>7. CASE UNCHANGED vars
    BY <1>1, <1>7 DEF vars
  <1> QED
    BY <1>2, <1>3, <1>4, <1>5, <1>6, <1>7 DEF Next, Post, Delete

-----------------------------------------------------------------------------
(* The file.                                                               *)

(* Once the disturbance is over nobody is in progress who was disturbed.   *)
LEMMA NextCalm == TypeOK /\ AloneInv /\ CalmInv /\ [Next]_vars => CalmInv'
  <1> SUFFICES ASSUME TypeOK, AloneInv, CalmInv, [Next]_vars PROVE CalmInv'
    OBVIOUS
  <1>1. ASSUME NEW t \in Threads, NEW at \in {"scan", "pop"}, NEW ref \in Keys, Begins(t, at, ref)
        PROVE  CalmInv'
    <2>1. /\ Busy' = Busy \cup {t} /\ thread'[t].alone = (Busy = {})
          /\ overlapped' <=> overlapped \/ Busy # {}
      BY <1>1, Starting DEF Begins
    <2> QED
      BY <2>1 DEF CalmInv
  <1>2. ASSUME NEW t \in Threads, Works(t), overlapped' \/ overlapped' = overlapped
        PROVE  CalmInv'
    BY <1>2, WorkingAlone DEF CalmInv
  <1>3. ASSUME NEW t \in Threads, Replace(t)
        PROVE  CalmInv'
    <2>1. Works(t)
      BY <1>3, Working
    <2>2. CASE thread[t].alone /\ tmp # None
      <3>1. Busy = {t} /\ thread'[t] = Resting
        BY <1>3, <2>1, <2>2, WorkingAlone DEF Replace, AloneInv, TypeOK
      <3>2. Busy' = {}
        BY <2>1, <3>1, WorkingAlone DEF Busy, Resting
      <3> QED
        BY <3>2 DEF CalmInv
    <2>3. CASE ~(thread[t].alone /\ tmp # None)
      <3>1. overlapped' \/ overlapped' = overlapped
        BY <1>3, <2>3 DEF Replace, Fails, TypeOK
      <3> QED
        BY <1>2, <2>1, <3>1
    <2> QED
      BY <2>2, <2>3
  <1>4. CASE Register
    BY <1>2, <1>4, Working DEF Register, Threads
  <1>5. ASSUME NEW t \in Deleters, Deregister(t)
        PROVE  CalmInv'
    BY <1>2, <1>5, Working DEF Deregister, Threads
  <1>6. ASSUME NEW t \in Threads, Raises(t) \/ Snapshot(t) \/ Open(t) \/ Write(t)
        PROVE  CalmInv'
    <2>1. Works(t)
      BY <1>6, Working
    <2>2. overlapped' \/ overlapped' = overlapped
      BY <1>6 DEF Raises, Snapshot, Open, Write, Fails
    <2> QED
      BY <1>2, <2>1, <2>2
  <1>7. CASE Restart
    BY <1>7 DEF Restart, CalmInv, Busy, Resting
  <1>8. CASE UNCHANGED vars
    BY <1>8 DEF vars, CalmInv, Busy
  <1>9. CASE SomeStart
    BY <1>1, <1>9 DEF SomeStart
  <1>10. (\E u \in Urls : Post(u)) \/ (\E t \in Deleters, k \in Keys : Delete(t, k)) => SomeStart
    BY BeginCases
  <1> QED
    BY <1>3, <1>4, <1>5, <1>6, <1>7, <1>8, <1>9, <1>10 DEF Next

(* A list of registered urls can be read.                                  *)
LEMMA ListsAreReadable == TypeOK => Registered \notin Unreadable
  BY RegisteredTyped, ShimAssumption DEF Unreadable

(* What concerns the files.                                                *)
DiskInv == CarriedInv /\ FileInv /\ tmp # file

(* A request that has been alone: what it left behind at each step.        *)
LEMMA NextDisk ==
  TypeOK /\ ScanInv /\ AloneInv /\ CalmInv /\ DiskInv /\ [Next]_vars => DiskInv'
  <1> SUFFICES ASSUME TypeOK, ScanInv, AloneInv, CalmInv, DiskInv, [Next]_vars PROVE DiskInv'
    OBVIOUS
  <1>1. ASSUME NEW t \in Threads, NEW at \in {"scan", "pop"}, NEW ref \in Keys, Begins(t, at, ref)
        PROVE  DiskInv'
    <2>1. /\ Busy' = Busy \cup {t} /\ thread'[t].at = at
          /\ \A x \in Busy : ~thread'[x].alone
          /\ overlapped' <=> overlapped \/ Busy # {}
      BY <1>1, Starting DEF Begins
    <2>2. UNCHANGED <<workers, inode, tmp, file>> /\ Registered' = Registered
      BY <1>1 DEF Begins, Start, disk, Registered
    <2>3. CarriedInv'
      BY <2>1 DEF CarriedInv
    <2>4. FileInv'
      <3>1. CASE overlapped \/ Busy # {}
        BY <2>1, <3>1 DEF FileInv
      <3>2. CASE ~overlapped /\ Busy = {}
        BY <2>2, <3>2, ListsAreReadable DEF DiskInv, FileInv
      <3> QED
        BY <3>1, <3>2
    <2> QED
      BY <2>2, <2>3, <2>4 DEF DiskInv
  (* One thread works while the files stay as they are. *)
  <1>2. ASSUME NEW t \in Threads, Works(t), UNCHANGED disk,
               overlapped' \/ overlapped' = overlapped,
               thread[t].alone => /\ thread'[t].at \in {"idle", "list", "open"}
                                  /\ thread'[t].at = "open" => thread'[t].urls = Registered'
                                  /\ thread'[t].at = "idle" =>
                                       overlapped' \/ (Registered' = Registered
                                                      /\ thread[t].at \in {"scan", "pop"})
        PROVE  DiskInv'
    <2>1. CarriedInv'
      BY <1>2, WorkingAlone DEF CarriedInv
    <2>2. FileInv'
      <3> SUFFICES ASSUME ~overlapped' PROVE FileInv'
        BY DEF FileInv
      <3>1. ~overlapped /\ thread[t].alone /\ Busy = {t}
        BY <1>2, WorkingAlone DEF CalmInv, AloneInv
      <3>2. inode'[file'] = inode[file] /\ inode[file] \notin Unreadable
        BY <1>2, <3>1 DEF disk, DiskInv, FileInv
      <3>3. CASE thread'[t].at = "idle"
        <4>1. inode[file] = Registered
          BY <1>2, <3>1, <3>3 DEF DiskInv, FileInv
        <4> QED
          BY <1>2, <3>1, <3>2, <3>3, <4>1 DEF FileInv
      <3>4. CASE thread'[t].at # "idle"
        <4>1. t \in Busy' /\ thread'[t].at \notin {"scan", "pop"}
          BY <1>2, <3>1, <3>4 DEF Busy
        <4> QED
          BY <3>2, <4>1 DEF FileInv
      <3> QED
        BY <3>3, <3>4
    <2> QED
      BY <1>2, <2>1, <2>2 DEF DiskInv, disk
  <1>3. CASE Register
    <2>1. Works(Loop) /\ Loop \in Threads
      BY <1>3, Working DEF Threads
    <2>2. CASE thread[Loop].ref \in Registered
      BY <1>2, <1>3, <2>1, <2>2 DEF Register, Registered, Resting, TypeOK
    <2>3. CASE thread[Loop].ref \notin Registered
      <3>1. thread'[Loop].at = "list"
        BY <1>3, <2>1, <2>3 DEF Register, Lists, TypeOK, ThreadState
      <3> QED
        BY <1>2, <1>3, <2>1, <2>3, <3>1 DEF Register
    <2> QED
      BY <2>2, <2>3
  <1>4. ASSUME NEW t \in Deleters, Deregister(t)
        PROVE  DiskInv'
    <2> DEFINE found == {w \in workers : w[1] = thread[t].ref}
    <2>1. Works(t) /\ t \in Threads
      BY <1>4, Working DEF Threads
    <2>2. CASE found = {}
      <3>1. workers' = workers /\ Registered' = Registered
        BY <1>4, <2>2 DEF Deregister, Registered
      <3> QED
        BY <1>2, <1>4, <2>1, <2>2, <3>1 DEF Deregister, Resting, TypeOK
    <2>3. CASE found # {}
      <3>1. thread'[t].at = "list"
        BY <1>4, <2>1, <2>3 DEF Deregister, Lists, TypeOK, ThreadState
      <3> QED
        BY <1>2, <1>4, <2>1, <3>1 DEF Deregister
    <2> QED
      BY <2>2, <2>3
  <1>5. ASSUME NEW t \in Threads, Works(t), Fails(t), UNCHANGED disk
        PROVE  DiskInv'
    BY <1>2, <1>5 DEF Fails, Resting, TypeOK
  <1>6. ASSUME NEW t \in Threads, Snapshot(t)
        PROVE  DiskInv'
    <2>1. Works(t)
      BY <1>6, Working
    <2>2. CASE AllSplit
      <3>1. thread' = [thread EXCEPT ![t] = [@ EXCEPT !.at = "open", !.urls = Registered]]
        BY <1>6, <2>2 DEF Snapshot
      <3>2. thread'[t].at = "open" /\ thread'[t].urls = Registered
        BY <3>1 DEF TypeOK, ThreadState
      <3>3. Registered' = Registered
        BY <1>6 DEF Snapshot, Registered
      <3> QED
        BY <1>2, <1>6, <2>1, <2>2, <3>2, <3>3 DEF Snapshot
    <2> QED
      BY <1>5, <1>6, <2>1, <2>2 DEF Snapshot
  <1>7. ASSUME NEW t \in Threads, Open(t)
        PROVE  DiskInv'
    <2>1. Works(t)
      BY <1>7, Working
    <2>2. PICK i \in Inodes :
            /\ i # file /\ inode' = [inode EXCEPT ![i] = Blank] /\ tmp' = i
            /\ thread' = [thread EXCEPT ![t] = [@ EXCEPT !.at = "write", !.fd = i]]
      BY <1>7 DEF Open, Free, TypeOK, DiskInv
    <2>3. /\ thread'[t].at = "write" /\ thread'[t].fd = i /\ thread'[t].urls = thread[t].urls
          /\ inode'[i] = Blank /\ inode'[file] = inode[file]
      BY <2>2 DEF TypeOK, ThreadState
    <2>4. UNCHANGED <<file, overlapped>> /\ Registered' = Registered
      BY <1>7 DEF Open, Registered
    <2>5. thread[t].alone => thread[t].urls = Registered
      BY <1>7, <2>1, WorkingAlone DEF Open, DiskInv, CarriedInv
    <2>6. CarriedInv'
      BY <2>1, <2>2, <2>3, <2>4, <2>5, WorkingAlone, InodesTyped DEF CarriedInv
    <2>7. FileInv'
      <3>1. t \in Busy' /\ thread'[t].at \notin {"scan", "pop"}
        BY <2>3 DEF Busy
      <3> QED
        BY <2>3, <2>4, <3>1 DEF DiskInv, FileInv
    <2> QED
      BY <2>2, <2>4, <2>6, <2>7 DEF DiskInv
  <1>8. ASSUME NEW t \in Threads, Write(t)
        PROVE  DiskInv'
    <2>1. Works(t)
      BY <1>8, Working
    <2>2. PICK c \in Overlay(inode[thread[t].fd], thread[t].urls) :
            inode' = [inode EXCEPT ![thread[t].fd] = c]
      BY <1>8 DEF Write
    <2>3. /\ thread'[t].at = "replace" /\ UNCHANGED <<tmp, file, overlapped>>
          /\ Registered' = Registered
      BY <1>8 DEF Write, TypeOK, ThreadState, Registered
    <2>4. thread[t].alone => /\ tmp # None /\ thread[t].fd = tmp
                             /\ inode[tmp] = Blank /\ thread[t].urls = Registered
      BY <1>8, <2>1, WorkingAlone DEF Write, DiskInv, CarriedInv
    <2>5. thread[t].alone => inode'[tmp] = Registered /\ inode'[file] = inode[file]
      BY <2>2, <2>4 DEF Overlay, TypeOK, DiskInv
    <2>6. CarriedInv'
      BY <2>1, <2>3, <2>4, <2>5, WorkingAlone DEF CarriedInv
    <2>7. FileInv'
      <3>1. t \in Busy' /\ thread'[t].at \notin {"scan", "pop"}
        BY <2>3 DEF Busy
      <3>2. ~overlapped => thread[t].alone
        BY <2>1, WorkingAlone DEF CalmInv
      <3> QED
        BY <2>3, <2>5, <3>1, <3>2 DEF DiskInv, FileInv
    <2> QED
      BY <2>3, <2>6, <2>7 DEF DiskInv
  <1>9. ASSUME NEW t \in Threads, Replace(t)
        PROVE  DiskInv'
    <2>1. Works(t)
      BY <1>9, Working
    <2>2. CASE tmp = None
      BY <1>5, <1>9, <2>1, <2>2 DEF Replace
    <2>3. CASE tmp # None
      <3>1. /\ file' = tmp /\ tmp' = None /\ inode' = inode /\ Registered' = Registered
            /\ thread'[t] = Resting /\ overlapped' = (overlapped /\ ~thread[t].alone)
        BY <1>9, <2>3 DEF Replace, TypeOK, Registered
      <3>2. tmp' # file'
        BY <2>3, <3>1
      <3>3. CarriedInv'
        BY <2>1, <3>1, WorkingAlone DEF CarriedInv, Busy, Resting
      <3>4. FileInv'
        <4> SUFFICES ASSUME ~overlapped' PROVE FileInv'
          BY DEF FileInv
        <4>1. thread[t].alone /\ t \in Busy
          BY <2>1, <3>1, WorkingAlone DEF CalmInv
        <4>2. inode[tmp] = Registered
          BY <1>9, <4>1 DEF Replace, DiskInv, CarriedInv
        <4> QED
          BY <3>1, <4>2, ListsAreReadable DEF FileInv
      <3> QED
        BY <3>2, <3>3, <3>4 DEF DiskInv
    <2> QED
      BY <2>2, <2>3
  <1>10. CASE Restart
    <2>1. Busy' = {} /\ Registered' = {} /\ inode'[file'] = {} /\ tmp' # file'
      BY <1>10, InodesTyped DEF Restart, Busy, Resting, Registered, None
    <2>2. {} \notin Unreadable
      BY ShimAssumption DEF Unreadable
    <2> QED
      BY <2>1, <2>2 DEF DiskInv, CarriedInv, FileInv
  <1>11. CASE UNCHANGED vars
    BY <1>11 DEF vars, disk, DiskInv, CarriedInv, FileInv, Busy, Registered
  <1>12. ASSUME NEW t \in Threads, Raises(t)
         PROVE  DiskInv'
    BY <1>5, <1>12, Working DEF Raises
  <1>13. SomeStart => DiskInv'
    BY <1>1 DEF SomeStart
  <1> QED
    BY <1>3, <1>4, <1>6, <1>7, <1>8, <1>9, <1>10, <1>11, <1>12, <1>13, BeginCases DEF Next

-----------------------------------------------------------------------------
LEMMA Inductive == Spec => []IInv
  <1>1. Init => IInv
    <2> SUFFICES ASSUME Init PROVE IInv
      OBVIOUS
    <2>1. TypeOK
      <3>1. {} \in Contents
        BY DEF Contents
      <3>2. inode \in [Inodes -> Contents] /\ thread \in [Threads -> ThreadState]
        BY <3>1, RestingTyped DEF Init
      <3> QED
        <4>1. file \in Inodes /\ tmp \in Inodes \cup {None} /\ requests \in 0..MaxRequests
          BY InodesTyped, ShimAssumption DEF Init
        <4>2. byUrl \in BOOLEAN /\ overlapped \in BOOLEAN
          BY DEF Init
        <4> QED
          BY <3>2, <4>1, <4>2 DEF Init, TypeOK
    <2>2. Busy = {} /\ Registered = {} /\ inode[file] = {} /\ tmp # file
      BY InodesTyped DEF Init, Busy, Resting, Registered, None
    <2>3. {} \notin Unreadable
      BY ShimAssumption DEF Unreadable
    <2>4. ScanInv /\ HandleInv
      BY DEF Init, ScanInv, HandleInv, OneHandlePerUrl, Resting, Threads
    <2> QED
      BY <2>1, <2>2, <2>3, <2>4 DEF IInv, AloneInv, CalmInv, CarriedInv, FileInv
  <1>2. IInv /\ [Next]_vars => IInv'
    BY NextTyped, NextScan, NextHandles, NextAlone, NextCalm, NextDisk DEF IInv, DiskInv
  <1> QED
    BY <1>1, <1>2, PTL DEF Spec

(* The shim keeps its types.                                               *)
THEOREM ShimTyped == Spec => []TypeOK
  BY Inductive, PTL DEF IInv

(* However registrations and removals interleave, a url has one handle.    *)
THEOREM HandlesAreUnique == Spec => []OneHandlePerUrl
  BY Inductive, PTL DEF IInv, HandleInv

(* Without overlaps the file is the registry whenever the shim is at rest, *)
(* and the next undisturbed change repairs what an overlap has left.       *)
THEOREM FileIsRegistry == Spec => []FileFollowsRegistry
  <1>1. IInv => FileFollowsRegistry
    BY DEF IInv, FileInv, FileFollowsRegistry
  <1> QED
    BY <1>1, Inductive, PTL

(* Without overlaps EPP never reads a partial list.                        *)
THEOREM ListsAreWhole == Spec => []ReadersSeeWholeLists
  <1>1. IInv => ReadersSeeWholeLists
    BY DEF IInv, FileInv, ReadersSeeWholeLists
  <1> QED
    BY <1>1, Inductive, PTL

-----------------------------------------------------------------------------
(* The registry changes only when the last change is in the file.          *)
LEMMA SettledBefore ==
  ASSUME IInv, NEW t \in Threads, thread[t].at \in {"scan", "pop"}
  PROVE  Feed!Settled
  <1> SUFFICES ASSUME ~overlapped PROVE inode[file] = Registered
    BY DEF Feed!Settled
  <1>1. t \in Busy
    BY DEF Busy
  <1>2. Busy = {t}
    BY <1>1 DEF IInv, CalmInv, AloneInv
  <1> QED
    BY <1>2 DEF IInv, FileInv

(* Each step of the shim is a step of the feed, or is not seen there.      *)
LEMMA NextFeeds == IInv /\ [Next]_vars => [Feed!FNext]_(Feed!fvars)
  <1> SUFFICES ASSUME IInv, [Next]_vars PROVE Feed!FNext \/ UNCHANGED Feed!fvars
    OBVIOUS
  <1>0. TypeOK
    BY DEF IInv
  <1>1. ASSUME UNCHANGED <<workers, inode[file]>>, overlapped' \/ overlapped' = overlapped
        PROVE  Feed!FNext \/ UNCHANGED Feed!fvars
    <2>1. Registered' = Registered
      BY <1>1 DEF Registered
    <2> QED
      BY <1>1, <2>1 DEF Feed!FNext, Feed!Disturb, Feed!fvars
  <1>2. ASSUME UNCHANGED workers, overlapped, overlapped'
        PROVE  Feed!FNext
    <2>1. Registered' = Registered
      BY <1>2 DEF Registered
    <2> QED
      BY <1>2, <2>1 DEF Feed!FNext, Feed!Scramble
  <1>3. CASE (\E u \in Urls : Post(u)) \/ (\E t \in Deleters, k \in Keys : Delete(t, k))
    <2>1. UNCHANGED <<workers, inode, file>> /\ (overlapped' \/ overlapped' = overlapped)
      BY <1>0, <1>3 DEF Post, Delete, Start, disk, TypeOK
    <2> QED
      BY <1>1, <2>1
  <1>4. CASE Register
    <2> DEFINE u == thread[Loop].ref
    <2>1. UNCHANGED <<inode, file, overlapped>>
      BY <1>4 DEF Register, disk
    <2>2. CASE u \in Registered
      BY <1>1, <1>4, <2>1, <2>2 DEF Register
    <2>3. CASE u \notin Registered
      <3>1. PICK k : workers' = workers \cup {<<k, u>>}
        BY <1>4, <2>3 DEF Register
      <3>2. Registered' = Registered \cup {u}
        <4> HIDE DEF u
        <4>1. {w[2] : w \in workers \cup {<<k, u>>}} = {w[2] : w \in workers} \cup {u}
          <5>1. <<k, u>>[2] = u
            OBVIOUS
          <5>2. PICK e : e = <<k, u>> /\ e[2] = u
            BY <5>1
          <5>3. {w[2] : w \in workers \cup {e}} = {w[2] : w \in workers} \cup {e[2]}
            BY Zenon
          <5> QED
            BY <5>2, <5>3
        <4> QED
          BY <3>1, <4>1 DEF Registered
      <3>3. u \in Urls
        BY <1>4 DEF Register, IInv, ScanInv
      <3>4. Feed!Settled
        BY <1>4, SettledBefore DEF Register, Threads
      <3> QED
        BY <2>1, <2>3, <3>2, <3>3, <3>4 DEF Feed!FNext, Feed!Come
    <2> QED
      BY <2>2, <2>3
  <1>5. ASSUME NEW t \in Deleters, Deregister(t)
        PROVE  Feed!FNext \/ UNCHANGED Feed!fvars
    <2> DEFINE found == {w \in workers : w[1] = thread[t].ref}
    <2>1. UNCHANGED <<inode, file, overlapped>> /\ workers' = workers \ found
      BY <1>5 DEF Deregister, disk
    <2>2. CASE found = {}
      BY <1>1, <2>1, <2>2
    <2>3. CASE found # {}
      <3>1. PICK w \in found : found = {w}
        BY <2>3 DEF IInv, HandleInv, OneHandlePerUrl
      <3>2. w \in workers /\ \A v \in workers : v[2] = w[2] => v = w
        BY DEF IInv, HandleInv, OneHandlePerUrl
      <3>3. w[2] \in Registered /\ Registered' = Registered \ {w[2]}
        <4>1. workers' = workers \ {w}
          BY <2>1, <3>1
        <4> HIDE DEF found
        <4> QED
          BY <3>2, <4>1 DEF Registered
      <3>4. Feed!Settled
        BY <1>5, SettledBefore DEF Deregister, Threads
      <3> QED
        BY <2>1, <3>3, <3>4 DEF Feed!FNext, Feed!Go
    <2> QED
      BY <2>2, <2>3
  <1>6. ASSUME NEW t \in Threads, Raises(t) \/ Snapshot(t)
        PROVE  Feed!FNext \/ UNCHANGED Feed!fvars
    <2>1. UNCHANGED <<workers, inode, file>> /\ (overlapped' \/ overlapped' = overlapped)
      BY <1>6 DEF Raises, Snapshot, Fails, disk
    <2> QED
      BY <1>1, <2>1
  <1>7. ASSUME NEW t \in Threads, Open(t)
        PROVE  Feed!FNext \/ UNCHANGED Feed!fvars
    <2>1. PICK i \in Inodes : i # file /\ inode' = [inode EXCEPT ![i] = Blank]
      <3>1. tmp # file
        BY DEF IInv
      <3> QED
        BY <1>0, <1>7, <3>1 DEF Open, Free, TypeOK
    <2>2. UNCHANGED <<workers, file, overlapped>> /\ inode'[file] = inode[file]
      BY <1>0, <1>7, <2>1 DEF Open, TypeOK
    <2> QED
      BY <1>1, <2>2
  <1>8. ASSUME NEW t \in Threads, Write(t)
        PROVE  Feed!FNext \/ UNCHANGED Feed!fvars
    <2>1. UNCHANGED <<workers, file, overlapped>>
      BY <1>8 DEF Write
    <2>2. CASE overlapped
      BY <1>2, <2>1, <2>2
    <2>3. CASE ~overlapped
      <3>1. t \in Busy /\ thread[t].alone
        BY <1>8, <2>3 DEF Write, Busy, IInv, CalmInv
      <3>2. thread[t].fd = tmp /\ tmp # file
        BY <1>8, <3>1 DEF Write, IInv, CarriedInv
      <3>3. inode'[file] = inode[file]
        BY <1>0, <1>8, <3>2 DEF Write, TypeOK
      <3> QED
        BY <1>1, <2>1, <3>3
    <2> QED
      BY <2>2, <2>3
  <1>9. ASSUME NEW t \in Threads, Replace(t)
        PROVE  Feed!FNext \/ UNCHANGED Feed!fvars
    <2>1. CASE tmp = None
      BY <1>1, <1>9, <2>1 DEF Replace, Fails, disk
    <2>2. CASE tmp # None
      <3>1. /\ UNCHANGED <<workers, inode>> /\ file' = tmp
            /\ overlapped' = (overlapped /\ ~thread[t].alone)
        BY <1>9, <2>2 DEF Replace
      <3>2. CASE thread[t].alone
        <4>1. inode[tmp] = Registered
          BY <1>9, <3>2 DEF Replace, Busy, IInv, CarriedInv
        <4>2. Registered' = Registered
          BY <3>1 DEF Registered
        <4> QED
          BY <3>1, <3>2, <4>1, <4>2 DEF Feed!FNext, Feed!Publish
      <3>3. CASE ~thread[t].alone
        <4>1. overlapped
          BY <1>9, <3>3 DEF Replace, Busy, IInv, CalmInv
        <4> QED
          BY <1>2, <3>1, <3>3, <4>1
      <3> QED
        BY <3>2, <3>3
    <2> QED
      BY <2>1, <2>2
  <1>10. CASE Restart
    <2>1. Registered' = {} /\ inode'[file'] = {} /\ ~overlapped'
      BY <1>10, InodesTyped DEF Restart, Registered
    <2> QED
      BY <2>1 DEF Feed!FNext, Feed!Restart
  <1>11. CASE UNCHANGED vars
    BY <1>1, <1>11 DEF vars, disk
  <1> QED
    BY <1>3, <1>4, <1>5, <1>6, <1>7, <1>8, <1>9, <1>10, <1>11 DEF Next

(* The shim implements EndpointsFeed: between disturbances EPP reads the   *)
(* registry's own history, each engine that comes or goes in its turn.     *)
THEOREM ShimFeedsEpp == Spec => FeedsTheRegistry
  <1>1. Init => Feed!FInit
    BY InodesTyped DEF Init, Feed!FInit, Registered
  <1> QED
    BY <1>1, NextFeeds, Inductive, PTL DEF Spec, FeedsTheRegistry, Feed!FSpec
=============================================================================
