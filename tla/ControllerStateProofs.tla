------------------------ MODULE ControllerStateProofs ------------------------
(***************************************************************************)
(* What the KCD listener knows and remembers (controller.go:305-340).      *)
(*                                                                         *)
(* Each KCD has a chain of notifications not yet handled: the first starts *)
(* at the status in kcdStates, each next one where the one before ends,    *)
(* and the last ends at what the informer's cache says.  The chain holds   *)
(* as long as every update is seen and no two KCDs share a name;           *)
(* controller.go:332 gives them one entry if they do.  From it follows     *)
(* that the listener ignores no start.  That a start it has queued is kept *)
(* needs neither.                                                          *)
(***************************************************************************)
EXTENDS ControllerProofs

\* What the theorem assumes of the constants.
SeenAndNamed ==
    /\ ~Bundling
    /\ \A k, l \in KCDs : Name[k] = Name[l] => k = l

Of(k, n) == notes[n].key = k

FirstKnown(k) ==
    \A n \in 1 .. Len(notes) :
        Of(k, n) /\ (\A m \in 1 .. (n - 1) : ~Of(k, m)) /\ notes[n].old # NoKCD =>
            kcdStates[Name[k]] = notes[n].old.status

NextKnown(k) ==
    \A m, n \in 1 .. Len(notes) :
        /\ m < n /\ Of(k, m) /\ Of(k, n)
        /\ \A i \in (m + 1) .. (n - 1) : ~Of(k, i)
        /\ notes[n].old # NoKCD
        => notes[n].old = notes[m].new

LastKnown(k) ==
    \A n \in 1 .. Len(notes) :
        /\ Of(k, n) /\ \A m \in (n + 1) .. Len(notes) : ~Of(k, m)
        /\ cached[k] # NoKCD
        => notes[n].new = cached[k]

NoneLeft(k) ==
    cached[k] # NoKCD /\ (\A n \in 1 .. Len(notes) : ~Of(k, n)) =>
        kcdStates[Name[k]] = cached[k].status

Chain ==
    \A k \in KCDs : FirstKnown(k) /\ NextKnown(k) /\ LastKnown(k) /\ NoneLeft(k)

-----------------------------------------------------------------------------
\* Steps that neither the informer of KCDs nor its listener takes.
LEMMA StillChain ==
    ASSUME Chain, UNCHANGED <<notes, cached, kcdStates>>
    PROVE  Chain'
BY DEF Chain, FirstKnown, NextKnown, LastKnown, NoneLeft, Of

\* A process that has just started knows nothing.
LEMMA FreshChain ==
    ASSUME notes = <<>>, cached = [k \in KCDs |-> NoKCD]
    PROVE  Chain
<1>1. Len(notes) = 0 /\ \A k \in KCDs : cached[k] = NoKCD
  OBVIOUS
<1>2. QED
  BY <1>1 DEF Chain, FirstKnown, NextKnown, LastKnown, NoneLeft

\* The informer adds a notification at the end of the chain.
LEMMA SyncChain ==
    ASSUME TypeOK, Chain, ~Bundling, NEW k \in KCDs, Sync(k)
    PROVE  Chain'
<1>1. /\ cached \in [KCDs -> KCD \cup {NoKCD}]
      /\ cached' = [cached EXCEPT ![k] = kcd[k]]
      /\ UNCHANGED kcdStates /\ notes \in Seq(Note) /\ Len(notes) \in Nat
  <2>1. cached \in [KCDs -> KCD \cup {NoKCD}] /\ notes \in Seq(Note)
    BY TypeParts DEF InformersTypeOK
  <2>2. cached' = [cached EXCEPT ![k] = kcd[k]] /\ UNCHANGED kcdStates
    BY DEF Sync, listener
  <2>3. QED
    BY <2>1, <2>2
<1>2. \A l \in KCDs \ {k} : cached'[l] = cached[l]
  BY <1>1
<1>3. cached'[k] = kcd[k]
  BY <1>1
<1>4. CASE kcd[k] = NoKCD
  <2>1. UNCHANGED notes
    BY <1>4 DEF Sync
  <2>2. QED
    BY <1>1, <1>2, <1>3, <1>4, <2>1
    DEF Chain, FirstKnown, NextKnown, LastKnown, NoneLeft, Of
<1>5. CASE kcd[k] # NoKCD
  <2> DEFINE x == [key |-> k, old |-> cached[k], new |-> kcd[k]]
  <2>1. notes' = Append(notes, x)
    BY <1>5 DEF Sync
  <2>2. x.key = k /\ x.old = cached[k] /\ x.new = kcd[k]
    OBVIOUS
  <2>3. /\ Len(notes') = Len(notes) + 1 /\ notes'[Len(notes) + 1] = x
        /\ \A n \in 1 .. Len(notes) : notes'[n] = notes[n]
    BY <1>1, <2>1
  <2> HIDE DEF x
  <2>4. ASSUME NEW l \in KCDs PROVE FirstKnown(l)'
    <3> SUFFICES ASSUME NEW n \in 1 .. Len(notes'), Of(l, n)',
                        \A m \in 1 .. (n - 1) : ~Of(l, m)',
                        notes'[n].old # NoKCD
                 PROVE  kcdStates[Name[l]] = notes'[n].old.status
      BY <1>1 DEF FirstKnown
    <3>1. CASE n \in 1 .. Len(notes)
      <4>1. \A m \in 1 .. (n - 1) : ~Of(l, m)
        BY <1>1, <2>3, <3>1 DEF Of
      <4>2. QED
        BY <2>3, <3>1, <4>1 DEF Chain, FirstKnown, Of
    <3>2. CASE n = Len(notes) + 1
      <4>1. l = k /\ cached[k] # NoKCD
        BY <2>2, <2>3, <3>2 DEF Of
      <4>2. \A m \in 1 .. Len(notes) : ~Of(k, m)
        BY <1>1, <2>3, <3>2, <4>1 DEF Of
      <4>3. QED
        BY <2>2, <2>3, <3>2, <4>1, <4>2 DEF Chain, NoneLeft
    <3>3. QED
      BY <1>1, <2>3, <3>1, <3>2
  <2>5. ASSUME NEW l \in KCDs PROVE NextKnown(l)'
    <3> SUFFICES ASSUME NEW m \in 1 .. Len(notes'), NEW n \in 1 .. Len(notes'),
                        m < n, Of(l, m)', Of(l, n)',
                        \A i \in (m + 1) .. (n - 1) : ~Of(l, i)',
                        notes'[n].old # NoKCD
                 PROVE  notes'[n].old = notes'[m].new
      BY DEF NextKnown
    <3>1. m \in 1 .. Len(notes)
      BY <1>1, <2>3
    <3>2. \A i \in (m + 1) .. (n - 1) : ~Of(l, i)
      BY <1>1, <2>3 DEF Of
    <3>3. CASE n \in 1 .. Len(notes)
      BY <2>3, <3>1, <3>2, <3>3 DEF Chain, NextKnown, Of
    <3>4. CASE n = Len(notes) + 1
      <4>1. l = k /\ cached[k] # NoKCD /\ notes'[n].old = cached[k]
        BY <2>2, <2>3, <3>4 DEF Of
      <4>2. Of(k, m) /\ \A i \in (m + 1) .. Len(notes) : ~Of(k, i)
        BY <1>1, <2>3, <3>1, <3>2, <3>4, <4>1 DEF Of
      <4>3. notes[m].new = cached[k]
        BY <3>1, <4>1, <4>2 DEF Chain, LastKnown
      <4>4. QED
        BY <2>3, <3>1, <4>1, <4>3
    <3>5. QED
      BY <1>1, <2>3, <3>3, <3>4
  <2>6. ASSUME NEW l \in KCDs PROVE LastKnown(l)'
    <3> SUFFICES ASSUME NEW n \in 1 .. Len(notes'), Of(l, n)',
                        \A m \in (n + 1) .. Len(notes') : ~Of(l, m)',
                        cached'[l] # NoKCD
                 PROVE  notes'[n].new = cached'[l]
      BY DEF LastKnown
    <3>1. CASE n \in 1 .. Len(notes)
      <4>1. l # k
        BY <1>1, <2>2, <2>3, <3>1 DEF Of
      <4>2. Of(l, n) /\ \A m \in (n + 1) .. Len(notes) : ~Of(l, m)
        BY <1>1, <2>3, <3>1 DEF Of
      <4>3. QED
        BY <1>2, <2>3, <3>1, <4>1, <4>2 DEF Chain, LastKnown
    <3>2. CASE n = Len(notes) + 1
      BY <1>3, <2>2, <2>3, <3>2 DEF Of
    <3>3. QED
      BY <1>1, <2>3, <3>1, <3>2
  <2>7. ASSUME NEW l \in KCDs PROVE NoneLeft(l)'
    <3> SUFFICES ASSUME cached'[l] # NoKCD,
                        \A n \in 1 .. Len(notes') : ~Of(l, n)'
                 PROVE  kcdStates[Name[l]] = cached'[l].status
      BY <1>1 DEF NoneLeft
    <3>1. l # k
      BY <1>1, <2>2, <2>3 DEF Of
    <3>2. \A n \in 1 .. Len(notes) : ~Of(l, n)
      BY <1>1, <2>3 DEF Of
    <3>3. QED
      BY <1>2, <3>1, <3>2 DEF Chain, NoneLeft
  <2>8. QED
    BY <2>4, <2>5, <2>6, <2>7 DEF Chain
<1>6. QED
  BY <1>4, <1>5

\* The listener handles the first of the chain: whether trackKcd takes the
\* status over or ignores the update, kcdStates is then what it ended at.
LEMMA HandleChain ==
    ASSUME TypeOK, Chain, SeenAndNamed, TrackAddKcd \/ TrackKcd
    PROVE  Chain'
<1> DEFINE k == notes[1].key
           s == notes[1].new.status
<1>1. /\ notes \in Seq(Note) /\ notes # <<>> /\ notes' = Tail(notes)
      /\ NextNote = notes[1] /\ UNCHANGED cached
  <2>1. notes \in Seq(Note)
    BY TypeParts DEF InformersTypeOK
  <2>2. notes # <<>> /\ notes' = Tail(notes) /\ UNCHANGED cached
    BY DEF TrackAddKcd, TrackKcd, HandleNote
  <2>3. QED
    BY <2>1, <2>2, HeadTailType DEF NextNote
<1>2. /\ Len(notes) \in Nat \ {0} /\ Len(notes') = Len(notes) - 1
      /\ \A n \in 1 .. Len(notes') : n + 1 \in 1 .. Len(notes)
                                    /\ notes'[n] = notes[n + 1]
  <2>1. Len(notes) \in Nat \ {0}
    BY <1>1
  <2>2. Len(notes') = Len(notes) - 1 /\ \A n \in 1 .. Len(notes') :
                                           notes'[n] = notes[n + 1]
    BY <1>1
  <2>3. QED
    BY <2>1, <2>2
<1>3. notes[1] \in Note /\ k \in KCDs
  <2>1. notes[1] \in Note
    BY <1>1, HeadTailType
  <2>2. QED
    BY <2>1 DEF Note
<1>4. kcdStates \in [{Name[l] : l \in KCDs} -> Status \cup {""}]
  BY TypeParts DEF ListenerTypeOK
<1>5. /\ kcdStates'[Name[k]] = s
      /\ \A l \in KCDs \ {k} : kcdStates'[Name[l]] = kcdStates[Name[l]]
  <2>1. CASE kcdStates' = [kcdStates EXCEPT ![Name[k]] = s]
    BY <1>3, <1>4, <2>1 DEF SeenAndNamed
  <2>2. CASE TrackKcd /\ s \in {notes[1].old.status, kcdStates[Name[k]]}
    <3>1. notes[1].old # NoKCD /\ UNCHANGED kcdStates
      BY <1>1, <2>2 DEF TrackKcd
    <3>2. 1 \in 1 .. Len(notes) /\ Of(k, 1) /\ \A m \in 1 .. (1 - 1) : ~Of(k, m)
      BY <1>2 DEF Of
    <3>3. kcdStates[Name[k]] = notes[1].old.status
      BY <1>3, <3>1, <3>2 DEF Chain, FirstKnown
    <3>4. QED
      BY <2>2, <3>1, <3>3
  <2>3. QED
    BY <1>1, <2>1, <2>2 DEF TrackAddKcd, TrackKcd
<1> HIDE DEF k, s
<1>6. \A l, n : n \in 1 .. Len(notes') => (Of(l, n)' <=> Of(l, n + 1))
  BY <1>2 DEF Of
<1>7. \A l : Of(l, 1) <=> l = k
  BY DEF Of, k
<1>8. ASSUME NEW l \in KCDs PROVE FirstKnown(l)'
  <2> SUFFICES ASSUME NEW n \in 1 .. Len(notes'), Of(l, n)',
                      \A m \in 1 .. (n - 1) : ~Of(l, m)',
                      notes'[n].old # NoKCD
               PROVE  kcdStates'[Name[l]] = notes'[n].old.status
    BY DEF FirstKnown
  <2>1. \A m \in 2 .. n : ~Of(l, m)
    <3> SUFFICES ASSUME NEW m \in 2 .. n PROVE ~Of(l, m)
      OBVIOUS
    <3>1. m - 1 \in 1 .. (n - 1) /\ m - 1 \in 1 .. Len(notes') /\ (m - 1) + 1 = m
      BY <1>2
    <3>2. QED
      BY <1>6, <3>1
  <2>2. Of(l, n + 1) /\ n + 1 \in 1 .. Len(notes) /\ notes'[n] = notes[n + 1]
    BY <1>2, <1>6
  <2>3. CASE l = k
    <3>1. Of(k, 1) /\ 1 < n + 1 /\ 1 \in 1 .. Len(notes)
      BY <1>2, <1>7
    <3>2. \A i \in (1 + 1) .. ((n + 1) - 1) : ~Of(k, i)
      BY <2>1, <2>3
    <3>3. notes[n + 1].old = notes[1].new
      BY <1>3, <2>2, <2>3, <3>1, <3>2 DEF Chain, NextKnown
    <3>4. QED
      BY <1>5, <2>2, <2>3, <3>3 DEF s
  <2>4. CASE l # k
    <3>1. \A m \in 1 .. ((n + 1) - 1) : ~Of(l, m)
      BY <1>7, <2>1, <2>4
    <3>2. kcdStates[Name[l]] = notes[n + 1].old.status
      BY <2>2, <3>1 DEF Chain, FirstKnown
    <3>3. QED
      BY <1>5, <2>2, <2>4, <3>2
  <2>5. QED
    BY <2>3, <2>4
<1>9. ASSUME NEW l \in KCDs PROVE NextKnown(l)'
  <2> SUFFICES ASSUME NEW m \in 1 .. Len(notes'), NEW n \in 1 .. Len(notes'),
                      m < n, Of(l, m)', Of(l, n)',
                      \A i \in (m + 1) .. (n - 1) : ~Of(l, i)',
                      notes'[n].old # NoKCD
               PROVE  notes'[n].old = notes'[m].new
    BY DEF NextKnown
  <2>1. \A i \in ((m + 1) + 1) .. ((n + 1) - 1) : ~Of(l, i)
    <3> SUFFICES ASSUME NEW i \in ((m + 1) + 1) .. ((n + 1) - 1) PROVE ~Of(l, i)
      OBVIOUS
    <3>1. /\ i - 1 \in (m + 1) .. (n - 1) /\ i - 1 \in 1 .. Len(notes')
          /\ (i - 1) + 1 = i
      BY <1>2
    <3>2. QED
      BY <1>6, <3>1
  <2>2. /\ Of(l, m + 1) /\ m + 1 \in 1 .. Len(notes) /\ notes'[m] = notes[m + 1]
        /\ Of(l, n + 1) /\ n + 1 \in 1 .. Len(notes) /\ notes'[n] = notes[n + 1]
    BY <1>2, <1>6
  <2>3. m + 1 < n + 1
    OBVIOUS
  <2>4. notes[n + 1].old = notes[m + 1].new
    BY <2>1, <2>2, <2>3 DEF Chain, NextKnown
  <2>5. QED
    BY <2>2, <2>4
<1>10. ASSUME NEW l \in KCDs PROVE LastKnown(l)'
  <2> SUFFICES ASSUME NEW n \in 1 .. Len(notes'), Of(l, n)',
                      \A m \in (n + 1) .. Len(notes') : ~Of(l, m)',
                      cached[l] # NoKCD
               PROVE  notes'[n].new = cached[l]
    BY <1>1 DEF LastKnown
  <2>1. \A m \in ((n + 1) + 1) .. Len(notes) : ~Of(l, m)
    <3> SUFFICES ASSUME NEW m \in ((n + 1) + 1) .. Len(notes) PROVE ~Of(l, m)
      OBVIOUS
    <3>1. /\ m - 1 \in (n + 1) .. Len(notes') /\ m - 1 \in 1 .. Len(notes')
          /\ (m - 1) + 1 = m
      BY <1>2
    <3>2. QED
      BY <1>6, <3>1
  <2>2. Of(l, n + 1) /\ n + 1 \in 1 .. Len(notes) /\ notes'[n] = notes[n + 1]
    BY <1>2, <1>6
  <2>3. QED
    BY <2>1, <2>2 DEF Chain, LastKnown
<1>11. ASSUME NEW l \in KCDs PROVE NoneLeft(l)'
  <2> SUFFICES ASSUME cached[l] # NoKCD,
                      \A n \in 1 .. Len(notes') : ~Of(l, n)'
               PROVE  kcdStates'[Name[l]] = cached[l].status
    BY <1>1 DEF NoneLeft
  <2>1. \A m \in 2 .. Len(notes) : ~Of(l, m)
    <3> SUFFICES ASSUME NEW m \in 2 .. Len(notes) PROVE ~Of(l, m)
      OBVIOUS
    <3>1. m - 1 \in 1 .. Len(notes') /\ (m - 1) + 1 = m
      BY <1>2
    <3>2. QED
      BY <1>6, <3>1
  <2>2. CASE l = k
    <3>1. Of(k, 1) /\ 1 \in 1 .. Len(notes)
      BY <1>2, <1>7
    <3>2. \A m \in (1 + 1) .. Len(notes) : ~Of(k, m)
      BY <2>1, <2>2
    <3>3. notes[1].new = cached[k]
      BY <1>3, <2>2, <3>1, <3>2 DEF Chain, LastKnown
    <3>4. QED
      BY <1>5, <2>2, <3>3 DEF s
  <2>3. CASE l # k
    <3>1. \A m \in 1 .. Len(notes) : ~Of(l, m)
      BY <1>7, <2>1, <2>3
    <3>2. QED
      BY <1>5, <2>3, <3>1 DEF Chain, NoneLeft
  <2>4. QED
    BY <2>2, <2>3
<1>12. QED
  BY <1>8, <1>9, <1>10, <1>11 DEF Chain

-----------------------------------------------------------------------------
LEMMA NextChain == TypeOK /\ Chain /\ SeenAndNamed /\ [OpenNext]_vars => Chain'
<1> SUFFICES ASSUME TypeOK, Chain, SeenAndNamed, [OpenNext]_vars
             PROVE  Chain'
  OBVIOUS
<1>1. ASSUME NEW k \in KCDs, Sync(k) PROVE Chain'
  BY <1>1, SyncChain DEF SeenAndNamed
<1>2. ASSUME TrackAddKcd \/ TrackKcd PROVE Chain'
  BY <1>2, HandleChain
<1>3. ASSUME Crash PROVE Chain'
  <2>1. notes' = <<>> /\ cached' = [k \in KCDs |-> NoKCD]
    BY <1>3 DEF Crash
  <2>2. Len(notes') = 0 /\ \A k \in KCDs : cached'[k] = NoKCD
    BY <2>1
  <2>3. QED
    BY <2>2 DEF Chain, FirstKnown, NextKnown, LastKnown, NoneLeft
<1>4. ASSUME NEW k \in KCDs,
             \/ \E v \in Versions : StartRollout(k, v)
             \/ EndRollout(k) \/ Withdraw(k) \/ Release(k)
      PROVE  Chain'
  <2>1. UNCHANGED <<notes, cached, kcdStates>>
    BY <1>4
    DEF StartRollout, EndRollout, Withdraw, Change, Release, informers, listener
  <2>2. QED
    BY <2>1, StillChain
<1>5. ASSUME NEW j \in JobIds,
             TrackerEnds(j) \/ JobRemoved(j) \/ OtherDeletes(j)
      PROVE  Chain'
  <2>1. UNCHANGED <<notes, cached, kcdStates>>
    BY <1>5 DEF TrackerEnds, JobRemoved, OtherDeletes, informers, listener
  <2>2. QED
    BY <2>1, StillChain
<1>6. ASSUME HandleDeletion \/ UNCHANGED vars PROVE Chain'
  <2>1. UNCHANGED <<notes, cached, kcdStates>>
    BY <1>6 DEF HandleDeletion, vars, informers, listener
  <2>2. QED
    BY <2>1, StillChain
<1>7. ASSUME NEW w \in Workers,
             \/ Dequeue(w) \/ Lookup(w) \/ GetJob(w) \/ Register(w)
             \/ Delete(w) \/ Confirm(w) \/ Cleanup(w) \/ Create(w)
      PROVE  Chain'
  <2>1. UNCHANGED <<notes, cached, kcdStates>>
    BY <1>7
    DEF Dequeue, Lookup, GetJob, Register, Delete, Confirm, Cleanup, Create,
        informers, listener
  <2>2. QED
    BY <2>1, StillChain
<1>8. CASE Work
  BY <1>1, <1>2, <1>4, <1>6, <1>7, <1>8 DEF Work
<1>9. CASE Step
  BY <1>4, <1>5, <1>8, <1>9 DEF Step
<1>10. QED
  BY <1>3, <1>5, <1>6, <1>9 DEF OpenNext, Next

LEMMA ChainInvariant == SeenAndNamed /\ OpenSpec => []Chain
<1> SUFFICES ASSUME SeenAndNamed PROVE OpenSpec => []Chain
  OBVIOUS
<1>1. Init => Chain
  BY FreshChain DEF Init
<1>2. TypeOK /\ Chain /\ [OpenNext]_vars => Chain'
  BY NextChain
<1>3. QED
  BY <1>1, <1>2, TypeCorrect, PTL DEF OpenSpec

\* Once a KCD's notifications are handled kcdStates is what the cache says,
\* through any number of rollouts, removals, crashes and ignored updates,
\* when updates are not bundled and no two KCDs share a name.
THEOREM StateKnown == SeenAndNamed /\ OpenSpec => []LastKnownState
<1>1. Chain => LastKnownState
  BY DEF Chain, NoneLeft, LastKnownState, Of
<1>2. QED
  BY <1>1, ChainInvariant, PTL

-----------------------------------------------------------------------------
(* Starts that have been heard of.  While a rollout is queued the cache    *)
(* has it, so that a worker that looks its key up finds its version.       *)

LEMMA ProgressingKCD == \A v \in Versions : Rollout(v) \in KCD /\ Rollout(v) # NoKCD
BY NoKCDAssumption DEF Rollout, KCD, Status

\* The fields of a rollout, and the one KCD value that is one.
LEMMA RolloutParts ==
    ASSUME NEW c \in Progressing
    PROVE  /\ c.version \in Versions /\ c = Rollout(c.version)
           /\ c.status = "Progressing" /\ c \in KCD /\ c # NoKCD
BY ProgressingKCD DEF Progressing, Rollout

LEMMA KCDParts ==
    ASSUME NEW c \in KCD
    PROVE  /\ c.version \in Versions /\ c.status \in Status
           /\ c \in Progressing <=> c.status = "Progressing"
           /\ c \in Progressing => c = Rollout(c.version)
<1>1. c.version \in Versions /\ c.status \in Status
  BY DEF KCD
<1>2. c = [status |-> c.status, version |-> c.version]
  BY DEF KCD
<1>3. QED
  BY <1>1, <1>2, RolloutParts DEF Progressing, Rollout

QueuedInCache ==
    \A k \in KCDs :
        start[k] = "queued" => kcd[k] \in Progressing /\ cached[k] = kcd[k]

KeptInv == QueuedInCache /\ StartKept

\* A worker that keeps the start of k from being forgotten.
Keeps(w, k) ==
    /\ workerKey[w] = k
    /\ \/ workerPc[w] = "lookup"
       \/ workerPc[w] # "idle" /\ workerVersion[w] = kcd[k].version

Kept(k) == k \in waiting \cup ready \/ \E w \in Workers : Keeps(w, k)

LEMMA KeptParts == StartKept <=> \A k \in KCDs : start[k] = "queued" => Kept(k)
BY DEF StartKept, Kept, Keeps

\* Steps that change neither queue nor workers, and only take starts back.
LEMMA StillKept ==
    ASSUME KeptInv,
           \A k \in KCDs : start'[k] = "queued" =>
               start[k] = "queued" /\ kcd'[k] = kcd[k] /\ cached'[k] = cached[k],
           waiting \cup ready \subseteq waiting' \cup ready', UNCHANGED worker
    PROVE  KeptInv'
BY DEF KeptInv, QueuedInCache, StartKept, worker

\* The listener queues the key of every start it counts as heard of.
LEMMA ListenerKept ==
    ASSUME TypeOK, KeptInv, TrackAddKcd \/ TrackKcd
    PROVE  KeptInv'
<1> DEFINE k == NextNote.key
           s == NextNote.new.status
<1>1. /\ UNCHANGED <<kcd, cached, ready, worker>>
      /\ Enqueue(k, s = "Progressing") \/ UNCHANGED <<waiting, requeues, start>>
  BY DEF TrackAddKcd, TrackKcd, HandleNote, cluster
<1>2. CASE UNCHANGED <<waiting, start>>
  BY <1>1, <1>2, StillKept
<1>3. CASE s = "Progressing" /\ Enqueue(k, TRUE)
  <2>1. /\ waiting' = waiting \cup {k}
        /\ \A l \in KCDs : start'[l] = "queued" =>
              start[l] = "queued" \/ (l = k /\ NextNote.new = kcd[k] /\ cached[k] = kcd[k])
    BY <1>3 DEF Enqueue, AddRateLimited, TypeOK
  <2>2. NextNote.new \in KCD
    <3>1. NextNote \in Note
      BY HeadTailType, TypeParts
      DEF InformersTypeOK, NextNote, TrackAddKcd, TrackKcd, HandleNote
    <3>2. QED
      BY <3>1 DEF Note
  <2>3. NextNote.new \in Progressing
    BY <1>3, <2>2, KCDParts
  <2>4. QED
    BY <1>1, <2>1, <2>3 DEF KeptInv, QueuedInCache, StartKept, worker
<1>4. QED
  BY <1>1, <1>2, <1>3 DEF Enqueue

LEMMA DequeueKept ==
    ASSUME TypeOK, KeptInv, NEW w \in Workers, Dequeue(w)
    PROVE  KeptInv'
<1>1. PICK k \in ready : /\ Go(w, "idle", "lookup") /\ ready' = ready \ {k}
                         /\ workerKey' = [workerKey EXCEPT ![w] = k]
  BY DEF Dequeue
<1>2. UNCHANGED <<kcd, cached, waiting, start, workerVersion>>
  BY DEF Dequeue, cluster, informers
<1>3. /\ workerKey'[w] = k /\ workerPc'[w] = "lookup" /\ workerPc[w] = "idle"
      /\ \A v \in Workers : v # w =>
            workerKey'[v] = workerKey[v] /\ workerPc'[v] = workerPc[v]
  BY <1>1 DEF Go, TypeOK
<1>4. ASSUME NEW l \in KCDs, Kept(l) PROVE Kept(l)'
  <2>1. CASE l = k
    BY <1>3, <2>1 DEF Kept, Keeps
  <2>2. CASE l # k /\ l \in waiting \cup ready
    BY <1>1, <1>2, <2>2 DEF Kept
  <2>3. ASSUME NEW v \in Workers, Keeps(v, l) PROVE Kept(l)'
    <3>1. v # w
      BY <1>3, <2>3 DEF Keeps
    <3>2. QED
      BY <1>2, <1>3, <2>3, <3>1 DEF Kept, Keeps
  <2>4. QED
    BY <1>4, <2>1, <2>2, <2>3 DEF Kept
<1>5. QED
  BY <1>2, <1>4, KeptParts DEF KeptInv, QueuedInCache, StartKept, Kept, Keeps

\* A worker that works on keeps its key and its version.
LEMMA WorkKept ==
    ASSUME TypeOK, KeptInv, NEW w \in Workers,
           GetJob(w) \/ Register(w) \/ Delete(w) \/ Confirm(w) \/ Cleanup(w)
    PROVE  KeptInv'
<1>1. /\ UNCHANGED <<kcd, cached, waiting, ready, start, workerKey, workerVersion>>
      /\ workerPc[w] \notin {"idle", "lookup"} /\ workerPc'[w] # "idle"
      /\ \A v \in Workers : v # w => workerPc'[v] = workerPc[v]
  BY DEF GetJob, Register, Delete, Confirm, Cleanup, Go, TypeOK, cluster, informers,
         listener
<1>2. \A l \in KCDs, v \in Workers : Keeps(v, l) => Keeps(v, l)'
  BY <1>1 DEF Keeps
<1>3. QED
  BY <1>1, <1>2 DEF KeptInv, QueuedInCache, StartKept, Keeps

\* A key that is looked up while its start is queued is found, in the version
\* that has started.
LEMMA LookupKept ==
    ASSUME TypeOK, KeptInv, NEW w \in Workers, Lookup(w)
    PROVE  KeptInv'
<1> DEFINE k == workerKey[w]
<1>1. /\ UNCHANGED <<kcd, cached, ready>> /\ k \in KCDs /\ workerPc[w] = "lookup"
      /\ \A v \in Workers : v # w => /\ workerPc'[v] = workerPc[v]
                                     /\ workerKey'[v] = workerKey[v]
                                     /\ workerVersion'[v] = workerVersion[v]
  BY DEF Lookup, Go, TypeOK, cluster, informers
<1>2. \A l \in KCDs, v \in Workers : v # w /\ Keeps(v, l) => Keeps(v, l)'
  BY <1>1 DEF Keeps
<1>3. CASE cached[k] = NoKCD /\ Fail(w)
  <2>1. start[k] # "queued"
    BY <1>1, <1>3, RolloutParts DEF KeptInv, QueuedInCache
  <2>2. waiting \subseteq waiting' /\ UNCHANGED start
    BY <1>1, <1>3, <2>1 DEF Fail, Conclude, AddRateLimited, Forget, TypeOK
  <2>3. \A l \in KCDs : l # k => ~Keeps(w, l)
    BY DEF Keeps
  <2>4. QED
    BY <1>1, <1>2, <2>1, <2>2, <2>3 DEF KeptInv, QueuedInCache, StartKept, Keeps
<1>4. CASE /\ Go(w, "lookup", "get") /\ UNCHANGED <<workerKey, waiting, start>>
           /\ workerVersion' = [workerVersion EXCEPT ![w] = cached[k].version]
  <2>1. /\ workerPc'[w] = "get" /\ workerKey'[w] = k
        /\ workerVersion'[w] = cached[k].version
    BY <1>4 DEF Go, TypeOK
  <2>2. start[k] = "queued" => Keeps(w, k)'
    BY <1>1, <2>1 DEF KeptInv, QueuedInCache, Keeps
  <2>3. \A l \in KCDs : l # k => ~Keeps(w, l)
    BY DEF Keeps
  <2>4. QED
    BY <1>1, <1>2, <1>4, <2>2, <2>3 DEF KeptInv, QueuedInCache, StartKept, Keeps
<1>5. QED
  BY <1>3, <1>4 DEF Lookup

\* A worker that leaves puts its key back, or is through with its version.
LEMMA CreateKept ==
    ASSUME TypeOK, KeptInv, NEW w \in Workers, Create(w)
    PROVE  KeptInv'
<1> DEFINE k == workerKey[w]
<1>1. /\ UNCHANGED <<kcd, cached, ready>> /\ k \in KCDs /\ workerPc[w] = "create"
      /\ \A v \in Workers : v # w => /\ workerPc'[v] = workerPc[v]
                                     /\ workerKey'[v] = workerKey[v]
                                     /\ workerVersion'[v] = workerVersion[v]
  BY DEF Create, Go, TypeOK, informers
<1>2. \A l \in KCDs, v \in Workers : v # w /\ Keeps(v, l) => Keeps(v, l)'
  BY <1>1 DEF Keeps
<1>3. Conclude(w) \/ (AddRateLimited(k) /\ UNCHANGED start)
  BY DEF Create, Fail
<1>4. /\ waiting \subseteq waiting'
      /\ \A l \in KCDs : start'[l] = "queued" => start[l] = "queued"
      /\ start'[k] = "queued" => k \in waiting' \/ kcd[k].version # workerVersion[w]
  BY <1>1, <1>3 DEF Conclude, AddRateLimited, Forget, TypeOK
<1>5. ASSUME NEW l \in KCDs, start'[l] = "queued" PROVE Kept(l)'
  <2>1. Kept(l)
    BY <1>4, <1>5, KeptParts DEF KeptInv
  <2>2. CASE l \in waiting \cup ready
    BY <1>1, <1>4, <2>2 DEF Kept
  <2>3. ASSUME NEW v \in Workers, Keeps(v, l) PROVE Kept(l)'
    <3>1. CASE v = w
      <4>1. l = k /\ workerVersion[w] = kcd[k].version
        BY <1>1, <2>3, <3>1 DEF Keeps
      <4>2. k \in waiting'
        BY <1>4, <1>5, <4>1
      <4>3. QED
        BY <4>1, <4>2 DEF Kept
    <3>2. QED
      BY <1>2, <2>3, <3>1 DEF Kept
  <2>4. QED
    BY <2>1, <2>2, <2>3 DEF Kept
<1>6. QED
  BY <1>1, <1>4, <1>5 DEF KeptInv, QueuedInCache, StartKept, Kept, Keeps

LEMMA NextKept == TypeOK /\ KeptInv /\ [OpenNext]_vars => KeptInv'
<1> SUFFICES ASSUME TypeOK, KeptInv, [OpenNext]_vars PROVE KeptInv'
  OBVIOUS
<1>1. ASSUME NEW l \in KCDs, NEW c, Change(l, c) PROVE KeptInv'
  <2>1. /\ UNCHANGED <<cached, waiting, ready, worker>>
        /\ \A k \in KCDs : k # l => start'[k] = start[k] /\ kcd'[k] = kcd[k]
        /\ start'[l] # "queued"
    BY <1>1 DEF Change, TypeOK, informers
  <2>2. QED
    BY <2>1, StillKept
<1>2. ASSUME NEW l \in KCDs, Sync(l) PROVE KeptInv'
  <2>1. /\ UNCHANGED <<kcd, waiting, ready, start, worker>> /\ cached[l] # kcd[l]
        /\ \A k \in KCDs : k # l => cached'[k] = cached[k]
    BY <1>2 DEF Sync, TypeOK, cluster, listener
  <2>2. start[l] # "queued"
    BY <2>1 DEF KeptInv, QueuedInCache
  <2>3. QED
    BY <2>1, <2>2, StillKept
<1>3. ASSUME NEW l \in KCDs, Release(l) PROVE KeptInv'
  <2>1. UNCHANGED <<kcd, cached, start, worker>>
    BY <1>3 DEF Release, cluster, informers
  <2>2. waiting \cup ready \subseteq waiting' \cup ready'
    BY <1>3 DEF Release
  <2>3. QED
    BY <2>1, <2>2, StillKept
<1>4. ASSUME \/ \E j \in JobIds : TrackerEnds(j) \/ JobRemoved(j) \/ OtherDeletes(j)
             \/ HandleDeletion \/ UNCHANGED vars
      PROVE  KeptInv'
  <2>1. UNCHANGED <<kcd, cached, waiting, ready, start, worker>>
    BY <1>4 DEF TrackerEnds, JobRemoved, OtherDeletes, HandleDeletion, vars, cluster,
                informers, listener
  <2>2. QED
    BY <2>1, StillKept
<1>5. ASSUME Crash PROVE KeptInv'
  <2>1. \A k \in KCDs : start'[k] # "queued"
    BY <1>5 DEF Crash, AllUnseen
  <2>2. QED
    BY <2>1 DEF KeptInv, QueuedInCache, StartKept
<1>6. CASE Work
  BY <1>2, <1>3, <1>4, <1>6, ListenerKept, DequeueKept, LookupKept, WorkKept,
     CreateKept
  DEF Work
<1>7. CASE Step
  BY <1>1, <1>4, <1>6, <1>7 DEF Step, StartRollout, EndRollout, Withdraw
<1>8. QED
  BY <1>4, <1>5, <1>7 DEF OpenNext, Next

\* controller.go:139, "dequeues workqueue with retry if failed", and README.md:16:
\* the start of a rollout, once heard of, is not forgotten before a worker that
\* has found its version is through with it, with any number of workers on
\* any number of keys, other deleters, failing calls, bundled updates, KCDs of
\* one name or one app, and crashes.
THEOREM StartsKept == OpenSpec => []StartKept
<1>1. Init => KeptInv
  <2> SUFFICES ASSUME Init PROVE KeptInv
    OBVIOUS
  <2>1. \A k \in KCDs : start[k] # "queued"
    BY DEF Init, AllUnseen
  <2>2. QED
    BY <2>1 DEF KeptInv, QueuedInCache, StartKept
<1>2. TypeOK /\ KeptInv /\ [OpenNext]_vars => KeptInv'
  BY NextKept
<1>3. KeptInv => StartKept
  BY DEF KeptInv
<1>4. QED
  BY <1>1, <1>2, <1>3, TypeCorrect, PTL DEF OpenSpec

-----------------------------------------------------------------------------
(* Starts that have not been heard of.  A rollout that starts is seen to   *)
(* start: no notification has it in progress before and after, neither     *)
(* have the cache and the KCD.                                             *)

StartSeen ==
    \A k \in KCDs :
        kcd[k] \in Progressing /\ cached[k] # kcd[k] => cached[k] \notin Progressing

StartNoted ==
    \A n \in 1 .. Len(notes) :
        notes[n].new \in Progressing => notes[n].old \notin Progressing

StartsKnown == StartSeen /\ StartNoted

OnlyProgressing == \A k \in KCDs : start[k] # "none" => kcd[k] \in Progressing

HeardInv == StartsKnown /\ OnlyProgressing /\ StartHeard

\* What is to be heard of k.
Audible(k) ==
    \/ cached[k] # kcd[k]
    \/ \E n \in 1 .. Len(notes) : notes[n].key = k /\ notes[n].new = kcd[k]

LEMMA HeardParts == StartHeard <=> \A k \in KCDs : start[k] = "unseen" => Audible(k)
BY DEF StartHeard, Audible

\* Steps that neither the KCDs, their informer nor its listener take.
LEMMA StillHeard ==
    ASSUME HeardInv, UNCHANGED <<kcd, cached, notes>>,
           \A k \in KCDs : start'[k] \in {start[k], "none"}
    PROVE  HeardInv'
BY DEF HeardInv, StartsKnown, StartSeen, StartNoted, OnlyProgressing, StartHeard

LEMMA ClusterHeard ==
    ASSUME TypeOK, HeardInv, ~Bundling, NEW k \in KCDs,
           \/ \E v \in Versions : StartRollout(k, v)
           \/ EndRollout(k) \/ Withdraw(k)
    PROVE  HeardInv'
<1>1. /\ kcd \in [KCDs -> KCD \cup {NoKCD}]
      /\ UNCHANGED <<notes, cached>> /\ cached[k] = kcd[k]
      /\ \A l \in KCDs : l # k => kcd'[l] = kcd[l] /\ start'[l] = start[l]
      /\ start'[k] = IF kcd'[k] \in Progressing THEN "unseen" ELSE "none"
  <2>1. PICK c : Change(k, c)
    BY DEF StartRollout, EndRollout, Withdraw
  <2>2. /\ kcd \in [KCDs -> KCD \cup {NoKCD}]
        /\ start \in [KCDs -> {"none", "unseen", "queued"}]
    BY DEF TypeOK
  <2>3. QED
    BY <2>1, <2>2 DEF Change, Seen, informers
<1>2. kcd'[k] \in Progressing => kcd[k] \notin Progressing
  <2>1. CASE EndRollout(k)
    <3>1. kcd'[k] = [kcd[k] EXCEPT !.status = "Finished"] /\ kcd[k] \in KCD
      BY <1>1, <2>1, RolloutParts DEF EndRollout, Change
    <3>2. kcd'[k].status = "Finished"
      BY <3>1 DEF KCD
    <3>3. QED
      BY <3>2, RolloutParts
  <2>2. CASE Withdraw(k)
    BY <1>1, <2>2, RolloutParts DEF Withdraw, Change
  <2>3. QED
    BY <2>1, <2>2 DEF StartRollout
<1>3. QED
  BY <1>1, <1>2
  DEF HeardInv, StartsKnown, StartSeen, StartNoted, OnlyProgressing, StartHeard

\* The informer passes on what it sees.
LEMMA SyncHeard ==
    ASSUME TypeOK, HeardInv, ~Bundling, NEW k \in KCDs, Sync(k)
    PROVE  HeardInv'
<1>1. /\ cached \in [KCDs -> KCD \cup {NoKCD}] /\ notes \in Seq(Note)
      /\ UNCHANGED <<kcd, start>>
      /\ cached' = [cached EXCEPT ![k] = kcd[k]] /\ cached[k] # kcd[k]
      /\ \/ UNCHANGED notes /\ kcd[k] = NoKCD
         \/ notes' = Append(notes, [key |-> k, old |-> cached[k], new |-> kcd[k]])
  BY TypeParts DEF InformersTypeOK, Sync, cluster, listener
<1>2. StartSeen'
  BY <1>1 DEF HeardInv, StartsKnown, StartSeen
<1>3. StartNoted'
  <2> SUFFICES ASSUME NEW n \in 1 .. Len(notes'), notes'[n].new \in Progressing
               PROVE  notes'[n].old \notin Progressing
    BY DEF StartNoted
  <2>1. \/ n \in 1 .. Len(notes) /\ notes'[n] = notes[n]
        \/ notes'[n] = [key |-> k, old |-> cached[k], new |-> kcd[k]]
    BY <1>1
  <2>2. QED
    BY <1>1, <2>1 DEF HeardInv, StartsKnown, StartNoted, StartSeen
<1>4. ASSUME NEW l \in KCDs, start[l] = "unseen" PROVE Audible(l)'
  <2>1. Audible(l) /\ kcd[l] \in Progressing
    BY <1>4, HeardParts DEF HeardInv, OnlyProgressing
  <2>2. CASE l = k
    <3>1. notes' = Append(notes, [key |-> k, old |-> cached[k], new |-> kcd[k]])
      BY <1>1, <2>1, <2>2, RolloutParts
    <3>2. /\ Len(notes') \in 1 .. Len(notes')
          /\ notes'[Len(notes')] = [key |-> k, old |-> cached[k], new |-> kcd[k]]
      BY <1>1, <3>1
    <3>3. QED
      BY <1>1, <2>2, <3>2 DEF Audible
  <2>3. CASE l # k
    <3>1. \A n \in 1 .. Len(notes) : n \in 1 .. Len(notes') /\ notes'[n] = notes[n]
      BY <1>1
    <3>2. QED
      BY <1>1, <2>1, <2>3, <3>1 DEF Audible
  <2>4. QED
    BY <2>2, <2>3
<1>5. QED
  BY <1>1, <1>2, <1>3, <1>4, HeardParts
  DEF HeardInv, StartsKnown, OnlyProgressing, StartHeard, Audible

\* The listener ignores no start: neither the status before it nor the one
\* that is noted for the name is "Progressing".
LEMMA StartTaken ==
    ASSUME TypeOK, Chain, StartsKnown, TrackAddKcd \/ TrackKcd,
           notes[1].new \in Progressing
    PROVE  Enqueue(notes[1].key, TRUE)
<1> DEFINE k == notes[1].key
<1>1. NextNote = notes[1] /\ notes[1] \in Note /\ 1 \in 1 .. Len(notes)
  <2>1. notes \in Seq(Note) /\ notes # <<>>
    BY TypeParts DEF InformersTypeOK, TrackAddKcd, TrackKcd, HandleNote
  <2>2. QED
    BY <2>1, HeadTailType DEF NextNote
<1>2. notes[1].new.status = "Progressing"
  BY RolloutParts
<1>3. notes[1].old \in KCD \cup {NoKCD} /\ notes[1].old \notin Progressing
  BY <1>1 DEF Note, StartsKnown, StartNoted
<1>4. CASE notes[1].old = NoKCD
  BY <1>1, <1>2, <1>4 DEF TrackAddKcd, TrackKcd
<1>5. CASE notes[1].old # NoKCD
  <2>1. notes[1].old.status # "Progressing"
    BY <1>3, <1>5, KCDParts
  <2>2. k \in KCDs /\ Of(k, 1) /\ \A m \in 1 .. (1 - 1) : ~Of(k, m)
    BY <1>1 DEF Of, Note
  <2>3. kcdStates[Name[k]] = notes[1].old.status
    BY <1>1, <1>5, <2>2 DEF Chain, FirstKnown
  <2>4. QED
    BY <1>1, <1>2, <1>5, <2>1, <2>3 DEF TrackAddKcd, TrackKcd
<1>6. QED
  BY <1>4, <1>5

LEMMA ListenerHeard ==
    ASSUME TypeOK, Chain, HeardInv, TrackAddKcd \/ TrackKcd
    PROVE  HeardInv'
<1>1. /\ UNCHANGED <<kcd, cached>> /\ NextNote = notes[1]
      /\ notes # <<>> /\ notes' = Tail(notes) /\ notes \in Seq(Note)
  <2>1. notes # <<>> /\ notes' = Tail(notes) /\ UNCHANGED <<kcd, cached>>
    BY DEF TrackAddKcd, TrackKcd, HandleNote, cluster
  <2>2. notes \in Seq(Note)
    BY TypeParts DEF InformersTypeOK
  <2>3. QED
    BY <2>1, <2>2, HeadTailType DEF NextNote
<1>2. Len(notes) \in Nat \ {0} /\ Len(notes') = Len(notes) - 1
      /\ \A n \in 2 .. Len(notes) : n - 1 \in 1 .. Len(notes')
                                   /\ notes'[n - 1] = notes[n]
  <2>1. Len(notes) \in Nat \ {0} /\ Len(notes') = Len(notes) - 1
    BY <1>1
  <2>2. \A n \in 1 .. Len(notes') : notes'[n] = notes[n + 1]
    BY <1>1
  <2>3. ASSUME NEW n \in 2 .. Len(notes)
        PROVE  n - 1 \in 1 .. Len(notes') /\ notes'[n - 1] = notes[n]
    <3>1. n - 1 \in 1 .. Len(notes') /\ (n - 1) + 1 = n
      BY <2>1
    <3>2. QED
      BY <2>2, <3>1
  <2>4. QED
    BY <2>1, <2>3
<1>3. StartsKnown'
  <2> SUFFICES ASSUME NEW n \in 1 .. Len(notes'), notes'[n].new \in Progressing
               PROVE  notes'[n].old \notin Progressing
    BY <1>1 DEF HeardInv, StartsKnown, StartSeen, StartNoted
  <2>1. n + 1 \in 1 .. Len(notes) /\ n + 1 \in 2 .. Len(notes) /\ (n + 1) - 1 = n
    BY <1>2
  <2>2. notes'[n] = notes[n + 1]
    BY <1>2, <2>1
  <2>3. QED
    BY <2>1, <2>2 DEF HeardInv, StartsKnown, StartNoted
<1>4. /\ \A l \in KCDs : start'[l] \in {start[l], "queued"}
      /\ \A l \in KCDs : start'[l] # start[l] => cached[l] = kcd[l] /\ NextNote.new = kcd[l]
                                                /\ NextNote.new.status = "Progressing"
  BY DEF TrackAddKcd, TrackKcd, Enqueue, TypeOK
<1>5. OnlyProgressing'
  <2> SUFFICES ASSUME NEW l \in KCDs, start'[l] # "none" PROVE kcd[l] \in Progressing
    BY <1>1 DEF OnlyProgressing
  <2>1. CASE start'[l] = start[l]
    BY <2>1 DEF HeardInv, OnlyProgressing
  <2>2. CASE start'[l] # start[l]
    <3>1. notes[1] \in Note
      BY <1>1, HeadTailType
    <3>2. kcd[l] \in KCD /\ kcd[l].status = "Progressing"
      BY <1>1, <1>4, <2>2, <3>1 DEF Note
    <3>3. QED
      BY <3>2, KCDParts
  <2>3. QED
    BY <2>1, <2>2
<1>6. ASSUME NEW l \in KCDs, start'[l] = "unseen" PROVE Audible(l)'
  <2>1. start[l] = "unseen" /\ kcd[l] \in Progressing /\ Audible(l)
    BY <1>4, <1>6, HeardParts DEF HeardInv, OnlyProgressing
  <2>2. CASE cached[l] # kcd[l]
    BY <1>1, <2>2 DEF Audible
  <2>3. ASSUME cached[l] = kcd[l], NEW n \in 1 .. Len(notes), notes[n].key = l,
               notes[n].new = kcd[l]
        PROVE  Audible(l)'
    <3>1. CASE n = 1
      <4>1. Enqueue(l, TRUE)
        BY <2>1, <2>3, <3>1, StartTaken DEF HeardInv
      <4>2. start'[l] = "queued"
        BY <1>1, <2>3, <3>1, <4>1 DEF Enqueue, TypeOK
      <4>3. QED
        BY <1>6, <4>2
    <3>2. CASE n # 1
      <4>1. n \in 2 .. Len(notes)
        BY <1>2, <3>2
      <4>2. n - 1 \in 1 .. Len(notes') /\ notes'[n - 1] = notes[n]
        BY <1>2, <4>1
      <4>3. QED
        BY <1>1, <2>3, <4>2 DEF Audible
    <3>3. QED
      BY <3>1, <3>2
  <2>4. QED
    BY <2>1, <2>2, <2>3 DEF Audible
<1>7. QED
  BY <1>3, <1>5, <1>6, HeardParts DEF HeardInv, StartHeard, Audible

LEMMA NextHeard ==
    ASSUME TypeOK, Chain, HeardInv, ~Bundling, [OpenNext]_vars
    PROVE  HeardInv'
<1>1. ASSUME Crash PROVE HeardInv'
  <2>1. /\ Len(notes') = 0 /\ UNCHANGED kcd
        /\ \A k \in KCDs : cached'[k] = NoKCD
        /\ \A k \in KCDs : start'[k] # "none" => kcd[k] \in Progressing
    BY <1>1 DEF Crash, AllUnseen
  <2>2. \A k \in KCDs : cached'[k] \notin Progressing
    BY <2>1, RolloutParts
  <2>3. QED
    BY <2>1, <2>2
    DEF HeardInv, StartsKnown, StartSeen, StartNoted, OnlyProgressing, StartHeard
<1>2. ASSUME \/ \E k \in KCDs : Release(k)
             \/ \E j \in JobIds : TrackerEnds(j) \/ JobRemoved(j) \/ OtherDeletes(j)
             \/ HandleDeletion \/ UNCHANGED vars
      PROVE  HeardInv'
  <2>1. UNCHANGED <<kcd, cached, notes, start>>
    BY <1>2 DEF Release, TrackerEnds, JobRemoved, OtherDeletes, HandleDeletion, vars,
                cluster, informers, listener
  <2>2. QED
    BY <2>1, StillHeard
<1>3. ASSUME NEW w \in Workers,
             \/ Dequeue(w) \/ Lookup(w) \/ GetJob(w) \/ Register(w)
             \/ Delete(w) \/ Confirm(w) \/ Cleanup(w) \/ Create(w)
      PROVE  HeardInv'
  <2>1. /\ UNCHANGED <<kcd, cached, notes>>
        /\ \A k \in KCDs : start'[k] \in {start[k], "none"}
    BY <1>3
    DEF Dequeue, Lookup, GetJob, Register, Delete, Confirm, Cleanup, Create, Fail,
        Conclude, TypeOK, cluster, informers, listener
  <2>2. QED
    BY <2>1, StillHeard
<1>4. CASE Work
  BY <1>2, <1>3, <1>4, SyncHeard, ListenerHeard DEF Work
<1>5. CASE Step
  BY <1>2, <1>4, <1>5, ClusterHeard DEF Step
<1>6. QED
  BY <1>1, <1>2, <1>5 DEF OpenNext, Next

\* controller.go:318-325: the filters of trackKcd ignore no start.  A rollout
\* in progress that this process has not yet heard of is still to be heard of,
\* through bursts of rollouts, removals and crashes with notifications
\* pending, when updates are not bundled and no two KCDs share a name.
THEOREM StartsHeard == SeenAndNamed /\ OpenSpec => []StartHeard
<1> SUFFICES ASSUME SeenAndNamed PROVE OpenSpec => []StartHeard
  OBVIOUS
<1>1. Init => HeardInv
  <2> SUFFICES ASSUME Init PROVE HeardInv
    OBVIOUS
  <2>1. /\ Len(notes) = 0 /\ \A k \in KCDs : cached[k] = NoKCD
        /\ \A k \in KCDs : start[k] # "none" => kcd[k] \in Progressing
    BY DEF Init, AllUnseen
  <2>2. \A k \in KCDs : cached[k] \notin Progressing
    BY <2>1, RolloutParts
  <2>3. QED
    BY <2>1, <2>2
    DEF HeardInv, StartsKnown, StartSeen, StartNoted, OnlyProgressing, StartHeard
<1>2. TypeOK /\ Chain /\ HeardInv /\ [OpenNext]_vars => HeardInv'
  BY NextHeard DEF SeenAndNamed
<1>3. HeardInv => StartHeard
  BY DEF HeardInv
<1>4. QED
  BY <1>1, <1>2, <1>3, TypeCorrect, ChainInvariant, PTL DEF OpenSpec

=============================================================================
