-------------------------- MODULE MergeWatchProofs --------------------------
(***************************************************************************)
(* Theorems about MergeWatch, for every value of its constants.             *)
(***************************************************************************)
EXTENDS MergeWatch, TLAPS

GivesUp == {"stalled", "unaddressed", "escalated"}

\* Budgets hold in every copy of the row, and an attempt under way is within them.
Budgets ==
    /\ \A w \in Pollers : /\ poll[w].snap.fixN <= FixMax /\ poll[w].snap.conflictN <= ConflictMax
                          /\ poll[w].out = "ci_sent" => poll[w].nth <= FixMax
                          /\ poll[w].out = "conflict_retry" => poll[w].nth <= ConflictMax
    /\ pr.mergeable = "behind" => pr.head < MaxHead

\* What polls remember is still true: a failed watch was reported, a merged PR stays merged.
Remembered ==
    \A w \in Pollers :
        /\ poll[w].snap.status = "failed" \/ poll[w].out = "look" => told
        /\ poll[w].pc # "act" /\ poll[w].out \in GivesUp => told
        /\ poll[w].pull.state = "merged" \/ poll[w].out = "merged" => pr.state = "merged"

\* The inductive invariant.
Inv == TypeOK /\ Budgets /\ Remembered /\ FounderKnows /\ LandedIsMerged

-----------------------------------------------------------------------------
(* Types.                                                                   *)

LEMMA Constants == Opened \in PullRequests /\ Watched \in Rows /\ Idle \in Polls
<1>1. Opened \in PullRequests
  BY WatchBounds DEF Opened, PullRequests, Heads
<1>2. Watched \in Rows
  BY WatchBounds DEF Watched, Rows, Heads, Live
<1>3. QED
  BY <1>1, <1>2, WatchBounds DEF Idle, Polls, Pcs, Outcomes, Heads

\* A poll that concludes without the snapshot.
LEMMA Concludes ==
    ASSUME NEW pc \in Pcs, NEW out \in Outcomes, NEW h \in Heads, NEW m \in BOOLEAN, NEW n \in Nat
    PROVE  /\ [Idle EXCEPT !.pc = pc, !.out = out, !.head = h, !.moved = m, !.nth = n] \in Polls
           /\ [Idle EXCEPT !.pc = pc, !.out = out] \in Polls
BY Constants DEF Polls, Idle

\* A column written at a time: the row stays well formed, the other columns stay.
SameCounts(r, s) == s.fixN = r.fixN /\ s.conflictN = r.conflictN

LEMMA SetStatus ==
    \A r \in Rows : \A s \in Live \union {"failed", "merged", "abandoned"} :
        LET q == [r EXCEPT !.status = s] IN q \in Rows /\ q.status = s /\ SameCounts(r, q)
BY DEF Rows, SameCounts

LEMMA SetAge ==
    \A r \in Rows : \A a \in {"young", "late", "old"} :
        LET q == [r EXCEPT !.age = a] IN q \in Rows /\ q.status = r.status /\ SameCounts(r, q)
BY DEF Rows, SameCounts

LEMMA SetLate ==
    \A r \in Rows :
        LET q == [r EXCEPT !.late = TRUE] IN q \in Rows /\ q.status = r.status /\ SameCounts(r, q)
BY DEF Rows, SameCounts

LEMMA SetHead ==
    \A r \in Rows : \A h \in Heads :
        LET q == [r EXCEPT !.head = h, !.age = "young"]
        IN  q \in Rows /\ q.status = r.status /\ SameCounts(r, q)
BY DEF Rows, SameCounts

LEMMA SetRed ==
    \A r \in Rows : \A h \in Heads :
        LET q == [r EXCEPT !.red = h] IN q \in Rows /\ q.status = r.status /\ SameCounts(r, q)
BY DEF Rows, SameCounts

\* The row a poll writes: well formed, within the budgets, failed or merged only with reason.
LEMMA MarkedType ==
    ASSUME Inv, NEW p \in Polls,
           p.out = "ci_sent" => p.nth <= FixMax,
           p.out = "conflict_retry" => p.nth <= ConflictMax
    PROVE  /\ Marked(p) \in Rows
           /\ Marked(p).fixN <= FixMax /\ Marked(p).conflictN <= ConflictMax
           /\ Marked(p).status = "failed" => p.out \in GivesUp \union {"look"}
           /\ Marked(p).status = "merged" => p.out = "merged"
<1> DEFINE r     == IF p.moved THEN [row EXCEPT !.head = p.head, !.age = "young"] ELSE row
           later == [r EXCEPT !.status = "pending_ci"]
           parks == [r EXCEPT !.status = "needs_resolution"]
<1>1. p.head \in Heads /\ p.nth \in Nat /\ p.moved \in BOOLEAN /\ p.out \in Outcomes
  BY DEF Polls
<1>2. row \in Rows /\ row.fixN <= FixMax /\ row.conflictN <= ConflictMax
  BY DEF Inv, TypeOK
<1>3. r \in Rows /\ r.fixN = row.fixN /\ r.conflictN = row.conflictN
  BY <1>1, <1>2, SetHead DEF SameCounts
<1> HIDE DEF r
<1>4. later \in Rows /\ parks \in Rows
      /\ later.fixN = row.fixN /\ later.conflictN = row.conflictN
      /\ parks.fixN = row.fixN /\ parks.conflictN = row.conflictN
      /\ later.status = "pending_ci" /\ parks.status = "needs_resolution"
  BY <1>3, SetStatus DEF SameCounts, Live
<1>5. Marked(p) =
        CASE p.out = "merged" -> [r EXCEPT !.status = "merged"]
          [] p.out \in {"closed", "orphan"} -> [r EXCEPT !.status = "abandoned"]
          [] p.out \in {"stalled", "unaddressed", "escalated", "look"} -> [r EXCEPT !.status = "failed"]
          [] p.out \in {"defer", "freshened"} -> [later EXCEPT !.age = "young"]
          [] p.out = "red_once" -> [later EXCEPT !.red = p.head]
          [] p.out = "ci_sent"  -> [later EXCEPT !.fix = p.head, !.fixN = p.nth, !.age = "young"]
          [] p.out = "awaiting" -> parks
          [] p.out = "conflict" -> [parks EXCEPT !.conflict = p.head, !.conflictN = 1, !.late = FALSE]
          [] p.out = "conflict_retry" -> [parks EXCEPT !.conflictN = p.nth, !.late = FALSE]
          [] OTHER -> later
  BY DEF Marked, r
<1> HIDE DEF later, parks
<1>6. CASE p.out \in {"merged", "closed", "orphan"} \union GivesUp \union {"look"}
  <2>1. \E s \in {"merged", "abandoned", "failed"} :
            /\ Marked(p) = [r EXCEPT !.status = s]
            /\ s = "merged" => p.out = "merged"
            /\ s = "failed" => p.out \in GivesUp \union {"look"}
    BY <1>5, <1>6 DEF GivesUp
  <2>2. QED
    BY <1>2, <1>3, <2>1, SetStatus DEF SameCounts
<1>7. CASE p.out \in {"defer", "freshened", "red_once"}
  <2>1. Marked(p) = [later EXCEPT !.age = "young"] \/ Marked(p) = [later EXCEPT !.red = p.head]
    BY <1>5, <1>7
  <2>2. Marked(p) \in Rows /\ Marked(p).status = later.status /\ SameCounts(later, Marked(p))
    BY <1>1, <1>4, <2>1, SetAge, SetRed, ZenonT(60)
  <2>3. QED
    BY <1>2, <1>4, <2>2 DEF SameCounts
<1>8. CASE p.out = "ci_sent"
  <2>1. Marked(p) = [later EXCEPT !.fix = p.head, !.fixN = p.nth, !.age = "young"]
    BY <1>5, <1>8
  <2>2. /\ Marked(p) \in Rows /\ Marked(p).status = later.status
        /\ Marked(p).fixN = p.nth /\ Marked(p).conflictN = later.conflictN
    BY <1>1, <1>4, <2>1 DEF Rows
  <2>3. QED
    BY <1>2, <1>4, <1>8, <2>2
<1>9. CASE p.out \in {"conflict", "conflict_retry"}
  <2>1. 1 \in Nat /\ 1 <= ConflictMax
    BY WatchLimits
  <2>2. CASE p.out = "conflict"
    <3>1. Marked(p) = [parks EXCEPT !.conflict = p.head, !.conflictN = 1, !.late = FALSE]
      BY <1>5, <2>2
    <3>2. /\ Marked(p) \in Rows /\ Marked(p).status = parks.status
          /\ Marked(p).fixN = parks.fixN /\ Marked(p).conflictN = 1
      BY <1>1, <1>4, <2>1, <3>1 DEF Rows
    <3>3. QED
      BY <1>2, <1>4, <2>1, <3>2
  <2>3. CASE p.out = "conflict_retry"
    <3>1. Marked(p) = [parks EXCEPT !.conflictN = p.nth, !.late = FALSE]
      BY <1>5, <2>3
    <3>2. /\ Marked(p) \in Rows /\ Marked(p).status = parks.status
          /\ Marked(p).fixN = parks.fixN /\ Marked(p).conflictN = p.nth
      BY <1>1, <1>4, <3>1 DEF Rows
    <3>3. QED
      BY <1>2, <1>4, <2>3, <3>2
  <2>4. QED
    BY <1>9, <2>2, <2>3
<1>10. CASE p.out \in {"awaiting", "again", "none"}
  BY <1>2, <1>4, <1>5, <1>10
<1>11. QED
  BY <1>1, <1>6, <1>7, <1>8, <1>9, <1>10 DEF Outcomes, GivesUp
-----------------------------------------------------------------------------
(* Every step preserves Inv.                                                *)

\* What a poll may hold, now or after a step.
Sound(q) ==
    /\ q.snap.fixN <= FixMax /\ q.snap.conflictN <= ConflictMax
    /\ q.out = "ci_sent" => q.nth <= FixMax
    /\ q.out = "conflict_retry" => q.nth <= ConflictMax
    /\ q.snap.status = "failed" \/ q.out = "look" => told
    /\ q.pc # "act" /\ q.out \in GivesUp => told
    /\ q.pull.state = "merged" \/ q.out = "merged" => pr.state = "merged"

LEMMA PollsSound == Inv => \A w \in Pollers : poll[w] \in Polls /\ Sound(poll[w])
BY DEF Inv, TypeOK, Budgets, Remembered, Sound

\* The shared facts polls rely on are kept by the step.
Keeps == /\ told => told'
         /\ pr.state = "merged" => pr'.state = "merged"
         /\ pr'.mergeable = "behind" => pr'.head < MaxHead

\* The parts of Inv about the shared state.
Shared ==
    /\ pr \in PullRequests /\ row \in Rows
    /\ row.fixN <= FixMax /\ row.conflictN <= ConflictMax
    /\ run \in RunStatuses /\ comment \in BOOLEAN /\ card \in BOOLEAN
    /\ asked \subseteq GivesUp
    /\ told \in BOOLEAN /\ target \in BOOLEAN
    /\ faults \in 0..MaxFaults /\ messages \in 0..MaxMessages
    /\ FounderKnows /\ LandedIsMerged

LEMMA InvShared == Inv => Shared /\ (pr.mergeable = "behind" => pr.head < MaxHead)
BY DEF Inv, TypeOK, Shared, GivesUp, Budgets

\* What a new poll q must satisfy in the next state.
SoundNext(q) ==
    /\ q.snap.fixN <= FixMax /\ q.snap.conflictN <= ConflictMax
    /\ q.out = "ci_sent" => q.nth <= FixMax
    /\ q.out = "conflict_retry" => q.nth <= ConflictMax
    /\ q.snap.status = "failed" \/ q.out = "look" => told'
    /\ q.pc # "act" /\ q.out \in GivesUp => told'
    /\ q.pull.state = "merged" \/ q.out = "merged" => pr'.state = "merged"

\* One poll changes; what the others remember stays true.
LEMMA OnePoll ==
    ASSUME Inv, NEW w \in Pollers, NEW q \in Polls, poll' = [poll EXCEPT ![w] = q],
           SoundNext(q), Keeps, Shared'
    PROVE  Inv'
<1>1. poll' \in [Pollers -> Polls]
  BY DEF Inv, TypeOK
<1>2. \A v \in Pollers : poll'[v] = IF v = w THEN q ELSE poll[v]
  BY DEF Inv, TypeOK
<1>3. Budgets'
  BY <1>2 DEF Inv, Budgets, SoundNext, Keeps
<1>4. Remembered'
  BY <1>2 DEF Inv, Remembered, SoundNext, Keeps
<1>5. QED
  BY <1>1, <1>3, <1>4 DEF Inv, TypeOK, Shared, GivesUp

\* No poll changes.
LEMMA NoPoll ==
    ASSUME Inv, UNCHANGED poll, Keeps, Shared'
    PROVE  Inv'
<1>1. poll' \in [Pollers -> Polls]
  BY DEF Inv, TypeOK
<1>2. Budgets'
  BY DEF Inv, Budgets, Keeps
<1>3. Remembered'
  BY DEF Inv, Remembered, Keeps
<1>4. QED
  BY <1>1, <1>2, <1>3 DEF Inv, TypeOK, Shared, GivesUp

\* A poll that goes back to idle, or concludes something new from nothing.
LEMMA IdleSound ==
    /\ Idle.snap.fixN <= FixMax /\ Idle.snap.conflictN <= ConflictMax
    /\ Idle.snap.status = "pending_ci" /\ Idle.pull.state = "open" /\ Idle.out = "none"
BY WatchLimits DEF Idle, Watched, Opened

LEMMA IdleNext == SoundNext(Idle)
BY IdleSound DEF SoundNext, GivesUp

\* A poll changes and nothing else does.
LEMMA OnlyPoll ==
    ASSUME Inv, NEW w \in Pollers, NEW q \in Polls, poll' = [poll EXCEPT ![w] = q],
           UNCHANGED <<pr, row, run, comment, card, asked, told, target, faults, messages>>,
           Sound(q)
    PROVE  Inv'
<1>1. Shared' /\ Keeps
  BY InvShared DEF Shared, Keeps, FounderKnows, LandedIsMerged
<1>2. SoundNext(q)
  BY DEF Sound, SoundNext
<1>3. QED
  BY <1>1, <1>2, OnePoll

LEMMA ReadStep ==
    ASSUME Inv, NEW w \in Pollers, Claim(w) \/ NoClient(w) \/ Orphaned(w) \/ GetPr(w)
    PROVE  Inv'
<1>1. poll[w] \in Polls /\ Sound(poll[w])
  BY PollsSound
<1>2. CASE Claim(w)
  <2> DEFINE q == [Idle EXCEPT !.pc = "claimed", !.snap = row]
  <2>1. q \in Polls /\ q.snap = row /\ q.out = "none" /\ q.pull.state = "open"
    BY Constants, IdleSound DEF Inv, TypeOK, Polls, Pcs
  <2>2. poll' = [poll EXCEPT ![w] = q]
    BY <1>2 DEF Claim
  <2> HIDE DEF q
  <2>3. Sound(q)
    BY <2>1 DEF Sound, Inv, TypeOK, FounderKnows, GivesUp
  <2>4. QED
    BY <1>2, <2>1, <2>2, <2>3, OnlyPoll DEF Claim
<1>3. CASE NoClient(w)
  <2>1. PICK pc \in {"write", "act"}, out \in {"look", "stalled"} :
            /\ poll' = [poll EXCEPT ![w] = [Idle EXCEPT !.pc = pc, !.out = out]]
            /\ out = "look" => poll[w].snap.status = "failed"
            /\ out = "stalled" => pc = "act"
    BY <1>3 DEF NoClient
  <2> DEFINE q == [Idle EXCEPT !.pc = pc, !.out = out]
  <2>2. q \in Polls /\ q.snap = Idle.snap /\ q.out = out /\ q.pull = Idle.pull /\ q.pc = pc
    BY Constants DEF Polls, Pcs, Outcomes
  <2> HIDE DEF q
  <2>3. poll' = [poll EXCEPT ![w] = q]
    BY <2>1 DEF q
  <2>4. Sound(q)
    BY <1>1, <2>1, <2>2, IdleSound DEF Sound, GivesUp
  <2>5. QED
    BY <1>3, <2>2, <2>3, <2>4, OnlyPoll DEF NoClient
<1>4. CASE Orphaned(w)
  <2> DEFINE q == [Idle EXCEPT !.pc = "write", !.out = "orphan"]
  <2>1. q \in Polls /\ q.snap = Idle.snap /\ q.out = "orphan" /\ q.pull = Idle.pull
    BY Constants DEF Polls, Pcs, Outcomes
  <2>2. poll' = [poll EXCEPT ![w] = q]
    BY <1>4 DEF Orphaned
  <2> HIDE DEF q
  <2>3. pr' \in PullRequests /\ pr'.mergeable = pr.mergeable /\ pr'.head = pr.head
        /\ (pr'.state = pr.state \/ pr.state = "open")
    BY <1>4 DEF Orphaned, Inv, TypeOK, PullRequests
  <2>4. Shared' /\ Keeps
    BY <1>4, <2>3, InvShared DEF Orphaned, Shared, Keeps, FounderKnows, LandedIsMerged
  <2>5. SoundNext(q)
    BY <2>1, IdleSound DEF SoundNext, GivesUp
  <2>6. QED
    BY <2>1, <2>2, <2>4, <2>5, OnePoll
<1>5. CASE GetPr(w)
  <2> DEFINE q == [poll[w] EXCEPT !.pc = "read", !.pull = pr]
  <2>1. q \in Polls /\ q.snap = poll[w].snap /\ q.out = poll[w].out /\ q.pull = pr
        /\ q.nth = poll[w].nth /\ q.pc # "act"
    BY <1>1 DEF Polls, Pcs, Inv, TypeOK
  <2>2. poll' = [poll EXCEPT ![w] = q]
    BY <1>5 DEF GetPr, Inv, TypeOK
  <2> HIDE DEF q
  <2>3. poll[w].pc # "act"
    BY <1>5 DEF GetPr
  <2>4. Sound(q)
    BY <1>1, <2>1, <2>3 DEF Sound
  <2>5. QED
    BY <1>5, <2>1, <2>2, <2>4, OnlyPoll DEF GetPr
<1>6. QED
  BY <1>2, <1>3, <1>4, <1>5

\* What a verdict of the gate may be, given the snapshot it was reached from.
Verdict(s, g) ==
    /\ g.pc \in Pcs /\ g.out \in Outcomes \ {"look", "merged"}
    /\ g.out \in GivesUp => g.pc = "act"
    /\ g.out = "ci_sent" => s.fixN < FixMax
    /\ g.out = "conflict_retry" => s.conflictN < ConflictMax

LEMMA GateSound ==
    ASSUME NEW s \in Rows, NEW pull \in PullRequests, NEW late \in BOOLEAN,
           NEW g \in Gate(s, pull, late)
    PROVE  Verdict(s, g)
<1>0. s.fixN \in Nat /\ s.conflictN \in Nat /\ FixMax \in Nat /\ ConflictMax \in Nat
  BY WatchLimits DEF Rows
<1>1. Verdict(s, Recover(s))
  <2>1. \/ Recover(s) = [pc |-> "write", out |-> "awaiting"]
        \/ Recover(s) = [pc |-> "act", out |-> "escalated"]
        \/ (Recover(s) = [pc |-> "act", out |-> "conflict_retry"] /\ s.conflictN < ConflictMax)
    BY <1>0 DEF Recover
  <2>2. QED
    BY <2>1 DEF Verdict, Pcs, Outcomes, GivesUp
<1>2. Verdict(s, Pending(late))
  BY DEF Pending, Overdue, Verdict, Pcs, Outcomes, GivesUp
<1>3. Verdict(s, RedChecks(s, pull.head, late))
  <2>1. \/ RedChecks(s, pull.head, late) = [pc |-> "write", out |-> "red_once"]
        \/ RedChecks(s, pull.head, late) = Pending(late)
        \/ (RedChecks(s, pull.head, late) = [pc |-> "act", out |-> "ci_sent"] /\ s.fixN < FixMax)
        \/ RedChecks(s, pull.head, late) = [pc |-> "act", out |-> "stalled"]
    BY DEF RedChecks
  <2>2. QED
    BY <1>2, <2>1 DEF Verdict, Pcs, Outcomes, GivesUp
<1>4. \A o \in {<<"freshen", "none">>, <<"write", "defer">>, <<"act", "unaddressed">>, <<"merge", "none">>} :
          Verdict(s, [pc |-> o[1], out |-> o[2]])
  BY DEF Verdict, Pcs, Outcomes, GivesUp
<1>5. g = Recover(s) \/ g = Pending(late) \/ g = RedChecks(s, pull.head, late)
      \/ g = [pc |-> "freshen", out |-> "none"] \/ g = [pc |-> "write", out |-> "defer"]
      \/ g = [pc |-> "act", out |-> "unaddressed"] \/ g = [pc |-> "merge", out |-> "none"]
  BY DEF Gate
<1>6. QED
  BY <1>1, <1>2, <1>3, <1>4, <1>5

LEMMA DecideStep ==
    ASSUME Inv, NEW w \in Pollers, Decide(w)
    PROVE  Inv'
<1> DEFINE s     == poll[w].snap
           pull  == poll[w].pull
           moved == pull.head # s.head
           to    == IF pull.state # "open" THEN {[pc |-> "write", out |-> pull.state]}
                    ELSE IF s.status = "failed" THEN {[pc |-> "write", out |-> "look"]}
                    ELSE Gate(s, pull, s.age # "young" /\ ~moved)
           n(g)  == IF g.out = "ci_sent" THEN s.fixN + 1
                    ELSE IF g.out = "conflict_retry" THEN s.conflictN + 1 ELSE 0
           m(g)  == moved /\ g.out \notin {"merged", "closed", "look"}
           q(g)  == [Idle EXCEPT !.pc = g.pc, !.out = g.out, !.head = pull.head,
                                 !.moved = m(g), !.nth = n(g)]
<1>1. poll[w] \in Polls /\ Sound(poll[w])
  BY PollsSound
<1>2. s \in Rows /\ pull \in PullRequests /\ s.fixN \in Nat /\ s.conflictN \in Nat
      /\ pull.head \in Heads /\ pull.state \in {"open", "merged", "closed"}
  BY <1>1 DEF Polls, Rows, PullRequests
<1>3. PICK g \in to : poll' = [poll EXCEPT ![w] = q(g)]
  BY DEF Decide
<1> HIDE DEF n, m, s, pull, moved
<1>4. \/ g = [pc |-> "write", out |-> pull.state] /\ pull.state # "open"
      \/ g = [pc |-> "write", out |-> "look"] /\ s.status = "failed"
      \/ Verdict(s, g)
  <2>1. (s.age # "young" /\ ~moved) \in BOOLEAN
    OBVIOUS
  <2>2. g \in Gate(s, pull, s.age # "young" /\ ~moved) => Verdict(s, g)
    BY <1>2, <2>1, GateSound
  <2>3. QED
    BY <1>3, <2>2
<1> HIDE DEF to
<1>5. g.pc \in Pcs /\ g.out \in Outcomes
  BY <1>2, <1>4 DEF Verdict, Pcs, Outcomes
<1>6. n(g) \in Nat /\ m(g) \in BOOLEAN
  BY <1>2 DEF n, m, moved
<1>7. q(g) \in Polls
  BY <1>2, <1>5, <1>6, Concludes
<1>8. /\ q(g).snap = Idle.snap /\ q(g).pull = Idle.pull /\ q(g).out = g.out
      /\ q(g).pc = g.pc /\ q(g).nth = n(g)
  BY DEF Idle
<1> HIDE DEF q
<1>9. (g.out = "ci_sent" => n(g) <= FixMax) /\ (g.out = "conflict_retry" => n(g) <= ConflictMax)
  BY <1>2, <1>4, WatchLimits DEF Verdict, n
<1>10. (g.out = "look" => told) /\ (g.out \in GivesUp => g.pc = "act")
       /\ (g.out = "merged" => pr.state = "merged")
  BY <1>1, <1>2, <1>4 DEF Verdict, Sound, GivesUp, s, pull
<1>11. Sound(q(g))
  BY <1>8, <1>9, <1>10, IdleSound DEF Sound
<1>12. QED
  BY <1>3, <1>7, <1>11, OnlyPoll DEF Decide

\* Goto with the facts SoundNext asks for.
LEMMA GoneTo ==
    ASSUME Inv, NEW w \in Pollers, NEW pc \in Pcs, NEW out \in Outcomes, Goto(w, pc, out),
           out \notin {"ci_sent", "conflict_retry", "look"} \/ out = poll[w].out,
           pc # "act" /\ out \in GivesUp => told',
           out = "merged" => pr'.state = "merged",
           Keeps, Shared'
    PROVE  Inv'
<1> DEFINE q == [poll[w] EXCEPT !.pc = pc, !.out = out]
<1>1. poll[w] \in Polls /\ Sound(poll[w])
  BY PollsSound
<1>2. poll' = [poll EXCEPT ![w] = q] /\ q \in Polls
  <2>1. q \in Polls
    BY <1>1 DEF Polls
  <2>2. poll' = [poll EXCEPT ![w] = q]
    BY DEF Goto, Inv, TypeOK
  <2>3. QED
    BY <2>1, <2>2
<1>3. q.snap = poll[w].snap /\ q.pull = poll[w].pull /\ q.nth = poll[w].nth /\ q.out = out /\ q.pc = pc
  BY <1>1 DEF Polls
<1> HIDE DEF q
<1>4. SoundNext(q)
  BY <1>1, <1>3 DEF Sound, SoundNext, Keeps
<1>5. QED
  BY <1>2, <1>4, OnePoll

LEMMA MergeStep ==
    ASSUME Inv, NEW w \in Pollers, Merge(w) \/ NotNow(w) \/ Freshen(w)
    PROVE  Inv'
<1>1. "write" \in Pcs /\ "act" \in Pcs /\ {"merged", "again", "stalled", "conflict", "freshened"} \subseteq Outcomes
  BY DEF Pcs, Outcomes
<1>2. CASE Merge(w)
  <2>1. /\ pr' \in PullRequests /\ pr'.mergeable = pr.mergeable /\ pr'.head = pr.head
        /\ pr.state = "merged" => pr'.state = "merged"
    BY <1>2 DEF Merge, Inv, TypeOK, PullRequests
  <2>2. PICK out \in {"merged", "again"} : Goto(w, "write", out) /\ (out = "merged" => pr'.state = "merged")
    BY <1>2 DEF Merge, Inv, TypeOK, PullRequests
  <2>3. Shared' /\ Keeps
    BY <1>2, <2>1, InvShared DEF Merge, Shared, Keeps, FounderKnows, LandedIsMerged
  <2>4. QED
    BY <1>1, <2>2, <2>3, GoneTo DEF GivesUp
<1>3. CASE NotNow(w)
  <2>1. Shared' /\ Keeps
    BY <1>3, InvShared, WatchBounds DEF NotNow, Shared, Keeps, FounderKnows, LandedIsMerged
  <2>2. Goto(w, "write", "again")
    BY <1>3 DEF NotNow
  <2>3. QED
    BY <1>1, <2>1, <2>2, GoneTo DEF GivesUp
<1>4. CASE Freshen(w)
  <2>1. /\ pr' \in PullRequests /\ pr'.state = pr.state
        /\ pr'.mergeable = "behind" => pr'.head < MaxHead
    <3>1. CASE UNCHANGED pr
      BY <3>1, InvShared DEF Shared
    <3>2. CASE /\ pr.mergeable = "behind"
               /\ pr' = [pr EXCEPT !.head = @ + 1, !.mergeable = "pending"]
      <4>1. pr.head < MaxHead /\ pr \in PullRequests /\ pr.head \in Heads \ {0}
        BY <3>2, InvShared DEF Shared, PullRequests
      <4>2. pr.head + 1 \in Heads \ {0}
        BY <4>1, WatchBounds DEF Heads
      <4>3. QED
        BY <3>2, <4>1, <4>2 DEF PullRequests
    <3>3. QED
      BY <1>4, <3>1, <3>2 DEF Freshen
  <2>2. Shared' /\ Keeps
    BY <1>4, <2>1, InvShared DEF Freshen, Shared, Keeps, FounderKnows, LandedIsMerged
  <2>3. \/ Goto(w, "act", "stalled") \/ Goto(w, "act", "conflict") \/ Goto(w, "write", "freshened")
    BY <1>4 DEF Freshen
  <2>4. QED
    BY <1>1, <2>2, <2>3, GoneTo DEF GivesUp
<1>5. QED
  BY <1>2, <1>3, <1>4

LEMMA ActStep ==
    ASSUME Inv, NEW w \in Pollers, Act(w)
    PROVE  Inv'
<1> DEFINE out == poll[w].out
<1>1. poll[w] \in Polls /\ Sound(poll[w]) /\ out \in Outcomes /\ "write" \in Pcs
  BY PollsSound DEF Polls, Pcs
<1>2. run' \in RunStatuses /\ (run' = "shipped" => run = "shipped")
  BY InvShared DEF Act, Called, Shared, RunStatuses, Over
<1>3. asked' \subseteq GivesUp
  BY InvShared DEF Act, Shared, GivesUp
<1>4. told' = (told \/ out \in GivesUp)
  BY DEF Act, GivesUp
<1>5. told' \in BOOLEAN /\ (told => told') /\ (out \in GivesUp => told')
  BY <1>4
<1>6. UNCHANGED <<pr, row, comment, card, target, faults, messages>> /\ Goto(w, "write", out)
  BY DEF Act
<1>7. Keeps
  BY <1>5, <1>6, InvShared DEF Keeps
<1>8. FounderKnows' /\ LandedIsMerged'
  BY <1>2, <1>5, <1>6, InvShared DEF Shared, FounderKnows, LandedIsMerged
<1>9. Shared'
  BY <1>2, <1>3, <1>5, <1>6, <1>8, InvShared DEF Shared
<1>10. out = "merged" => pr'.state = "merged"
  BY <1>1, <1>6 DEF Sound
<1> HIDE DEF out
<1>11. out \notin {"ci_sent", "conflict_retry", "look"} \/ out = poll[w].out
  BY DEF out
<1>12. QED
  BY <1>1, <1>5, <1>6, <1>7, <1>9, <1>10, <1>11, GoneTo

LEMMA WriteStep ==
    ASSUME Inv, NEW w \in Pollers, Write(w)
    PROVE  Inv'
<1> DEFINE p == poll[w]
           q == IF p.out \in {"merged", "closed"} THEN [p EXCEPT !.pc = "report"] ELSE Idle
<1>1. p \in Polls /\ Sound(p) /\ p.pc = "write"
  BY PollsSound DEF Write
<1>2. row' = Marked(p) /\ UNCHANGED <<pr, run, comment, card, asked, told, target, faults, messages>>
  BY DEF Write
<1>3. poll' = [poll EXCEPT ![w] = q]
  BY DEF Write, Inv, TypeOK
<1>4. q \in Polls
  BY <1>1, Constants DEF Polls, Pcs
<1>5. SoundNext(q)
  <2>1. CASE p.out \in {"merged", "closed"}
    <3>1. q.snap = p.snap /\ q.pull = p.pull /\ q.out = p.out /\ q.nth = p.nth
      BY <1>1, <2>1 DEF Polls
    <3>2. QED
      BY <1>1, <1>2, <2>1, <3>1 DEF Sound, SoundNext, GivesUp
  <2>2. CASE p.out \notin {"merged", "closed"}
    BY <2>2, IdleNext
  <2>3. QED
    BY <2>1, <2>2
<1> HIDE DEF p, q
<1>6. /\ row' \in Rows /\ row'.fixN <= FixMax /\ row'.conflictN <= ConflictMax
      /\ row'.status = "failed" => p.out \in GivesUp \union {"look"}
      /\ row'.status = "merged" => p.out = "merged"
  <2>1. (p.out = "ci_sent" => p.nth <= FixMax) /\ (p.out = "conflict_retry" => p.nth <= ConflictMax)
    BY <1>1 DEF Sound
  <2>2. QED
    BY <1>1, <1>2, <2>1, MarkedType
<1>7. FounderKnows' /\ LandedIsMerged'
  BY <1>1, <1>2, <1>6, InvShared DEF Sound, Shared, FounderKnows, LandedIsMerged
<1>8. Shared' /\ Keeps
  BY <1>2, <1>6, <1>7, InvShared DEF Shared, Keeps
<1>9. QED
  BY <1>3, <1>4, <1>5, <1>8, OnePoll

\* A poll ends: the run hears of the conclusion, or the pass failed.
LEMMA EndStep ==
    ASSUME Inv, NEW w \in Pollers, Report(w) \/ Fail(w)
    PROVE  Inv'
<1>1. poll' = [poll EXCEPT ![w] = Idle] /\ Idle \in Polls /\ SoundNext(Idle)
  BY Constants, IdleNext DEF Report, Fail
<1>2. CASE Report(w)
  <2>1. poll[w].out = "merged" => pr.state = "merged"
    BY PollsSound DEF Sound
  <2>2. run' \in RunStatuses /\ (run' = "shipped" => run = "shipped" \/ poll[w].out = "merged")
    BY <1>2, InvShared DEF Report, Shared, RunStatuses, Over
  <2>3. Shared' /\ Keeps
    BY <1>2, <2>1, <2>2, InvShared DEF Report, Shared, Keeps, FounderKnows, LandedIsMerged
  <2>4. QED
    BY <1>1, <2>3, OnePoll
<1>3. CASE Fail(w)
  <2>1. Shared' /\ Keeps
    BY <1>3, InvShared, WatchBounds DEF Fail, Shared, Keeps, FounderKnows, LandedIsMerged
  <2>2. QED
    BY <1>1, <2>1, OnePoll
<1>4. QED
  BY <1>2, <1>3

LEMMA TimeStep ==
    ASSUME Inv, Time
    PROVE  Inv'
<1>1. row' \in Rows /\ row'.status = row.status /\ SameCounts(row, row')
  <2>1. row \in Rows
    BY InvShared DEF Shared
  <2>2. \/ (\E a \in {"late", "old"} : row' = [row EXCEPT !.age = a])
        \/ row' = [row EXCEPT !.late = TRUE]
    BY DEF Time, DeadlinePasses, ConflictDeadlinePasses, HorizonPasses
  <2>3. CASE \E a \in {"late", "old"} : row' = [row EXCEPT !.age = a]
    <3>1. PICK a \in {"late", "old"} : row' = [row EXCEPT !.age = a]
      BY <2>3
    <3>2. QED
      BY <2>1, <3>1, SetAge
  <2>4. CASE row' = [row EXCEPT !.late = TRUE]
    BY <2>1, <2>4, SetLate
  <2>5. QED
    BY <2>2, <2>3, <2>4
<1>2. Shared' /\ Keeps
  BY <1>1, InvShared DEF Time, SameCounts, Shared, Keeps, FounderKnows, LandedIsMerged
<1>3. QED
  BY <1>2, NoPoll DEF Time

\* The pull request changes on GitHub: CI, the base, somebody's hand.
LEMMA GitHubStep ==
    ASSUME Inv, CiFinishes \/ BaseMoves \/ ByHand
    PROVE  Inv'
<1>1. pr \in PullRequests /\ pr.state = "open" /\ UNCHANGED <<row, run, comment, card, asked, told, target, poll, faults, messages>>
  BY InvShared DEF CiFinishes, BaseMoves, ByHand, Shared
<1>2. \/ (\E b \in {"clean", "red"} : pr' = [pr EXCEPT !.mergeable = b])
      \/ ((\E b \in {"behind", "conflict"} : pr' = [pr EXCEPT !.mergeable = b]) /\ pr.head < MaxHead)
      \/ (\E b \in {"merged", "closed"} : pr' = [pr EXCEPT !.state = b])
  BY DEF CiFinishes, BaseMoves, ByHand
<1>3. pr' \in PullRequests /\ (pr'.mergeable = "behind" => pr'.head < MaxHead)
  BY <1>1, <1>2, InvShared DEF PullRequests
<1>4. Shared' /\ Keeps
  BY <1>1, <1>3, InvShared DEF Shared, Keeps, FounderKnows, LandedIsMerged
<1>5. QED
  BY <1>1, <1>4, NoPoll

\* A push keeps the pull request open and leaves room for a freshening.
LEMMA Pushed ==
    ASSUME Inv, Push
    PROVE  /\ pr' \in PullRequests /\ pr'.state = pr.state
           /\ pr'.mergeable = "behind" => pr'.head < MaxHead
           /\ comment' \in BOOLEAN
<1>1. pr \in PullRequests /\ pr.head \in Heads \ {0}
  BY InvShared DEF Shared, PullRequests
<1>2. PICK b \in {"pending", "conflict", "behind"} :
          /\ pr' = [pr EXCEPT !.head = @ + 1, !.mergeable = b]
          /\ b = "behind" => pr.mergeable = "behind"
  BY DEF Push
<1>3. pr.head + 1 \in Heads \ {0} /\ (pr.mergeable = "behind" => pr.head + 1 < MaxHead)
  BY <1>1, WatchBounds DEF Push, Room, Heads
<1>4. QED
  BY <1>1, <1>2, <1>3 DEF Push, PullRequests

\* The run and the founder act; none of them ships the run or fails the watch.
LEMMA PeopleStep ==
    ASSUME Inv, \/ RunEnds \/ CardAnswered \/ Resume \/ Comment \/ Cancel \/ RemoveTarget
                \/ \E why \in {"stalled", "unaddressed"} : SendBack(why)
    PROVE  Inv'
<1> USE InvShared
<1>1. CASE RunEnds
  <2>1. /\ pr' \in PullRequests /\ pr'.state = pr.state /\ comment' \in BOOLEAN
        /\ pr'.mergeable = "behind" => pr'.head < MaxHead
    BY <1>1, Pushed DEF RunEnds, Shared
  <2>2. run' \in RunStatuses \ {"shipped"} /\ card' \in BOOLEAN
    BY <1>1 DEF RunEnds, RunStatuses, Over, Shared
  <2>3. Shared' /\ Keeps
    BY <1>1, <2>1, <2>2 DEF RunEnds, Shared, Keeps, FounderKnows, LandedIsMerged
  <2>4. QED
    BY <1>1, <2>3, NoPoll DEF RunEnds
<1>2. CASE CardAnswered
  <2>1. /\ pr' \in PullRequests /\ pr'.state = pr.state /\ comment' \in BOOLEAN
        /\ pr'.mergeable = "behind" => pr'.head < MaxHead
    BY <1>2, Pushed DEF CardAnswered, Shared
  <2>2. Shared' /\ Keeps
    BY <1>2, <2>1 DEF CardAnswered, Shared, Keeps, FounderKnows, LandedIsMerged
  <2>3. QED
    BY <1>2, <2>2, NoPoll DEF CardAnswered
<1>3. CASE Resume
  <2>1. Shared' /\ Keeps
    BY <1>3 DEF Resume, Shared, Keeps, FounderKnows, LandedIsMerged, RunStatuses, GivesUp
  <2>2. QED
    BY <1>3, <2>1, NoPoll DEF Resume
<1>4. CASE Comment
  <2>1. run' \in RunStatuses \ {"shipped"} /\ card' \in BOOLEAN /\ comment' \in BOOLEAN
    BY <1>4 DEF Comment, Shared, RunStatuses
  <2>2. messages' \in 0..MaxMessages
    BY <1>4, WatchBounds DEF Comment, Shared
  <2>3. Shared' /\ Keeps
    BY <1>4, <2>1, <2>2 DEF Comment, Shared, Keeps, FounderKnows, LandedIsMerged
  <2>4. QED
    BY <1>4, <2>3, NoPoll DEF Comment
<1>5. CASE Cancel
  <2>1. Shared' /\ Keeps
    BY <1>5 DEF Cancel, Shared, Keeps, FounderKnows, LandedIsMerged, RunStatuses, Over
  <2>2. QED
    BY <1>5, <2>1, NoPoll DEF Cancel
<1>6. CASE RemoveTarget
  <2>1. Shared' /\ Keeps
    BY <1>6 DEF RemoveTarget, Shared, Keeps, FounderKnows, LandedIsMerged
  <2>2. QED
    BY <1>6, <2>1, NoPoll DEF RemoveTarget
<1>7. CASE \E why \in {"stalled", "unaddressed"} : SendBack(why)
  <2>1. PICK why \in {"stalled", "unaddressed"} : SendBack(why)
    BY <1>7
  <2>2. row' \in Rows /\ row'.fixN <= FixMax /\ row'.conflictN <= ConflictMax
        /\ (row' = row \/ row'.status = "pending_ci")
    <3>1. CASE row.status # "failed"
      BY <2>1, <3>1 DEF SendBack, Shared
    <3>2. CASE row.status = "failed"
      <4>1. row' = [row EXCEPT !.status = "pending_ci", !.age = "young",
                               !.fix = 0, !.fixN = 0, !.red = 0]
        BY <2>1, <3>2 DEF SendBack
      <4>2. 0 \in Heads /\ 0 <= FixMax /\ "pending_ci" \in Live
        BY WatchBounds, WatchLimits DEF Heads, Live
      <4>3. QED
        BY <4>1, <4>2 DEF Shared, Rows
    <3>3. QED
      BY <3>1, <3>2
  <2>3. run' \in RunStatuses \ {"shipped"} /\ card' \in BOOLEAN /\ asked' \subseteq GivesUp
    BY <2>1 DEF SendBack, RunStatuses, Over, Shared
  <2>4. messages' \in 0..MaxMessages
    BY <2>1, WatchBounds DEF SendBack, Shared
  <2>5. Shared' /\ Keeps
    BY <2>1, <2>2, <2>3, <2>4 DEF SendBack, Shared, Keeps, FounderKnows, LandedIsMerged
  <2>6. QED
    BY <2>1, <2>5, NoPoll DEF SendBack
<1>8. QED
  BY <1>1, <1>2, <1>3, <1>4, <1>5, <1>6, <1>7

LEMMA Initially == Init => Inv
<1> SUFFICES ASSUME Init PROVE Inv
  OBVIOUS
<1>1. TypeOK
  <2>1. row.fixN <= FixMax /\ row.conflictN <= ConflictMax
    BY WatchLimits DEF Init, Watched
  <2>2. pr \in PullRequests /\ row \in Rows /\ poll \in [Pollers -> Polls]
    BY Constants DEF Init
  <2>3. faults \in 0..MaxFaults /\ messages \in 0..MaxMessages
    BY WatchBounds DEF Init
  <2>4. QED
    BY <2>1, <2>2, <2>3 DEF Init, TypeOK, RunStatuses
<1>2. \A w \in Pollers : poll[w] = Idle
  BY DEF Init
<1>3. Budgets
  BY <1>2, IdleSound DEF Init, Budgets, Opened
<1>4. Remembered
  BY <1>2, IdleSound DEF Remembered, GivesUp
<1>5. FounderKnows /\ LandedIsMerged
  BY DEF Init, Watched, FounderKnows, LandedIsMerged
<1>6. QED
  BY <1>1, <1>3, <1>4, <1>5 DEF Inv

LEMMA Inductive == Inv /\ [Next]_vars => Inv'
<1> SUFFICES ASSUME Inv, [Next]_vars PROVE Inv'
  OBVIOUS
<1>1. CASE UNCHANGED vars
  BY <1>1 DEF vars, Inv, TypeOK, Budgets, Remembered, FounderKnows, LandedIsMerged
<1>2. ASSUME NEW w \in Pollers, Step(w) PROVE Inv'
  BY <1>2, ReadStep, DecideStep, MergeStep, ActStep, WriteStep, EndStep DEF Step
<1>3. ASSUME Faults PROVE Inv'
  BY <1>3, MergeStep, EndStep DEF Faults
<1>4. ASSUME Time PROVE Inv'
  BY <1>4, TimeStep
<1>5. ASSUME CiFinishes \/ BaseMoves \/ ByHand PROVE Inv'
  BY <1>5, GitHubStep
<1>6. ASSUME RunEnds \/ Founder PROVE Inv'
  BY <1>6, PeopleStep DEF Founder
<1>7. QED
  BY <1>1, <1>2, <1>3, <1>4, <1>5, <1>6 DEF Next

-----------------------------------------------------------------------------
(* The theorems.                                                            *)

\* Every poll and the row stay well formed, and no more fixes and conflict hand-overs
\* are made than the budgets of MergeWatchConfig allow, whichever polls overlap.
THEOREM WatchTypes == Spec => []TypeOK
<1>1. Inv => TypeOK
  BY DEF Inv
<1>2. QED
  BY Initially, Inductive, <1>1, PTL DEF Spec

\* A watch that gave up has told the founder: the callback commits before the row does
\* (MergeWatchWorker._gave_up).
THEOREM WatchFounderKnows == Spec => []FounderKnows
<1>1. Inv => FounderKnows
  BY DEF Inv
<1>2. QED
  BY Initially, Inductive, <1>1, PTL DEF Spec

\* A row is merged and a run shipped only when GitHub has merged the pull request
\* (_merge_step, build_merge_watch_pr_concluded).
THEOREM WatchLandedIsMerged == Spec => []LandedIsMerged
<1>1. Inv => LandedIsMerged
  BY DEF Inv
<1>2. QED
  BY Initially, Inductive, <1>1, PTL DEF Spec

-----------------------------------------------------------------------------
(* After a cancel.                                                          *)

\* A poll that had not read the PR before the cancel gives up its row one way or another.
Powerless(p) ==
    \/ p.pc \in {"idle", "claimed"}
    \/ p.pc = "act" /\ p.out = "stalled"
    \/ p.pc = "write" /\ p.out \in {"stalled", "look", "orphan"}

Unpolled == run = "cancelled" /\ \A w \in Pollers : poll[w].pc \in {"idle", "claimed"}
Buried   == run = "cancelled" /\ \A w \in Pollers : Powerless(poll[w])

\* One poll goes on, and the run stays as it is.
LEMMA StaysBuried ==
    ASSUME TypeOK, Buried, run' = run, NEW w \in Pollers, NEW p, Powerless(p),
           poll' = [poll EXCEPT ![w] = p]
    PROVE  Buried'
<1>1. \A v \in Pollers : poll'[v] = IF v = w THEN p ELSE poll[v]
  BY DEF TypeOK
<1>2. QED
  BY <1>1 DEF Buried

LEMMA PollBuried ==
    ASSUME TypeOK, Buried, NEW w \in Pollers, Step(w) \/ NotNow(w) \/ Fail(w)
    PROVE  Buried'
<1>1. run = "cancelled" /\ Powerless(poll[w]) /\ poll[w] \in Polls
  BY DEF TypeOK, Buried
<1>2. Powerless(Idle) /\ Idle.pc = "idle"
  BY DEF Powerless, Idle
<1>3. CASE Claim(w)
  <2> DEFINE p == [Idle EXCEPT !.pc = "claimed", !.snap = row]
  <2>1. Powerless(p)
    BY DEF Powerless, Idle
  <2>2. QED
    BY <1>3, <2>1, StaysBuried DEF Claim
<1>4. CASE NoClient(w)
  <2>1. /\ Powerless([Idle EXCEPT !.pc = "write", !.out = "look"])
        /\ Powerless([Idle EXCEPT !.pc = "act", !.out = "stalled"])
    BY DEF Powerless, Idle
  <2>2. PICK p : Powerless(p) /\ poll' = [poll EXCEPT ![w] = p]
    BY <1>4, <2>1 DEF NoClient, TypeOK
  <2>3. QED
    BY <1>4, <2>2, StaysBuried DEF NoClient
<1>5. CASE Orphaned(w)
  <2>1. Powerless([Idle EXCEPT !.pc = "write", !.out = "orphan"])
    BY DEF Powerless, Idle
  <2>2. QED
    BY <1>5, <2>1, StaysBuried DEF Orphaned
<1>6. CASE Act(w)
  <2>1. poll[w].pc = "act" /\ poll[w].out = "stalled"
    BY <1>1, <1>6 DEF Act, Powerless
  <2>2. run' = run
    BY <1>6, <2>1 DEF Act, Called
  <2> DEFINE p == [poll[w] EXCEPT !.pc = "write", !.out = "stalled"]
  <2>3. poll' = [poll EXCEPT ![w] = p]
    BY <1>6, <2>1 DEF Act, Goto, TypeOK
  <2>4. Powerless(p)
    BY <1>1 DEF Powerless, Polls
  <2>5. QED
    BY <2>2, <2>3, <2>4, StaysBuried
<1>7. CASE Write(w)
  <2>1. poll[w].out \notin {"merged", "closed"}
    BY <1>1, <1>7 DEF Write, Powerless
  <2>2. poll' = [poll EXCEPT ![w] = Idle] /\ run' = run
    BY <1>7, <2>1 DEF Write, TypeOK
  <2>3. QED
    BY <1>2, <2>2, StaysBuried
<1>8. CASE Fail(w)
  BY <1>2, <1>8, StaysBuried DEF Fail
<1>9. CASE GetPr(w) \/ Decide(w) \/ Merge(w) \/ Freshen(w) \/ Report(w) \/ NotNow(w)
  BY <1>1, <1>9 DEF GetPr, Decide, Merge, Freshen, Report, NotNow, Powerless
<1>10. QED
  BY <1>3, <1>4, <1>5, <1>6, <1>7, <1>8, <1>9 DEF Step

\* Nobody but a poll could take a cancelled run up again, and no answer does.
LEMMA BuriedStep == TypeOK /\ Buried /\ [Next]_vars => Buried'
<1> SUFFICES ASSUME TypeOK, Buried, [Next]_vars PROVE Buried'
  OBVIOUS
<1>1. run = "cancelled"
  BY DEF Buried
<1>2. CASE (\E w \in Pollers : Step(w)) \/ Faults
  BY <1>2, PollBuried DEF Faults
<1>3. CASE Time \/ CiFinishes \/ BaseMoves \/ ByHand \/ UNCHANGED vars
  BY <1>3 DEF Time, CiFinishes, BaseMoves, ByHand, vars, Buried
<1>4. CASE RunEnds \/ Founder
  <2>1. ~RunEnds /\ ~Resume /\ ~Comment /\ ~Cancel
    BY <1>1 DEF RunEnds, Resume, Comment, Cancel, Over
  <2>2. \A why \in {"stalled", "unaddressed"} : ~SendBack(why)
    BY <1>1 DEF SendBack
  <2>3. CASE CardAnswered \/ RemoveTarget
    BY <2>3 DEF CardAnswered, RemoveTarget, Buried
  <2>4. QED
    BY <1>4, <2>1, <2>2, <2>3 DEF Founder
<1>5. QED
  BY <1>2, <1>3, <1>4 DEF Next

\* CancelLasts: once every poll that had looked before the cancel is through, nothing
\* re-dispatches the run, merges its PR or freshens its branch (_process, "Checked before
\* the merge state machine"), for any number of polls.
THEOREM WatchCancelLasts == Spec => CancelLasts
<1> DEFINE Harmless == run = "cancelled" /\ \A w \in Pollers : poll[w].pc \notin {"merge", "freshen"}
<1>1. Unpolled => Buried
  BY DEF Unpolled, Buried, Powerless
<1>2. Buried => Harmless
  BY DEF Buried, Powerless
<1>3. TypeOK /\ Buried /\ [Next]_vars => Buried'
  BY BuriedStep
<1> HIDE DEF Harmless
<1>4. Spec => [](Unpolled => []Harmless)
  BY <1>1, <1>2, <1>3, WatchTypes, PTL DEF Spec
<1>5. QED
  BY <1>4 DEF CancelLasts, Unpolled, Harmless
=============================================================================
