----------------------------- MODULE FindingsProofs -----------------------------
(***************************************************************************)
(* Proofs about Findings, for every household, every set of signals and    *)
(* any number of parents: the life cycle of a finding, the obedience of    *)
(* evaluations to suppressions (FindInv), the sliding windows of the       *)
(* bursts, and the fingerprints of the drafts of one evaluation            *)
(* (DraftInv).                                                             *)
(***************************************************************************)
EXTENDS Findings, Induction

FindingStatus == {"open", "acknowledged", "dismissed", "resolved"}
Judgement == {"acknowledged", "dismissed", "resolved"}

(***************************************************************************)
(* The inductive invariant.  What the evaluation holds between its steps   *)
(* is bound to the suppressions that it read, not to the committed ones.   *)
(***************************************************************************)
FindingRows ==
  /\ findings = [k \in DOMAIN findings |-> findings[k]]
  /\ events = [k \in DOMAIN findings |-> events[k]]
  /\ \A k \in DOMAIN findings :
       /\ k.rule \in Rule
       /\ findings[k].status \in FindingStatus
       /\ findings[k] = [status |-> findings[k].status, about |-> findings[k].about]

Requests ==
  /\ fb = [p \in Parent |-> fb[p]]
  /\ \A p \in Parent : fb[p] # None =>
       /\ fb[p] = [key |-> fb[p].key, status |-> fb[p].status, flushed |-> fb[p].flushed,
                   writes |-> fb[p].writes, match |-> fb[p].match, insert |-> fb[p].insert]
       /\ fb[p].key \in DOMAIN findings /\ fb[p].status \in Judgement
       /\ fb[p].match.rule \in Rule

Evaluation ==
  /\ ev = [stage |-> ev.stage, drafts |-> ev.drafts, keys |-> ev.keys, rows |-> ev.rows]
  /\ ev.stage \in Stage
  /\ \A d \in ev.drafts : d.rule \in Rule
  /\ \A k \in DOMAIN ev.rows : k.rule \in Rule

Suppressions == \A m \in suppressed \cup ev.keys : m.rule \in Rule

Obedient ==
  /\ ev.stage = "filtered" => \A d \in ev.drafts : Match(d) \notin ev.keys
  /\ ev.stage = "upserted" => \A k \in DOMAIN ev.rows : Matching(k.rule, ev.rows[k]) \notin ev.keys

Surroundings ==
  /\ clock \in Start..MaxTime /\ house \in Households
  /\ \A r \in stored : r.signal \in house.signals /\ r.at \in Start..MaxTime

FindInv == FindingRows /\ Requests /\ Evaluation /\ Suppressions /\ Obedient /\ Surroundings

-----------------------------------------------------------------------------
LEMMA DraftRule ==
  ASSUME NEW rule, NEW subject, NEW at, NEW device, NEW person, NEW evidence, NEW domains,
         NEW occurred, NEW quoted
  PROVE  Draft(rule, subject, at, device, person, evidence, domains, occurred, quoted).rule = rule
BY DEF Draft

\* Every draft is of one of the rules.
LEMMA DraftsOfRules == \A d \in AllDrafts : d.rule \in Rule
<1>1. \A devices, now : \A d \in UnknownOnline(devices, now) : d.rule \in Rule
  BY DraftRule DEF UnknownOnline, Rule
<1>2. \A lookups, person : \A d \in BlockedBursts(lookups, person) : d.rule \in Rule
  <2> SUFFICES ASSUME NEW lookups, NEW person, NEW d \in BlockedBursts(lookups, person)
               PROVE  d.rule \in Rule
    OBVIOUS
  <2> DEFINE best(k) == BestSpan({e \in lookups : e.blocked /\ e.device = k},
                                 Limits.burst, Limits.burstWindow)
             device(b) == (CHOOSE e \in b : TRUE).device
             spans == {best(k) : k \in {e.device : e \in lookups}} \ {{}}
             draft(b) == Draft("blocked_query_burst", device(b),
                               Bucket(Earliest(b), Limits.burstWindow), device(b), person[device(b)],
                               b, Domains(b), Latest(b),
                               Label(device(b), person[device(b)])
                                 \cup Sample(Domains(b), Limits.burstSample))
  <2>1. d \in {draft(b) : b \in spans}
    BY DEF BlockedBursts
  <2>2. \A b : draft(b).rule = "blocked_query_burst"
    BY DraftRule
  <2> HIDE DEF draft, spans
  <2>3. QED
    BY <2>1, <2>2 DEF Rule
<1>3. \A transitions, person : \A d \in Flappings(transitions, person) : d.rule \in Rule
  <2> SUFFICES ASSUME NEW transitions, NEW person, NEW d \in Flappings(transitions, person)
               PROVE  d.rule \in Rule
    OBVIOUS
  <2> DEFINE key(t) == IF t.device # None THEN t.device ELSE t.mac
             best(k) == BestSpan({t \in transitions : key(t) = k}, Limits.flaps, Limits.flapWindow)
             one(b) == CHOOSE t \in b : TRUE
             both == {b \in {best(k) : k \in {key(t) : t \in transitions}} :
                        {"connect", "disconnect"} \subseteq {t.move : t \in b}}
             draft(b) == Draft("connection_flapping", key(one(b)), Bucket(Earliest(b), Limits.flapWindow),
                               one(b).device, person[one(b).device], b, {}, Latest(b),
                               Label(one(b).device, person[one(b).device]))
  <2>1. d \in {draft(b) : b \in both}
    BY DEF Flappings
  <2>2. d.rule = "connection_flapping"
    <3>1. \A b : draft(b).rule = "connection_flapping"
      BY DraftRule
    <3> HIDE DEF draft, both
    <3>2. QED
      BY <2>1, <3>1
  <2>3. QED
    BY <2>2 DEF Rule
<1>4. \A evts, person : \A d \in SecurityEvents(evts, person) : d.rule \in Rule
  <2> SUFFICES ASSUME NEW evts, NEW person, NEW d \in SecurityEvents(evts, person)
               PROVE  d.rule \in Rule
    OBVIOUS
  <2>1. \E subject, at, device, who, evidence, domains, occurred, quoted :
          d = Draft("unifi_security_event", subject, at, device, who, evidence, domains, occurred, quoted)
    BY Zenon DEF SecurityEvents
  <2>2. d.rule = "unifi_security_event"
    BY <2>1, DraftRule
  <2>3. QED
    BY <2>2 DEF Rule
<1>5. \A stats, baseline, schedules, person :
        \A d \in SubjectDrafts(stats, baseline, schedules, person) : d.rule \in Rule
  <2> SUFFICES ASSUME NEW stats, NEW baseline, NEW schedules, NEW person,
                      NEW d \in SubjectDrafts(stats, baseline, schedules, person)
               PROVE  d.rule \in Rule
    OBVIOUS
  <2>1. CASE d \in VolumeIncreases(stats, baseline, person)
    BY <2>1, DraftRule DEF VolumeIncreases, Rule
  <2>2. CASE d \in OutsideHours(stats, TypicalOf(stats, baseline, schedules, person), person)
    BY <2>2, DraftRule DEF OutsideHours, Rule
  <2>3. CASE d \in NewDomains(stats, baseline, person)
    BY <2>3, DraftRule DEF NewDomains, Rule
  <2>4. QED
    BY <2>1, <2>2, <2>3 DEF SubjectDrafts
<1>6. QED
  BY <1>1, <1>2, <1>3, <1>4, <1>5 DEF AllDrafts

LEMMA AtShape ==
  ASSUME NEW stage
  PROVE  /\ At(stage) = [stage |-> stage, drafts |-> {}, keys |-> {}, rows |-> << >>]
         /\ DOMAIN At(stage).rows = {}
BY DEF At

LEMMA InitFindInv == Init => FindInv
<1> SUFFICES ASSUME Init PROVE FindInv
  OBVIOUS
<1>1. FindingRows
  BY DEF Init, FindingRows
<1>2. Requests
  BY DEF Init, Requests
<1>3. Evaluation /\ Obedient /\ Suppressions
  BY AtShape DEF Init, Evaluation, Obedient, Suppressions, Stage
<1>4. Surroundings
  BY FindingsAssumption DEF Init, Surroundings
<1>5. QED
  BY <1>1, <1>2, <1>3, <1>4 DEF FindInv

-----------------------------------------------------------------------------
\* Steps of the evaluation that touch nothing but ev.
LEMMA EvaluationKeeps ==
  ASSUME FindInv, Evaluation', Obedient', \A m \in ev'.keys : m.rule \in Rule,
         UNCHANGED <<clock, house, stored, findings, suppressed, events, fb>>
  PROVE  FindInv'
BY DEF FindInv, FindingRows, Requests, Suppressions, Surroundings

\* The evaluation is where it holds nothing.
LEMMA EmptyKeeps ==
  ASSUME FindInv, NEW stage \in {"due", "asleep", "failed"}, ev' = At(stage),
         UNCHANGED <<clock, house, stored, findings, suppressed, events, fb>>
  PROVE  FindInv'
<1>1. Evaluation' /\ Obedient' /\ ev'.keys = {}
  BY AtShape DEF Evaluation, Obedient, Stage
<1>2. QED
  BY <1>1, EvaluationKeeps

LEMMA EvalReadKeeps ==
  ASSUME FindInv, EvalRead
  PROVE  FindInv'
<1>1. /\ ev' = [stage |-> "read", drafts |-> AllDrafts, keys |-> {}, rows |-> << >>]
      /\ UNCHANGED <<clock, house, stored, findings, suppressed, events, fb>>
  BY DEF EvalRead, At
<1>2. Evaluation' /\ Obedient' /\ ev'.keys = {}
  BY <1>1, DraftsOfRules DEF Evaluation, Obedient, Stage
<1>3. QED
  BY <1>1, <1>2, EvaluationKeeps

LEMMA EvalFilterKeeps ==
  ASSUME FindInv, EvalFilter
  PROVE  FindInv'
<1>1. /\ ev' = [stage |-> "filtered", drafts |-> Filtered(ev.drafts, suppressed),
                keys |-> suppressed, rows |-> ev.rows]
      /\ UNCHANGED <<clock, house, stored, findings, suppressed, events, fb>>
  BY DEF EvalFilter, FindInv, Evaluation
<1>2. Evaluation' /\ Obedient'
  BY <1>1 DEF FindInv, Evaluation, Obedient, Stage, Filtered, Match
<1>3. QED
  BY <1>1, <1>2, EvaluationKeeps DEF FindInv, Suppressions

\* A row is matched as the draft that it was made of.
LEMMA RowMatch ==
  ASSUME NEW d
  PROVE  Matching(d.rule, Row(d)) = Match(d)
BY DEF Matching, Row, Match

LEMMA EvalUpsertKeeps ==
  ASSUME FindInv, EvalUpsert
  PROVE  FindInv'
<1>1. /\ ev' = [stage |-> "upserted", drafts |-> ev.drafts, keys |-> ev.keys,
                rows |-> Upserted(ev.drafts)]
      /\ UNCHANGED <<clock, house, stored, findings, suppressed, events, fb>>
      /\ ev.stage = "filtered"
  BY DEF EvalUpsert, FindInv, Evaluation
<1>2. ASSUME NEW k \in DOMAIN Upserted(ev.drafts)
      PROVE  k.rule \in Rule /\ Matching(k.rule, Upserted(ev.drafts)[k]) \notin ev.keys
  <2> DEFINE d == CHOOSE x \in ev.drafts : Fingerprint(x) = k
  <2>1. \E x \in ev.drafts : Fingerprint(x) = k
    BY DEF Upserted
  <2>2. d \in ev.drafts /\ Fingerprint(d) = k
    BY <2>1
  <2>3. Upserted(ev.drafts)[k] = Row(d)
    BY DEF Upserted
  <2> HIDE DEF d
  <2>4. k.rule = d.rule
    BY <2>2 DEF Fingerprint
  <2>5. QED
    BY <1>1, <2>2, <2>3, <2>4, RowMatch DEF FindInv, Evaluation, Obedient
<1> DEFINE rows == Upserted(ev.drafts)
<1> HIDE DEF rows
<1>3. Evaluation' /\ Obedient'
  BY <1>1, <1>2 DEF rows, FindInv, Evaluation, Obedient, Stage
<1>4. QED
  BY <1>1, <1>3, EvaluationKeeps DEF FindInv, Suppressions

\* The commit of an evaluation: new findings are open, old ones keep their
\* status.
LEMMA EvalCommitKeeps ==
  ASSUME FindInv, EvalCommit
  PROVE  FindInv'
<1> DEFINE all == DOMAIN findings \cup DOMAIN ev.rows
<1>1. /\ findings' = [k \in all |-> IF k \in DOMAIN ev.rows
                                    THEN [status |-> StatusAfter(k), about |-> ev.rows[k]]
                                    ELSE findings[k]]
      /\ events' = [k \in all |-> IF k \in DOMAIN findings THEN events[k] ELSE 1]
      /\ ev' = At("asleep") /\ UNCHANGED <<clock, house, stored, suppressed, fb>>
  BY DEF EvalCommit
<1>2. ASSUME NEW k \in all
      PROVE  /\ k.rule \in Rule /\ findings'[k].status \in FindingStatus
             /\ findings'[k] = [status |-> findings'[k].status, about |-> findings'[k].about]
  <2>1. CASE k \in DOMAIN ev.rows
    <3>1. findings'[k] = [status |-> StatusAfter(k), about |-> ev.rows[k]]
      BY <1>1, <2>1
    <3>2. StatusAfter(k) \in FindingStatus
      BY DEF StatusAfter, FindingStatus, FindInv, FindingRows
    <3>3. QED
      BY <2>1, <3>1, <3>2 DEF FindInv, Evaluation
  <2>2. CASE k \notin DOMAIN ev.rows
    BY <1>1, <2>2 DEF FindInv, FindingRows
  <2>3. QED
    BY <2>1, <2>2
<1>3. FindingRows'
  <2>1. DOMAIN findings' = all
    BY <1>1
  <2>2. findings' = [k \in all |-> findings'[k]] /\ events' = [k \in all |-> events'[k]]
    BY <1>1
  <2>3. QED
    BY <1>2, <2>1, <2>2 DEF FindingRows
<1>4. Requests'
  BY <1>1 DEF FindInv, Requests
<1>5. Evaluation' /\ Obedient' /\ Suppressions'
  BY <1>1, AtShape DEF FindInv, Evaluation, Obedient, Suppressions, Stage
<1>6. Surroundings'
  BY <1>1 DEF FindInv, Surroundings
<1>7. QED
  BY <1>3, <1>4, <1>5, <1>6 DEF FindInv

-----------------------------------------------------------------------------
LEMMA StatusForType == \A class : StatusFor(class) \in Judgement
BY DEF StatusFor, Judgement

LEMMA FeedbackReadKeeps ==
  ASSUME FindInv, NEW p \in Parent, NEW k \in DOMAIN findings, NEW class, FeedbackRead(p, k, class)
  PROVE  FindInv'
<1> DEFINE new == [key |-> k, status |-> StatusFor(class), flushed |-> FALSE,
                   writes |-> findings[k].status # StatusFor(class),
                   match |-> Matching(k.rule, findings[k].about),
                   insert |-> class = "suppress_similar"]
<1>1. fb' = [fb EXCEPT ![p] = new]
      /\ UNCHANGED <<clock, house, stored, findings, suppressed, events, ev>>
  BY DEF FeedbackRead
<1>2. /\ new = [key |-> new.key, status |-> new.status, flushed |-> new.flushed,
                writes |-> new.writes, match |-> new.match, insert |-> new.insert]
      /\ new.key = k /\ new.status \in Judgement /\ new.match.rule = k.rule
  BY StatusForType DEF Matching
<1> HIDE DEF new
<1>3. Requests'
  BY <1>1, <1>2 DEF FindInv, Requests, FindingRows
<1>4. QED
  BY <1>1, <1>3 DEF FindInv, FindingRows, Evaluation, Suppressions, Obedient, Surroundings

LEMMA FeedbackFlushKeeps ==
  ASSUME FindInv, NEW p \in Parent, FeedbackFlush(p)
  PROVE  FindInv'
<1> DEFINE yes == TRUE
           ins == fb[p].insert /\ fb[p].match \notin suppressed
           new == [key |-> fb[p].key, status |-> fb[p].status, flushed |-> yes,
                   writes |-> fb[p].writes, match |-> fb[p].match, insert |-> ins]
<1>1. fb' = [fb EXCEPT ![p] = new]
      /\ UNCHANGED <<clock, house, stored, findings, suppressed, events, ev>>
  <2>1. /\ fb = [q \in Parent |-> fb[q]]
        /\ fb[p] = [key |-> fb[p].key, status |-> fb[p].status, flushed |-> fb[p].flushed,
                    writes |-> fb[p].writes, match |-> fb[p].match, insert |-> fb[p].insert]
    BY DEF FindInv, Requests, FeedbackFlush
  <2>2. fb' = [fb EXCEPT ![p].flushed = yes, ![p].insert = ins]
    BY DEF FeedbackFlush
  <2> HIDE DEF yes, ins
  <2>3. fb' = [fb EXCEPT ![p] = [fb[p] EXCEPT !.flushed = yes, !.insert = ins]]
    BY <2>1, <2>2
  <2>4. [fb[p] EXCEPT !.flushed = yes, !.insert = ins] = new
    <3> DEFINE half == [fb[p] EXCEPT !.flushed = yes]
    <3>1. half = [key |-> fb[p].key, status |-> fb[p].status, flushed |-> yes,
                  writes |-> fb[p].writes, match |-> fb[p].match, insert |-> fb[p].insert]
      BY <2>1
    <3>2. [fb[p] EXCEPT !.flushed = yes, !.insert = ins] = [half EXCEPT !.insert = ins]
      OBVIOUS
    <3> HIDE DEF half
    <3>3. [half EXCEPT !.insert = ins] = new
      BY <3>1
    <3>4. QED
      BY <3>2, <3>3
  <2>5. QED
    BY <2>3, <2>4 DEF FeedbackFlush
<1>2. /\ new = [key |-> new.key, status |-> new.status, flushed |-> new.flushed,
                writes |-> new.writes, match |-> new.match, insert |-> new.insert]
      /\ new.key = fb[p].key /\ new.status = fb[p].status /\ new.match = fb[p].match
  OBVIOUS
<1> HIDE DEF new
<1>3. Requests'
  BY <1>1, <1>2 DEF FindInv, Requests, FeedbackFlush
<1>4. QED
  BY <1>1, <1>3 DEF FindInv, FindingRows, Evaluation, Suppressions, Obedient, Surroundings

\* A status is written to a row that is there.
LEMMA StatusWritten ==
  ASSUME FindingRows, NEW k \in DOMAIN findings, NEW status \in Judgement,
         findings' = [findings EXCEPT ![k].status = status]
  PROVE  /\ DOMAIN findings' = DOMAIN findings
         /\ findings' = [j \in DOMAIN findings |-> findings'[j]]
         /\ \A j \in DOMAIN findings :
              /\ findings'[j].status = IF j = k THEN status ELSE findings[j].status
              /\ findings'[j].about = findings[j].about
              /\ findings'[j] = [status |-> findings'[j].status, about |-> findings'[j].about]
<1>1. findings' = [findings EXCEPT ![k] = [findings[k] EXCEPT !.status = status]]
  OBVIOUS
<1>2. [findings[k] EXCEPT !.status = status] = [status |-> status, about |-> findings[k].about]
  BY DEF FindingRows
<1>3. findings' = [j \in DOMAIN findings |->
                     IF j = k THEN [status |-> status, about |-> findings[k].about] ELSE findings[j]]
  BY <1>1, <1>2 DEF FindingRows
<1>4. ASSUME NEW j \in DOMAIN findings
      PROVE  /\ findings'[j].status = IF j = k THEN status ELSE findings[j].status
             /\ findings'[j].about = findings[j].about
             /\ findings'[j] = [status |-> findings'[j].status, about |-> findings'[j].about]
  <2>1. CASE j = k
    BY <1>3, <2>1
  <2>2. CASE j # k
    BY <1>3, <2>2 DEF FindingRows
  <2>3. QED
    BY <2>1, <2>2
<1>5. DOMAIN findings' = DOMAIN findings /\ findings' = [j \in DOMAIN findings |-> findings'[j]]
  BY <1>3
<1>6. QED
  BY <1>4, <1>5, Zenon

LEMMA FeedbackCommitKeeps ==
  ASSUME FindInv, NEW p \in Parent, FeedbackCommit(p)
  PROVE  FindInv'
<1>1. /\ fb[p] # None /\ fb' = [fb EXCEPT ![p] = None]
      /\ UNCHANGED <<clock, house, stored, events, ev>>
      /\ suppressed' \subseteq suppressed \cup {fb[p].match}
      /\ \/ findings' = findings
         \/ findings' = [findings EXCEPT ![fb[p].key].status = fb[p].status]
  BY DEF FeedbackCommit
<1>2. fb[p].key \in DOMAIN findings /\ fb[p].status \in Judgement /\ fb[p].match.rule \in Rule
  BY <1>1 DEF FindInv, Requests
<1>3. FindingRows' /\ DOMAIN findings' = DOMAIN findings
  <2>1. CASE findings' = findings
    BY <1>1, <2>1 DEF FindInv, FindingRows
  <2>2. CASE findings' = [findings EXCEPT ![fb[p].key].status = fb[p].status]
    <3>1. FindingRows /\ events = [k \in DOMAIN findings |-> events[k]]
      BY DEF FindInv, FindingRows
    <3>2. /\ DOMAIN findings' = DOMAIN findings
          /\ findings' = [j \in DOMAIN findings |-> findings'[j]]
          /\ \A j \in DOMAIN findings :
               /\ findings'[j].status = IF j = fb[p].key THEN fb[p].status ELSE findings[j].status
               /\ findings'[j] = [status |-> findings'[j].status, about |-> findings'[j].about]
      <4> DEFINE key == fb[p].key  status == fb[p].status
      <4>1. key \in DOMAIN findings /\ status \in Judgement
            /\ findings' = [findings EXCEPT ![key].status = status]
        BY <1>2, <2>2
      <4> HIDE DEF key, status
      <4>2. /\ DOMAIN findings' = DOMAIN findings
            /\ findings' = [j \in DOMAIN findings |-> findings'[j]]
            /\ \A j \in DOMAIN findings :
                 /\ findings'[j].status = IF j = key THEN status ELSE findings[j].status
                 /\ findings'[j].about = findings[j].about
                 /\ findings'[j] = [status |-> findings'[j].status, about |-> findings'[j].about]
        BY <3>1, <4>1, StatusWritten
      <4>3. QED
        BY <4>2 DEF key, status
    <3>3. \A j \in DOMAIN findings : j.rule \in Rule /\ findings'[j].status \in FindingStatus
      BY <1>2, <3>1, <3>2 DEF FindingRows, FindingStatus, Judgement
    <3>4. QED
      BY <1>1, <3>1, <3>2, <3>3 DEF FindingRows
  <2>3. QED
    BY <1>1, <2>1, <2>2
<1>4. Requests'
  BY <1>1, <1>3 DEF FindInv, Requests
<1>5. Suppressions'
  BY <1>1, <1>2 DEF FindInv, Suppressions
<1>6. QED
  BY <1>1, <1>3, <1>4, <1>5 DEF FindInv, Evaluation, Obedient, Surroundings

LEMMA FeedbackAbortKeeps ==
  ASSUME FindInv, NEW p \in Parent, FeedbackAbort(p)
  PROVE  FindInv'
<1>1. /\ fb' = [fb EXCEPT ![p] = None]
      /\ UNCHANGED <<clock, house, stored, findings, suppressed, events, ev>>
  BY DEF FeedbackAbort
<1>2. Requests'
  BY <1>1 DEF FindInv, Requests
<1>3. QED
  BY <1>1, <1>2 DEF FindInv, FindingRows, Evaluation, Suppressions, Obedient, Surroundings

LEMMA NextKeepsFindInv == FindInv /\ [Next]_vars => FindInv'
<1> SUFFICES ASSUME FindInv, [Next]_vars PROVE FindInv'
  OBVIOUS
<1>1. CASE Evaluate
  BY <1>1, EvalReadKeeps, EvalFilterKeeps, EvalUpsertKeeps, EvalCommitKeeps, EmptyKeeps
  DEF Evaluate, EvalFail, Wake
<1>2. CASE Crash
  BY <1>2, EmptyKeeps DEF Crash
<1>3. CASE Tick
  <2>1. clock' \in Start..MaxTime /\ UNCHANGED <<house, stored, findings, suppressed, events, ev, fb>>
    BY <1>3, FindingsAssumption DEF Tick, FindInv, Surroundings
  <2>2. QED
    BY <2>1 DEF FindInv, FindingRows, Requests, Evaluation, Suppressions, Obedient, Surroundings
<1>4. ASSUME NEW p \in Parent, Answer(p)
      PROVE  FindInv'
  BY <1>4, FeedbackFlushKeeps, FeedbackCommitKeeps, FeedbackAbortKeeps DEF Answer
<1>5. CASE \E p \in Parent, k \in DOMAIN findings, class \in Classification : FeedbackRead(p, k, class)
  BY <1>5, FeedbackReadKeeps
<1>6. CASE \E match \in suppressed : Unsuppress(match)
  BY <1>6 DEF Unsuppress, FindInv, FindingRows, Requests, Evaluation, Suppressions, Obedient, Surroundings
<1>7. CASE \E s \in house.signals : Store(s)
  <2>1. PICK s \in house.signals : Store(s)
    BY <1>7
  <2>2. /\ stored' = stored \cup {[signal |-> s, at |-> clock]}
        /\ UNCHANGED <<clock, house, findings, suppressed, events, ev, fb>>
    BY <2>1 DEF Store
  <2>3. Surroundings'
    BY <2>2 DEF FindInv, Surroundings
  <2>4. QED
    BY <2>2, <2>3 DEF FindInv, FindingRows, Requests, Evaluation, Suppressions, Obedient
<1>8. CASE UNCHANGED vars
  BY <1>8 DEF vars, FindInv, FindingRows, Requests, Evaluation, Suppressions, Obedient, Surroundings
<1>9. QED
  BY <1>1, <1>2, <1>3, <1>4, <1>5, <1>6, <1>7, <1>8 DEF Next

-----------------------------------------------------------------------------
\* Findings, suppressions, the evaluation and the feedback requests are well
\* typed, and a finding has an event exactly if it is committed.
THEOREM FindingsTypeCorrect == Spec => []FindingsTypeOK
<1>1. FindInv => FindingsTypeOK
  <2> SUFFICES ASSUME FindInv PROVE FindingsTypeOK
    OBVIOUS
  <2>1. DOMAIN events = DOMAIN findings
    BY DEF FindInv, FindingRows
  <2>2. QED
    BY <2>1 DEF FindingsTypeOK, FindInv, FindingRows, FindingStatus, Requests, Evaluation,
       Suppressions, Surroundings
<1>2. QED
  BY <1>1, InitFindInv, NextKeepsFindInv, PTL DEF Spec

\* Only the commit of an evaluation makes new findings.
LEMMA NewFindingsCommitted ==
  ASSUME FindInv, [Next]_vars, ~EvalCommit
  PROVE  DOMAIN findings' = DOMAIN findings
<1>1. CASE \E p \in Parent : FeedbackCommit(p)
  <2>1. PICK p \in Parent : FeedbackCommit(p)
    BY <1>1
  <2>2. CASE findings' = findings
    BY <2>2
  <2>3. CASE findings' # findings
    <3>1. findings' = [findings EXCEPT ![fb[p].key].status = fb[p].status]
      BY <2>1, <2>3 DEF FeedbackCommit
    <3>2. QED
      BY <3>1
  <2>4. QED
    BY <2>2, <2>3
<1>2. CASE ~\E p \in Parent : FeedbackCommit(p)
  <2>1. findings' = findings
    BY <1>2 DEF Next, vars, Evaluate, EvalRead, EvalFail, EvalFilter, EvalUpsert, Wake, Crash, Tick,
       Answer, FeedbackRead, FeedbackFlush, FeedbackAbort, Unsuppress, Store
  <2>2. QED
    BY <2>1
<1>3. QED
  BY <1>1, <1>2

\* No evaluation raises a finding of a kind that was suppressed when it read
\* the suppressions, whatever parents do while it runs.
THEOREM SuppressionObeyedAlways == Spec => SuppressionObeyed
<1>1. FindInv /\ [Next]_vars =>
        [\A k \in DOMAIN findings' \ DOMAIN findings :
           LET match == Matching(k.rule, findings'[k].about)
           IN match \in suppressed => match \notin ev.keys]_vars
  <2> SUFFICES ASSUME FindInv, [Next]_vars, NEW k \in DOMAIN findings' \ DOMAIN findings
               PROVE  Matching(k.rule, findings'[k].about) \notin ev.keys
    OBVIOUS
  <2>1. EvalCommit
    BY NewFindingsCommitted
  <2>2. ev.stage = "upserted" /\ k \in DOMAIN ev.rows /\ findings'[k].about = ev.rows[k]
    BY <2>1 DEF EvalCommit
  <2>3. QED
    BY <2>2 DEF FindInv, Obedient
<1>2. QED
  BY <1>1, InitFindInv, NextKeepsFindInv, PTL DEF Spec, SuppressionObeyed

-----------------------------------------------------------------------------
\* The refinement: the status of every committed finding.
StatusOf == [k \in DOMAIN findings |-> findings[k].status]

\* The commit of an evaluation raises what is new, if anything is.
LEMMA CommitRaises ==
  ASSUME FindInv, EvalCommit
  PROVE  [Lifecycle!Next]_<<StatusOf, events>>
<1> DEFINE S == DOMAIN ev.rows \ DOMAIN findings
           all == DOMAIN findings \cup DOMAIN ev.rows
<1>1. /\ findings' = [k \in all |-> IF k \in DOMAIN ev.rows
                                    THEN [status |-> StatusAfter(k), about |-> ev.rows[k]]
                                    ELSE findings[k]]
      /\ events' = [k \in all |-> IF k \in DOMAIN findings THEN events[k] ELSE 1]
  BY DEF EvalCommit
<1>2. all = DOMAIN findings \cup S
  OBVIOUS
<1>3. StatusOf' = [k \in DOMAIN findings \cup S |-> IF k \in S THEN "open" ELSE StatusOf[k]]
  BY <1>1 DEF StatusOf, StatusAfter
<1>4. events' = [k \in DOMAIN findings \cup S |-> IF k \in S THEN 1 ELSE events[k]]
  BY <1>1
<1>5. DOMAIN StatusOf = DOMAIN findings /\ DOMAIN StatusOf' = DOMAIN findings \cup S
  BY <1>3 DEF StatusOf
<1>6. CASE S = {}
  <2>1. StatusOf' = StatusOf
    BY <1>3, <1>6 DEF StatusOf
  <2>2. events' = [k \in DOMAIN findings |-> events[k]]
    BY <1>4, <1>6
  <2>3. events' = events
    BY <2>2 DEF FindInv, FindingRows
  <2>4. QED
    BY <2>1, <2>3
<1>7. CASE S # {}
  <2>1. DOMAIN StatusOf' \ DOMAIN StatusOf = S
    BY <1>5
  <2>2. /\ DOMAIN StatusOf' \ DOMAIN StatusOf # {}
        /\ (DOMAIN StatusOf' \ DOMAIN StatusOf) \cap DOMAIN StatusOf = {}
    BY <2>1, <1>7
  <2>3. StatusOf' = [k \in DOMAIN StatusOf \cup (DOMAIN StatusOf' \ DOMAIN StatusOf) |->
                       IF k \in DOMAIN StatusOf' \ DOMAIN StatusOf THEN "open" ELSE StatusOf[k]]
    <3> HIDE DEF S
    <3>1. QED
      BY <2>1, <1>3, <1>5
  <2>4. events' = [k \in DOMAIN StatusOf \cup (DOMAIN StatusOf' \ DOMAIN StatusOf) |->
                     IF k \in DOMAIN StatusOf' \ DOMAIN StatusOf THEN 1 ELSE events[k]]
    <3> HIDE DEF S
    <3>1. QED
      BY <2>1, <1>4, <1>5
  <2>5. Lifecycle!Raise(DOMAIN StatusOf' \ DOMAIN StatusOf)
    BY <2>2, <2>3, <2>4, Zenon DEF Lifecycle!Raise, StatusOf
  <2>6. Lifecycle!Next
    BY <2>2, <2>3, <2>4, Zenon DEF Lifecycle!Next, Lifecycle!Raise, StatusOf
  <2>7. QED
    BY <2>6
<1>8. QED
  BY <1>6, <1>7

\* A parent's commit judges one finding, or changes none.
LEMMA FeedbackJudges ==
  ASSUME FindInv, NEW p \in Parent, FeedbackCommit(p)
  PROVE  [Lifecycle!Next]_<<StatusOf, events>>
<1> DEFINE key == fb[p].key  verdict == fb[p].status
<1>1. fb[p] # None /\ UNCHANGED events
  BY DEF FeedbackCommit
<1>2. key \in DOMAIN findings /\ verdict \in Judgement /\ FindingRows
  BY <1>1 DEF FindInv, Requests
<1>3. CASE findings' = findings
  BY <1>1, <1>3 DEF StatusOf
<1>4. CASE findings' # findings
  <2>1. findings' = [findings EXCEPT ![key].status = verdict]
    BY <1>4 DEF FeedbackCommit
  <2> HIDE DEF key, verdict
  <2>2. /\ DOMAIN findings' = DOMAIN findings
        /\ \A j \in DOMAIN findings :
             findings'[j].status = IF j = key THEN verdict ELSE findings[j].status
    BY <1>2, <2>1, StatusWritten
  <2>3. StatusOf' = [StatusOf EXCEPT ![key] = verdict]
    BY <1>2, <2>2 DEF StatusOf
  <2>4. /\ key \in DOMAIN StatusOf /\ verdict \in Lifecycle!Judgement
        /\ UNCHANGED events
    BY <1>1, <1>2 DEF Lifecycle!Judgement, Judgement, StatusOf
  <2>5. \E k \in DOMAIN StatusOf, j \in Lifecycle!Judgement :
          StatusOf' = [StatusOf EXCEPT ![k] = j] /\ UNCHANGED events
    BY <2>3, <2>4
  <2>6. Lifecycle!Next
    BY <2>5, Zenon DEF Lifecycle!Next, Lifecycle!Judge, StatusOf
  <2>7. QED
    BY <2>6
<1>5. QED
  BY <1>3, <1>4

\* Every step of evaluations, crashes and feedback is a step of the life cycle
\* of findings or leaves it alone: a finding is raised once, as open, and
\* announced with it, and no status leads back to open.
THEOREM FindingsImplementLifecycle == Spec => LifecycleSpec
<1>1. Init => Lifecycle!Init
  BY DEF Init, Lifecycle!Init
<1>2. FindInv /\ [Next]_vars => [Lifecycle!Next]_<<StatusOf, events>>
  <2> SUFFICES ASSUME FindInv, [Next]_vars PROVE [Lifecycle!Next]_<<StatusOf, events>>
    OBVIOUS
  <2>1. CASE EvalCommit
    BY <2>1, CommitRaises
  <2>2. CASE \E p \in Parent : FeedbackCommit(p)
    BY <2>2, FeedbackJudges
  <2>3. CASE ~EvalCommit /\ ~\E p \in Parent : FeedbackCommit(p)
    <3>1. UNCHANGED <<findings, events>>
      BY <2>3 DEF Next, vars, Evaluate, EvalRead, EvalFail, EvalFilter, EvalUpsert, Wake, Crash, Tick,
         Answer, FeedbackRead, FeedbackFlush, FeedbackAbort, Unsuppress, Store
    <3>2. QED
      BY <3>1 DEF StatusOf
  <2>4. QED
    BY <2>1, <2>2, <2>3
<1>3. Lifecycle!Spec <=> Lifecycle!Init /\ [][Lifecycle!Next]_<<StatusOf, events>>
  BY DEF Lifecycle!Spec, StatusOf
<1>4. QED
  BY <1>1, <1>2, <1>3, InitFindInv, NextKeepsFindInv, PTL DEF Spec, LifecycleSpec

-----------------------------------------------------------------------------
(***************************************************************************)
(* The sliding window: the span that is chosen exists, and is one of the   *)
(* longest that are long enough.                                           *)
(***************************************************************************)

\* The greatest and the least of some times.
LEMMA LeastTime ==
  ASSUME NEW T \in SUBSET Nat, T # {}
  PROVE  Min(T) \in T /\ \A t \in T : Min(T) <= t
BY LeastNatural DEF Min

LEMMA GreatestTime ==
  ASSUME NEW T \in SUBSET Nat, T # {}, NEW n \in Nat, \A t \in T : t <= n
  PROVE  Max(T) \in T /\ \A t \in T : t <= Max(T)
<1> DEFINE G == {g \in Nat : n - g \in T}
<1>1. G \in SUBSET Nat /\ G # {}
  <2>1. PICK t \in T : TRUE
    OBVIOUS
  <2>2. n - t \in Nat /\ n - (n - t) = t
    BY <2>1
  <2>3. QED
    BY <2>1, <2>2
<1>2. PICK m \in G : \A g \in G : m <= g
  BY <1>1, LeastNatural
<1>3. n - m \in T /\ m \in Nat
  BY <1>2
<1>4. ASSUME NEW t \in T PROVE n - m >= t
  <2>1. n - t \in Nat /\ n - (n - t) = t
    BY <1>4
  <2>2. m <= n - t
    BY <1>2, <2>1
  <2>3. QED
    BY <1>3, <2>1, <2>2
<1>5. \E x \in T : \A y \in T : x >= y
  BY <1>3, <1>4
<1>6. Max(T) \in T /\ \A y \in T : Max(T) >= y
  BY <1>5 DEF Max
<1>7. QED
  BY <1>6

\* Signals with times.
Timed(S) == IsFiniteSet(S) /\ \A e \in S : e.at \in Nat

\* A span with a signal in it ends with its latest, and begins within the window.
LEMMA SpanFacts ==
  ASSUME NEW S, Timed(S), NEW e \in S, NEW w \in Nat
  PROVE  LET b == Span(S, e.at, w) IN
         /\ e \in b /\ b \subseteq S /\ IsFiniteSet(b)
         /\ Cardinality(b) \in Nat /\ Cardinality(b) <= Cardinality(S)
         /\ Latest(b) = e.at
         /\ Earliest(b) \in Nat /\ Earliest(b) >= e.at - w
         /\ Earliest(b) \in {x.at : x \in b} /\ \A x \in b : Earliest(b) <= x.at
<1> DEFINE b == Span(S, e.at, w)  T == {x.at : x \in b}
<1>1. e.at \in Nat /\ \A x \in S : x.at \in Nat
  BY DEF Timed
<1>2. b = {x \in S : e.at - w <= x.at /\ x.at <= e.at}
  BY DEF Span, Within
<1>3. e \in b /\ b \subseteq S /\ \A x \in b : x.at <= e.at /\ e.at - w <= x.at
  BY <1>1, <1>2
<1>4. /\ IsFiniteSet(b) /\ Cardinality(b) \in Nat /\ Cardinality(b) <= Cardinality(S)
  BY <1>3, FS_Subset, FS_CardinalityType DEF Timed
<1> HIDE DEF b
<1>5. T \subseteq Nat /\ T # {} /\ e.at \in T /\ \A t \in T : t <= e.at /\ e.at - w <= t
  BY <1>1, <1>3
<1> HIDE DEF T
<1>6. Max(T) \in T /\ \A t \in T : t <= Max(T)
  BY <1>1, <1>5, GreatestTime
<1>7. Max(T) = e.at
  <2>1. Max(T) \in Nat /\ Max(T) <= e.at /\ e.at <= Max(T)
    BY <1>5, <1>6
  <2>2. QED
    BY <1>1, <2>1
<1>8. Min(T) \in T /\ \A t \in T : Min(T) <= t
  BY <1>5, LeastTime
<1>9. Latest(b) = e.at /\ Earliest(b) = Min(T)
  BY <1>7 DEF Latest, Earliest, T
<1>10. \A x \in b : x.at \in T
  BY DEF T
<1>11. Min(T) \in Nat /\ Min(T) >= e.at - w
  BY <1>5, <1>8
<1>12. QED
  BY <1>3, <1>4, <1>8, <1>9, <1>10, <1>11 DEF b, T

\* The span that is chosen is one of those that are long enough, and there is
\* one if any is.
LEMMA BestSpanFacts ==
  ASSUME NEW S, Timed(S), NEW least \in Nat, NEW w \in Nat
  PROVE  LET b == BestSpan(S, least, w) IN
         /\ b # {} => \E e \in S : b = Span(S, e.at, w) /\ Cardinality(b) >= least
         /\ (\E e \in S : Cardinality(Span(S, e.at, w)) >= least) => b # {}
<1> DEFINE spans == {Span(S, e.at, w) : e \in S}
           long == {s \in spans : /\ Cardinality(s) >= least
                                  /\ \A u \in spans : Cardinality(u) <= Cardinality(s)}
           b == BestSpan(S, least, w)
<1>1. \A s \in spans : \E e \in S : s = Span(S, e.at, w)
  OBVIOUS
<1>2. \A s \in spans : s # {} /\ Cardinality(s) \in Nat /\ Cardinality(s) <= Cardinality(S)
  BY <1>1, SpanFacts
<1>3. \A s \in spans : Latest(s) \in Nat
  BY <1>1, SpanFacts DEF Timed
<1>4. b = IF long = {} THEN {} ELSE CHOOSE s \in long : \A u \in long : Latest(s) <= Latest(u)
  BY DEF BestSpan
<1>5. Cardinality(S) \in Nat
  BY FS_CardinalityType DEF Timed
<1> HIDE DEF spans, b
<1>6. ASSUME NEW s \in spans, Cardinality(s) >= least PROVE long # {}
  <2> DEFINE C == {Cardinality(u) : u \in spans}
  <2>1. C \subseteq Nat /\ C # {} /\ \A c \in C : c <= Cardinality(S)
    BY <1>2, <1>6
  <2> HIDE DEF C
  <2>2. Max(C) \in C /\ \A c \in C : c <= Max(C)
    BY <1>5, <2>1, GreatestTime
  <2>3. PICK u \in spans : Max(C) = Cardinality(u)
    BY <2>2 DEF C
  <2>4. \A v \in spans : Cardinality(v) <= Cardinality(u)
    BY <2>2, <2>3 DEF C
  <2>5. Cardinality(u) >= least
    BY <1>2, <1>6, <2>3, <2>4
  <2>6. u \in long
    BY <2>3, <2>4, <2>5
  <2>7. QED
    BY <2>6
<1>7. ASSUME long # {} PROVE b \in long
  <2> DEFINE L == {Latest(s) : s \in long}
  <2>1. L \subseteq Nat /\ L # {}
    BY <1>3, <1>7
  <2>2. PICK m \in L : \A l \in L : m <= l
    <3> HIDE DEF L
    <3>1. QED
      BY <2>1, LeastNatural
  <2>3. \E s \in long : \A u \in long : Latest(s) <= Latest(u)
    BY <2>2
  <2> HIDE DEF long
  <2>4. QED
    BY <1>4, <1>7, <2>3
<1>8. \A s \in long : s \in spans /\ Cardinality(s) >= least
  OBVIOUS
<1> HIDE DEF long
<1>9. b # {} => \E e \in S : b = Span(S, e.at, w) /\ Cardinality(b) >= least
  BY <1>1, <1>4, <1>7, <1>8
<1>10. (\E e \in S : Cardinality(Span(S, e.at, w)) >= least) => b # {}
  <2> SUFFICES ASSUME NEW e \in S, Cardinality(Span(S, e.at, w)) >= least PROVE b # {}
    OBVIOUS
  <2>1. Span(S, e.at, w) \in spans
    BY DEF spans
  <2>2. QED
    BY <1>2, <1>6, <1>7, <1>8, <2>1
<1>11. QED
  BY <1>9, <1>10 DEF b

\* Finitely many signals are stored, and a line only once.
StoredOnce ==
  /\ IsFiniteSet(stored)
  /\ \A r, q \in stored : r.signal.kind = "line" /\ r.signal = q.signal => r = q

\* The drafts that the rules make of what is stored have different
\* fingerprints, and the filter only drops some of them.
DraftInv == FindInv /\ StoredOnce /\ DraftsDistinct

\* What the rules read has times, and is finite.
LEMMA LookupsTimed ==
  ASSUME FindInv, StoredOnce
  PROVE  Timed(Lookups)
<1> DEFINE S == {r.signal : r \in stored}  f == [r \in stored |-> r.signal]
<1>1. f \in Surjection(stored, S)
  BY DEF Surjection
<1> HIDE DEF f
<1>2. IsFiniteSet(S)
  BY <1>1, FS_Surjection DEF StoredOnce
<1>3. Lookups \subseteq S
  BY DEF Lookups
<1>4. IsFiniteSet(Lookups)
  BY <1>2, <1>3, FS_Subset
<1>5. \A s \in S : s.at \in Nat
  BY HouseholdsAssumption DEF FindInv, Surroundings
<1>6. QED
  BY <1>3, <1>4, <1>5 DEF Timed

\* So have the moves of clients.
LEMMA TransitionsTimed ==
  ASSUME FindInv, StoredOnce
  PROVE  Timed(Transitions) /\ \A t \in Transitions : t.move \in {"connect", "disconnect"}
<1> DEFINE L == {r \in Ingested("line") : r.signal.move # None}
           E == {r \in Ingested("event") : r.signal.move # None}
           l(r) == [row |-> r, at |-> r.at, move |-> r.signal.move, mac |-> r.signal.mac,
                    device |-> Owner(r.signal.mac)]
           e(r) == [row |-> r, at |-> r.signal.at, move |-> r.signal.move, mac |-> r.signal.mac,
                    device |-> Owner(r.signal.mac)]
           f == [r \in L |-> l(r)]
           g == [r \in E |-> e(r)]
           SL == {l(r) : r \in L}
           SE == {e(r) : r \in E}
<1>1. Transitions = SL \cup SE
  BY DEF Transitions
<1>2. /\ L \subseteq stored /\ \A r \in L : r.signal.kind = "line" /\ r.signal.move # None
      /\ E \subseteq stored /\ \A r \in E : r.signal.kind = "event" /\ r.signal.move # None
  BY DEF Ingested
<1>3. IsFiniteSet(L) /\ IsFiniteSet(E)
  <2> HIDE DEF L, E
  <2>1. QED
    BY <1>2, FS_Subset DEF StoredOnce
<1>4. \A r \in stored : /\ r.at \in Nat /\ r.signal.at \in Nat
                        /\ r.signal.kind \in {"line", "event"} =>
                             r.signal.move \in {None, "connect", "disconnect"}
  BY HouseholdsAssumption, FindingsAssumption DEF FindInv, Surroundings
<1>5. f \in Surjection(L, SL) /\ g \in Surjection(E, SE)
  BY Zenon DEF Surjection
<1>6. \A r \in L : l(r).at \in Nat /\ l(r).move \in {"connect", "disconnect"}
  <2> HIDE DEF L, E
  <2>1. QED
    BY <1>2, <1>4
<1>7. \A r \in E : e(r).at \in Nat /\ e(r).move \in {"connect", "disconnect"}
  <2> HIDE DEF L, E
  <2>1. QED
    BY <1>2, <1>4
<1> HIDE DEF f, g, L, E, l, e
<1>8. \A t \in SL \cup SE : t.at \in Nat /\ t.move \in {"connect", "disconnect"}
  BY <1>6, <1>7
<1> HIDE DEF SL, SE
<1>9. IsFiniteSet(SL) /\ IsFiniteSet(SE)
  BY <1>3, <1>5, FS_Surjection
<1>10. IsFiniteSet(SL \cup SE)
  BY <1>9, FS_Union
<1>11. QED
  BY <1>1, <1>8, <1>10 DEF Timed

\* The burst of one device.
BurstOf(d) == BestSpan({e \in Lookups : e.blocked /\ e.device = d}, Limits.burst, Limits.burstWindow)

BurstDraft(b) ==
  LET device == (CHOOSE e \in b : TRUE).device
  IN Draft("blocked_query_burst", device, Bucket(Earliest(b), Limits.burstWindow), device,
           Person[device], b, Domains(b), Latest(b),
           Label(device, Person[device]) \cup Sample(Domains(b), Limits.burstSample))

\* A burst is a span of the device's blocked lookups.
LEMMA BurstFacts ==
  ASSUME FindInv, StoredOnce, NEW d
  PROVE  LET own == {e \in Lookups : e.blocked /\ e.device = d} IN
         /\ Timed(own)
         /\ BurstOf(d) # {} =>
              /\ \E e \in own : /\ BurstOf(d) = Span(own, e.at, Limits.burstWindow)
                                /\ Cardinality(BurstOf(d)) >= Limits.burst
              /\ (CHOOSE e \in BurstOf(d) : TRUE).device = d
              /\ d \in {e.device : e \in Lookups}
         /\ (\E e \in own : Cardinality(Span(own, e.at, Limits.burstWindow)) >= Limits.burst)
              => BurstOf(d) # {}
<1> DEFINE own == {e \in Lookups : e.blocked /\ e.device = d}
<1>1. Timed(own)
  <2>1. own \subseteq Lookups /\ IsFiniteSet(Lookups) /\ \A e \in Lookups : e.at \in Nat
    BY LookupsTimed DEF Timed
  <2>2. IsFiniteSet(own)
    <3> HIDE DEF own
    <3>1. QED
      BY <2>1, FS_Subset
  <2>3. QED
    BY <2>1, <2>2 DEF Timed
<1>2. \A e \in own : e.device = d /\ e \in Lookups
  OBVIOUS
<1>3. BurstOf(d) = BestSpan(own, Limits.burst, Limits.burstWindow)
  BY DEF BurstOf
<1>4. Limits.burst \in Nat /\ Limits.burstWindow \in Nat
  BY RulesAssumption
<1> HIDE DEF own
<1>5. /\ BurstOf(d) # {} => \E e \in own : /\ BurstOf(d) = Span(own, e.at, Limits.burstWindow)
                                           /\ Cardinality(BurstOf(d)) >= Limits.burst
      /\ (\E e \in own : Cardinality(Span(own, e.at, Limits.burstWindow)) >= Limits.burst)
           => BurstOf(d) # {}
  BY <1>1, <1>3, <1>4, BestSpanFacts
<1>6. BurstOf(d) \subseteq own
  BY <1>5 DEF Span, Within
<1>7. BurstOf(d) # {} => /\ (CHOOSE e \in BurstOf(d) : TRUE).device = d
                         /\ d \in {e.device : e \in Lookups}
  BY <1>2, <1>6
<1>8. QED
  BY <1>1, <1>5, <1>7 DEF own

\* The drafts of the bursts are those of the devices with a burst.
LEMMA BurstsAre ==
  /\ \A x \in BlockedBursts(Lookups, Person) :
       \E d : BurstOf(d) # {} /\ x = BurstDraft(BurstOf(d))
  /\ \A d \in {e.device : e \in Lookups} :
       BurstOf(d) # {} => BurstDraft(BurstOf(d)) \in BlockedBursts(Lookups, Person)
<1> DEFINE devices == {e.device : e \in Lookups}
<1>1. BlockedBursts(Lookups, Person) = {BurstDraft(b) : b \in {BurstOf(d) : d \in devices} \ {{}}}
  BY Zenon DEF BlockedBursts, BurstOf, BurstDraft
<1> HIDE DEF devices
<1>2. QED
  BY <1>1 DEF devices

\* The flapping of one client.
ClientOf(t) == IF t.device # None THEN t.device ELSE t.mac

FlapOf(k) == BestSpan({t \in Transitions : ClientOf(t) = k}, Limits.flaps, Limits.flapWindow)

FlapDraft(b) ==
  LET one == CHOOSE t \in b : TRUE
  IN Draft("connection_flapping", ClientOf(one), Bucket(Earliest(b), Limits.flapWindow),
           one.device, Person[one.device], b, {}, Latest(b), Label(one.device, Person[one.device]))

\* What flaps is a span of the moves of one client.
LEMMA FlapFacts ==
  ASSUME FindInv, StoredOnce, NEW k, FlapOf(k) # {}
  PROVE  LET b == FlapOf(k) IN
         /\ ClientOf(CHOOSE t \in b : TRUE) = k
         /\ Cardinality(b) >= Limits.flaps
         /\ Latest(b) - Earliest(b) <= Limits.flapWindow
         /\ \A t \in b : t.move \in {"connect", "disconnect"}
<1> DEFINE own == {t \in Transitions : ClientOf(t) = k}  b == FlapOf(k)
<1>1. Timed(own) /\ \A t \in own : t.move \in {"connect", "disconnect"} /\ ClientOf(t) = k
  <2>1. /\ own \subseteq Transitions /\ IsFiniteSet(Transitions)
        /\ \A t \in Transitions : t.at \in Nat /\ t.move \in {"connect", "disconnect"}
    BY TransitionsTimed DEF Timed
  <2>2. IsFiniteSet(own)
    <3> HIDE DEF own
    <3>1. QED
      BY <2>1, FS_Subset
  <2>3. QED
    BY <2>1, <2>2 DEF Timed
<1>2. b = BestSpan(own, Limits.flaps, Limits.flapWindow)
  BY DEF FlapOf
<1>3. Limits.flaps \in Nat /\ Limits.flapWindow \in Nat
  BY RulesAssumption
<1> HIDE DEF own
<1>4. PICK e \in own : b = Span(own, e.at, Limits.flapWindow) /\ Cardinality(b) >= Limits.flaps
  BY <1>1, <1>2, <1>3, BestSpanFacts
<1>5. /\ b \subseteq own /\ Latest(b) = e.at /\ Earliest(b) >= e.at - Limits.flapWindow
      /\ Earliest(b) \in Nat
  BY <1>1, <1>3, <1>4, SpanFacts
<1>6. e.at \in Nat
  BY <1>1 DEF Timed
<1> HIDE DEF b
<1>7. Latest(b) - Earliest(b) <= Limits.flapWindow
  BY <1>3, <1>5, <1>6
<1>8. b # {}
  BY DEF b
<1>9. ClientOf(CHOOSE t \in b : TRUE) = k
  BY <1>1, <1>5, <1>8
<1>10. QED
  BY <1>1, <1>4, <1>5, <1>7, <1>9 DEF b

\* Every draft of a flapping is that of one client.
LEMMA FlapsAre ==
  \A x \in Flappings(Transitions, Person) :
    \E k : /\ FlapOf(k) # {} /\ x = FlapDraft(FlapOf(k))
           /\ {"connect", "disconnect"} \subseteq {t.move : t \in FlapOf(k)}
<1> DEFINE keys == {ClientOf(t) : t \in Transitions}
           both == {b \in {FlapOf(k) : k \in keys} :
                      {"connect", "disconnect"} \subseteq {t.move : t \in b}}
<1>1. Flappings(Transitions, Person) = {FlapDraft(b) : b \in both}
  BY Zenon DEF Flappings, FlapOf, FlapDraft, ClientOf
<1>2. \A b \in both : /\ \E k : b = FlapOf(k)
                      /\ b # {} /\ {"connect", "disconnect"} \subseteq {t.move : t \in b}
  OBVIOUS
<1> HIDE DEF both
<1>3. QED
  BY <1>1, <1>2

\* What a draft is made of.
LEMMA DraftFields ==
  ASSUME NEW rule, NEW subject, NEW at, NEW device, NEW person, NEW evidence, NEW domains,
         NEW occurred, NEW quoted
  PROVE  LET d == Draft(rule, subject, at, device, person, evidence, domains, occurred, quoted) IN
         d.rule = rule /\ d.subject = subject /\ d.device = device /\ d.evidence = evidence
BY DEF Draft

\* A window that begins with one lookup is as good as one that ends with one.
LEMMA EndsOfWindows ==
  ASSUME NEW S, Timed(S), NEW least \in Nat \ {0}, NEW w \in Nat
  PROVE  (\E e \in S : Cardinality(Within(S, e.at, e.at + w)) >= least)
           <=> \E e \in S : Cardinality(Span(S, e.at, w)) >= least
<1>1. ASSUME NEW e \in S, Cardinality(Within(S, e.at, e.at + w)) >= least
      PROVE  \E l \in S : Cardinality(Span(S, l.at, w)) >= least
  <2> DEFINE b == Within(S, e.at, e.at + w)  T == {x.at : x \in b}
  <2>1. /\ b \subseteq S /\ e \in b
        /\ \A x \in b : x.at \in Nat /\ x.at <= e.at + w /\ e.at <= x.at
        /\ e.at \in Nat /\ e.at + w \in Nat
    BY DEF Within, Timed
  <2> HIDE DEF b
  <2>2. T \subseteq Nat /\ T # {} /\ \A t \in T : t <= e.at + w
    BY <2>1
  <2> HIDE DEF T
  <2>3. Max(T) \in T /\ \A t \in T : t <= Max(T)
    BY <2>1, <2>2, GreatestTime
  <2>4. PICK l \in b : l.at = Max(T)
    BY <2>3 DEF T
  <2>5. \A x \in b : x.at <= l.at
    BY <2>3, <2>4 DEF T
  <2>6. l \in S /\ l.at \in Nat /\ l.at - w <= e.at
    BY <2>1, <2>4
  <2>7. b \subseteq Span(S, l.at, w)
    BY <2>1, <2>5, <2>6 DEF Span, Within
  <2>8. IsFiniteSet(Span(S, l.at, w)) /\ Cardinality(Span(S, l.at, w)) \in Nat
    BY <2>6, SpanFacts
  <2>9. IsFiniteSet(b) /\ Cardinality(b) <= Cardinality(Span(S, l.at, w)) /\ Cardinality(b) \in Nat
    BY <2>7, <2>8, FS_Subset, FS_CardinalityType
  <2>10. Cardinality(b) >= least
    BY <1>1 DEF b
  <2>11. QED
    BY <2>6, <2>8, <2>9, <2>10
<1>2. ASSUME NEW e \in S, Cardinality(Span(S, e.at, w)) >= least
      PROVE  \E l \in S : Cardinality(Within(S, l.at, l.at + w)) >= least
  <2> DEFINE b == Span(S, e.at, w)
  <2>1. /\ b \subseteq S /\ IsFiniteSet(b) /\ Cardinality(b) \in Nat
        /\ Earliest(b) >= e.at - w /\ Earliest(b) \in {x.at : x \in b}
        /\ \A x \in b : Earliest(b) <= x.at
    BY SpanFacts
  <2>2. \A x \in S : x.at \in Nat
    BY DEF Timed
  <2>3. \A x \in b : x.at <= e.at
    BY <2>2 DEF Span, Within
  <2>4. Cardinality(b) >= least
    BY <1>2
  <2> HIDE DEF b
  <2>5. PICK l \in b : l.at = Earliest(b)
    BY <2>1
  <2>6. l \in S /\ l.at \in Nat /\ e.at \in Nat /\ e.at <= l.at + w
    BY <2>1, <2>2, <2>5
  <2> DEFINE c == Within(S, l.at, l.at + w)
  <2>7. b \subseteq c /\ c \subseteq S
    BY <2>1, <2>2, <2>3, <2>5, <2>6 DEF Within
  <2> HIDE DEF c
  <2>8. IsFiniteSet(c) /\ Cardinality(c) \in Nat
    BY <2>7, FS_Subset, FS_CardinalityType DEF Timed
  <2>9. Cardinality(b) <= Cardinality(c)
    BY <2>7, <2>8, FS_Subset
  <2>10. QED
    BY <2>1, <2>4, <2>6, <2>8, <2>9 DEF c
<1>3. QED
  BY <1>1, <1>2

\* The windows of the rules against the windows of their reading.
LEMMA BurstsFollow == FindInv /\ StoredOnce => BurstsCaught
<1> SUFFICES ASSUME FindInv, StoredOnce PROVE BurstsCaught
  OBVIOUS
<1>1. ASSUME NEW d
      PROVE  LET own == {e \in Lookups : e.blocked /\ e.device = d} IN
             (\E e \in own : Cardinality(Within(own, e.at, e.at + Limits.burstWindow)) >= Limits.burst)
               <=> \E x \in BlockedBursts(Lookups, Person) : x.device = d
  <2> DEFINE own == {e \in Lookups : e.blocked /\ e.device = d}
  <2>1. /\ Timed(own)
        /\ BurstOf(d) # {} =>
             /\ \E e \in own : /\ BurstOf(d) = Span(own, e.at, Limits.burstWindow)
                               /\ Cardinality(BurstOf(d)) >= Limits.burst
             /\ (CHOOSE e \in BurstOf(d) : TRUE).device = d
             /\ d \in {e.device : e \in Lookups}
        /\ (\E e \in own : Cardinality(Span(own, e.at, Limits.burstWindow)) >= Limits.burst)
             => BurstOf(d) # {}
    BY BurstFacts
  <2> HIDE DEF own
  <2>2. Limits.burst \in Nat \ {0} /\ Limits.burstWindow \in Nat
    BY RulesAssumption
  <2>3. (\E e \in own : Cardinality(Within(own, e.at, e.at + Limits.burstWindow)) >= Limits.burst)
          <=> BurstOf(d) # {}
    BY <2>1, <2>2, EndsOfWindows
  <2>4. BurstOf(d) # {} => \E x \in BlockedBursts(Lookups, Person) : x.device = d
    <3> SUFFICES ASSUME BurstOf(d) # {}
                 PROVE  \E x \in BlockedBursts(Lookups, Person) : x.device = d
      OBVIOUS
    <3>1. BurstDraft(BurstOf(d)) \in BlockedBursts(Lookups, Person)
      BY <2>1, BurstsAre
    <3>2. BurstDraft(BurstOf(d)).device = d
      BY <2>1, DraftFields DEF BurstDraft
    <3>3. QED
      BY <3>1, <3>2
  <2>5. (\E x \in BlockedBursts(Lookups, Person) : x.device = d) => BurstOf(d) # {}
    <3> SUFFICES ASSUME NEW x \in BlockedBursts(Lookups, Person), x.device = d
                 PROVE  BurstOf(d) # {}
      OBVIOUS
    <3>1. PICK c : BurstOf(c) # {} /\ x = BurstDraft(BurstOf(c))
      BY BurstsAre
    <3>2. (CHOOSE e \in BurstOf(c) : TRUE).device = c
      BY <3>1, BurstFacts
    <3>3. x.device = c
      BY <3>1, <3>2, DraftFields DEF BurstDraft
    <3>4. QED
      BY <3>1, <3>3
  <2>6. QED
    BY <2>3, <2>4, <2>5 DEF own
<1>2. ASSUME NEW x \in Flappings(Transitions, Person)
      PROVE  /\ Cardinality(x.evidence) >= Limits.flaps
             /\ Latest(x.evidence) - Earliest(x.evidence) <= Limits.flapWindow
             /\ {t.move : t \in x.evidence} = {"connect", "disconnect"}
  <2>1. PICK k : /\ FlapOf(k) # {} /\ x = FlapDraft(FlapOf(k))
                 /\ {"connect", "disconnect"} \subseteq {t.move : t \in FlapOf(k)}
    BY FlapsAre
  <2>2. x.evidence = FlapOf(k)
    BY <2>1, DraftFields DEF FlapDraft
  <2>3. /\ Cardinality(FlapOf(k)) >= Limits.flaps
        /\ Latest(FlapOf(k)) - Earliest(FlapOf(k)) <= Limits.flapWindow
        /\ \A t \in FlapOf(k) : t.move \in {"connect", "disconnect"}
    BY <2>1, FlapFacts
  <2>4. QED
    BY <2>1, <2>2, <2>3
<1>3. QED
  BY <1>1, <1>2 DEF BurstsCaught

-----------------------------------------------------------------------------
(***************************************************************************)
(* The fingerprints of the drafts.                                         *)
(***************************************************************************)

\* The drafts of a rule, one for each subject.
OnePerSubject(D, rule) ==
  /\ \A d \in D : d.rule = rule
  /\ \A d, e \in D : d.subject = e.subject => d = e

\* A device is in the list of devices once.
LEMMA UnknownDistinct == OnePerSubject(UnknownOnline(DeviceContexts, clock), "unknown_device_online")
<1> DEFINE context(d) == [device |-> d, person |-> Person[d], unknown |-> house.devices[d].unknown,
                          seen |-> house.devices[d].seen,
                          online |-> house.devices[d].seen >= clock - OnlineTime]
           draft(c) == Draft("unknown_device_online", c.device, Bucket(clock, HourLength), c.device,
                             c.person, {}, {}, c.seen, Label(c.device, c.person))
<1>1. \A c \in DeviceContexts : c = context(c.device)
  <2>1. \A d : context(d).device = d
    OBVIOUS
  <2>2. DeviceContexts = {context(d) : d \in DOMAIN house.devices}
    BY DEF DeviceContexts
  <2> HIDE DEF context
  <2>3. QED
    BY <2>1, <2>2
<1>2. \A x \in UnknownOnline(DeviceContexts, clock) : \E c \in DeviceContexts : x = draft(c)
  BY Zenon DEF UnknownOnline
<1>3. \A c : draft(c).rule = "unknown_device_online" /\ draft(c).subject = c.device
  BY DraftFields
<1> HIDE DEF context, draft
<1>4. QED
  BY <1>1, <1>2, <1>3 DEF OnePerSubject

\* A device has one burst, a client flaps once.
LEMMA BurstsDistinct ==
  ASSUME FindInv, StoredOnce
  PROVE  OnePerSubject(BlockedBursts(Lookups, Person), "blocked_query_burst")
<1>1. ASSUME NEW x \in BlockedBursts(Lookups, Person)
      PROVE  /\ x.rule = "blocked_query_burst" /\ x = BurstDraft(BurstOf(x.subject))
  <2>1. PICK d : BurstOf(d) # {} /\ x = BurstDraft(BurstOf(d))
    BY BurstsAre
  <2>2. (CHOOSE e \in BurstOf(d) : TRUE).device = d
    BY <2>1, BurstFacts
  <2>3. x.rule = "blocked_query_burst" /\ x.subject = (CHOOSE e \in BurstOf(d) : TRUE).device
    BY <2>1, DraftFields DEF BurstDraft
  <2>4. QED
    BY <2>1, <2>2, <2>3
<1>2. QED
  BY <1>1 DEF OnePerSubject

LEMMA FlapsDistinct ==
  ASSUME FindInv, StoredOnce
  PROVE  OnePerSubject(Flappings(Transitions, Person), "connection_flapping")
<1>1. ASSUME NEW x \in Flappings(Transitions, Person)
      PROVE  /\ x.rule = "connection_flapping" /\ x = FlapDraft(FlapOf(x.subject))
  <2>1. PICK k : FlapOf(k) # {} /\ x = FlapDraft(FlapOf(k))
    BY FlapsAre
  <2>2. ClientOf(CHOOSE t \in FlapOf(k) : TRUE) = k
    BY <2>1, FlapFacts
  <2>3. x.rule = "connection_flapping" /\ x.subject = ClientOf(CHOOSE t \in FlapOf(k) : TRUE)
    BY <2>1, DraftFields DEF FlapDraft
  <2>4. QED
    BY <2>1, <2>2, <2>3
<1>2. QED
  BY <1>1 DEF OnePerSubject

\* A line is stored once, so its id tells its drafts apart.
LEMMA SecurityDistinct ==
  ASSUME FindInv, StoredOnce
  PROVE  OnePerSubject(SecurityEvents(Security, Person), "unifi_security_event")
<1> DEFINE event(r) == [row |-> r.signal.id, at |-> r.at, mac |-> r.signal.mac,
                        device |-> Owner(r.signal.mac), msg |-> r.signal.msg]
           draft(e) == Draft("unifi_security_event", e.row, None, e.device, Person[e.device], {e}, {},
                             e.at, Label(e.device, Person[e.device]) \cup {e.msg})
           rows == {r \in Ingested("line") : r.signal.security}
<1>1. rows \subseteq stored /\ \A r \in rows : r.signal.kind = "line" /\ r.signal \in house.signals
  BY DEF Ingested, FindInv, Surroundings
<1>2. \A x \in SecurityEvents(Security, Person) : \E r \in rows : x = draft(event(r))
  <2>1. Security = {event(r) : r \in rows}
    BY DEF Security
  <2>2. SecurityEvents(Security, Person) = {draft(e) : e \in Security}
    BY Zenon DEF SecurityEvents
  <2> HIDE DEF event, draft, rows
  <2>3. QED
    BY <2>1, <2>2
<1>3. \A r : draft(event(r)).rule = "unifi_security_event" /\ draft(event(r)).subject = r.signal.id
  <2>1. \A e : draft(e).rule = "unifi_security_event" /\ draft(e).subject = e.row
    BY DraftFields
  <2>2. \A r : event(r).row = r.signal.id
    OBVIOUS
  <2> HIDE DEF event, draft
  <2>3. QED
    BY <2>1, <2>2
<1> HIDE DEF event, draft, rows
<1>4. \A r, q \in rows : r.signal.id = q.signal.id => r = q
  <2> TAKE r, q \in rows
  <2> HAVE r.signal.id = q.signal.id
  <2>1. house \in Households
    BY DEF FindInv, Surroundings
  <2>2. r.signal = q.signal
    BY <1>1, <2>1, HouseholdsAssumption
  <2>3. QED
    BY <1>1, <2>2 DEF StoredOnce
<1>5. QED
  BY <1>2, <1>3, <1>4 DEF OnePerSubject

\* A device has at most one draft of each of the rules about its statistics.
LEMMA VolumeDistinct ==
  ASSUME NEW s, NEW baseline, NEW person
  PROVE  /\ \A d \in VolumeIncreases(s, baseline, person) :
              d.rule = "dns_volume_increase" /\ d.subject = s.device
         /\ \A d, e \in VolumeIncreases(s, baseline, person) : d = e
BY DraftFields DEF VolumeIncreases

LEMMA OutsideDistinct ==
  ASSUME NEW s, NEW typical, NEW person
  PROVE  /\ \A d \in OutsideHours(s, typical, person) :
              d.rule = "activity_outside_expected_hours" /\ d.subject = s.device
         /\ \A d, e \in OutsideHours(s, typical, person) : d = e
BY DraftFields DEF OutsideHours

LEMMA NewDistinct ==
  ASSUME NEW s, NEW baseline, NEW person
  PROVE  /\ \A d \in NewDomains(s, baseline, person) :
              d.rule = "new_domain_burst" /\ d.subject = s.device
         /\ \A d, e \in NewDomains(s, baseline, person) : d = e
<1> DEFINE fresh == s.dns.fresh
           draft == Draft("new_domain_burst", s.device, s.to, s.device, person[s.device], {}, fresh, s.to,
                          Label(s.device, person[s.device]) \cup Sample(fresh, Limits.freshSample))
<1>1. \A d \in NewDomains(s, baseline, person) : d = draft
  BY Zenon DEF NewDomains
<1>2. draft.rule = "new_domain_burst" /\ draft.subject = s.device
  BY DraftFields
<1> HIDE DEF draft
<1>3. QED
  BY <1>1, <1>2

VolumeDrafts == UNION {VolumeIncreases(s, house.baselines[s.device], Person) : s \in SubjectStats}
OutsideDrafts == UNION {OutsideHours(s, TypicalOf(s, house.baselines[s.device], house.schedules, Person),
                                Person) : s \in SubjectStats}
NewDomainDrafts == UNION {NewDomains(s, house.baselines[s.device], Person) : s \in SubjectStats}

\* A device has its statistics once.
LEMMA SubjectsDistinct ==
  /\ OnePerSubject(VolumeDrafts, "dns_volume_increase")
  /\ OnePerSubject(OutsideDrafts, "activity_outside_expected_hours")
  /\ OnePerSubject(NewDomainDrafts, "new_domain_burst")
<1>1. \A s, t \in SubjectStats : s.device = t.device => s = t
  <2> DEFINE stat(d) == Stats(d, Lookups, house.prior[d], clock - EvalWindow, clock)
  <2>1. \A d : stat(d).device = d
    BY DEF Stats
  <2>2. \A s \in SubjectStats : \E d : s = stat(d)
    BY DEF SubjectStats
  <2> HIDE DEF stat
  <2>3. QED
    BY <2>1, <2>2
<1>2. OnePerSubject(VolumeDrafts, "dns_volume_increase")
  <2> DEFINE made(s) == VolumeIncreases(s, house.baselines[s.device], Person)
  <2>1. VolumeDrafts = UNION {made(s) : s \in SubjectStats}
    BY DEF VolumeDrafts
  <2>2. \A s \in SubjectStats :
          /\ \A d \in made(s) : d.rule = "dns_volume_increase" /\ d.subject = s.device
          /\ \A d, e \in made(s) : d = e
    BY VolumeDistinct
  <2> HIDE DEF made
  <2>3. QED
    BY <1>1, <2>1, <2>2 DEF OnePerSubject
<1>3. OnePerSubject(OutsideDrafts, "activity_outside_expected_hours")
  <2> DEFINE made(s) == OutsideHours(s, TypicalOf(s, house.baselines[s.device], house.schedules, Person), Person)
  <2>1. OutsideDrafts = UNION {made(s) : s \in SubjectStats}
    BY DEF OutsideDrafts
  <2>2. \A s \in SubjectStats :
          /\ \A d \in made(s) : d.rule = "activity_outside_expected_hours" /\ d.subject = s.device
          /\ \A d, e \in made(s) : d = e
    BY OutsideDistinct
  <2> HIDE DEF made
  <2>3. QED
    BY <1>1, <2>1, <2>2 DEF OnePerSubject
<1>4. OnePerSubject(NewDomainDrafts, "new_domain_burst")
  <2> DEFINE made(s) == NewDomains(s, house.baselines[s.device], Person)
  <2>1. NewDomainDrafts = UNION {made(s) : s \in SubjectStats}
    BY DEF NewDomainDrafts
  <2>2. \A s \in SubjectStats :
          /\ \A d \in made(s) : d.rule = "new_domain_burst" /\ d.subject = s.device
          /\ \A d, e \in made(s) : d = e
    BY NewDistinct
  <2> HIDE DEF made
  <2>3. QED
    BY <1>1, <2>1, <2>2 DEF OnePerSubject
<1>5. QED
  BY <1>2, <1>3, <1>4

\* Rule and subject identify a draft of the evaluation.
LEMMA AllDistinct ==
  ASSUME FindInv, StoredOnce
  PROVE  \A d, e \in AllDrafts : Fingerprint(d) = Fingerprint(e) => d = e
<1> DEFINE unknown == UnknownOnline(DeviceContexts, clock)
           bursts == BlockedBursts(Lookups, Person)
           flaps == Flappings(Transitions, Person)
           alarms == SecurityEvents(Security, Person)
<1>1. AllDrafts = unknown \cup bursts \cup flaps \cup alarms \cup VolumeDrafts \cup OutsideDrafts \cup NewDomainDrafts
  <2>1. UNION {SubjectDrafts(s, house.baselines[s.device], house.schedules, Person) :
                 s \in SubjectStats} = VolumeDrafts \cup OutsideDrafts \cup NewDomainDrafts
    BY DEF SubjectDrafts, VolumeDrafts, OutsideDrafts, NewDomainDrafts
  <2>2. QED
    BY <2>1 DEF AllDrafts
<1>2. /\ OnePerSubject(unknown, "unknown_device_online") /\ OnePerSubject(bursts, "blocked_query_burst")
      /\ OnePerSubject(flaps, "connection_flapping") /\ OnePerSubject(alarms, "unifi_security_event")
  BY UnknownDistinct, BurstsDistinct, FlapsDistinct, SecurityDistinct
<1>3. \A d, e : Fingerprint(d) = Fingerprint(e) => d.rule = e.rule /\ d.subject = e.subject
  BY DEF Fingerprint
<1> HIDE DEF unknown, bursts, flaps, alarms
<1>4. ASSUME NEW d \in AllDrafts, NEW e \in AllDrafts, d.rule = e.rule, d.subject = e.subject
      PROVE  d = e
  <2>1. \A x \in AllDrafts :
          /\ x.rule = "unknown_device_online" => x \in unknown
          /\ x.rule = "blocked_query_burst" => x \in bursts
          /\ x.rule = "connection_flapping" => x \in flaps
          /\ x.rule = "unifi_security_event" => x \in alarms
          /\ x.rule = "dns_volume_increase" => x \in VolumeDrafts
          /\ x.rule = "activity_outside_expected_hours" => x \in OutsideDrafts
          /\ x.rule = "new_domain_burst" => x \in NewDomainDrafts
          /\ x.rule \in Rule
    BY <1>1, <1>2, SubjectsDistinct DEF OnePerSubject, Rule
  <2>2. QED
    BY <1>2, <1>4, <2>1, SubjectsDistinct DEF OnePerSubject, Rule
<1>5. QED
  BY <1>3, <1>4

\* What is stored, and the drafts, through every step.
LEMMA NextKeepsDrafts == DraftInv /\ [Next]_vars => DraftInv'
<1> SUFFICES ASSUME DraftInv, [Next]_vars PROVE DraftInv'
  OBVIOUS
<1>1. FindInv /\ StoredOnce /\ DraftsDistinct /\ FindInv'
  BY NextKeepsFindInv DEF DraftInv
<1>2. StoredOnce'
  <2>1. CASE UNCHANGED stored
    BY <1>1, <2>1 DEF StoredOnce
  <2>2. CASE \E s \in house.signals : Store(s)
    <3>1. PICK s \in house.signals : Store(s)
      BY <2>2
    <3> DEFINE new == [signal |-> s, at |-> clock]
    <3>2. /\ stored' = stored \cup {new}
          /\ s.kind = "event" \/ s \notin {r.signal : r \in stored}
          /\ new.signal = s
      BY <3>1 DEF Store
    <3> HIDE DEF new
    <3>3. IsFiniteSet(stored')
      BY <1>1, <3>2, FS_AddElement DEF StoredOnce
    <3>4. \A r, q \in stored' : r.signal.kind = "line" /\ r.signal = q.signal => r = q
      BY <1>1, <3>2 DEF StoredOnce
    <3>5. QED
      BY <3>3, <3>4 DEF StoredOnce
  <2>3. QED
    BY <2>1, <2>2 DEF Next, vars, Evaluate, EvalRead, EvalFail, EvalFilter, EvalUpsert, EvalCommit,
       Wake, Crash, Tick, Answer, FeedbackRead, FeedbackFlush, FeedbackCommit, FeedbackAbort, Unsuppress
<1>3. DraftsDistinct'
  <2>1. CASE ev'.drafts \subseteq ev.drafts
    BY <1>1, <2>1 DEF DraftsDistinct
  <2>2. CASE ev'.drafts = AllDrafts
    BY <1>1, <2>2, AllDistinct DEF DraftsDistinct
  <2>3. CASE EvalRead
    <3>1. ev'.drafts = AllDrafts
      BY <2>3 DEF EvalRead, At
    <3>2. QED
      BY <2>2, <3>1
  <2>4. CASE EvalFilter \/ EvalUpsert
    <3>1. ev'.drafts \subseteq ev.drafts
      BY <1>1, <2>4 DEF EvalFilter, EvalUpsert, Filtered, FindInv, Evaluation
    <3>2. QED
      BY <2>1, <3>1
  <2>5. CASE EvalFail \/ EvalCommit \/ Wake \/ Crash
    <3>1. ev'.drafts = {}
      BY <2>5 DEF EvalFail, EvalCommit, Wake, Crash, At
    <3>2. QED
      BY <2>1, <3>1
  <2>6. CASE UNCHANGED ev
    BY <2>1, <2>6
  <2>7. QED
    BY <2>3, <2>4, <2>5, <2>6 DEF Next, vars, Evaluate, Tick, Answer, FeedbackRead, FeedbackFlush,
       FeedbackCommit, FeedbackAbort, Unsuppress, Store
<1>4. QED
  BY <1>1, <1>2, <1>3 DEF DraftInv

\* In the beginning nothing is stored and nothing drafted.
LEMMA InitDrafts == Init => DraftInv
<1> SUFFICES ASSUME Init PROVE DraftInv
  OBVIOUS
<1>1. stored = {} /\ ev.drafts = {}
  BY DEF Init, At
<1>2. StoredOnce /\ DraftsDistinct
  BY <1>1, FS_EmptySet DEF StoredOnce, DraftsDistinct
<1>3. QED
  BY <1>2, InitFindInv DEF DraftInv

\* No two drafts of an evaluation share a fingerprint, so that no condition
\* loses its finding to another (upsert_finding).
THEOREM DraftsDistinctAlways == Spec => []DraftsDistinct
<1>1. DraftInv => DraftsDistinct
  BY DEF DraftInv
<1>2. QED
  BY <1>1, InitDrafts, NextKeepsDrafts, PTL DEF Spec

\* The sliding windows miss no burst and see none, for all thresholds, and what
\* a flapping finding reports lies in one window.
THEOREM BurstsCaughtAlways == Spec => []BurstsCaught
<1>1. DraftInv => BurstsCaught
  BY BurstsFollow DEF DraftInv
<1>2. QED
  BY <1>1, InitDrafts, NextKeepsDrafts, PTL DEF Spec
=============================================================================
