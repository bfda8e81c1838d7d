--------------------------- MODULE AuditorProofs ---------------------------
(***************************************************************************)
(* Proofs about CupowAuditor for any calls, journal paths, bounds and      *)
(* faults: AuditorInv is inductive, and the safety properties follow.      *)
(***************************************************************************)
EXTENDS CupowAuditor, TLAPS

-----------------------------------------------------------------------------
(* Lemmas about records and journals.                                      *)

\* A challenge that may be issued is one, and the relation's clauses hold of it.
LEMMA NewChallengeHolds ==
  ASSUME TypeOK, NEW s \in Drawn, Issuable(s)
  PROVE  /\ NewChallenge(s) \in Challenge /\ NewChallenge(s) # None
         /\ NewChallenge(s).tag = "challenge" /\ NewChallenge(s).seed = seeds + 1
         /\ s \in Nat
         /\ ChallengeHolds(NewChallenge(s))
<1>1. s = seeds + 1 /\ s \in Nat
  BY DEF Drawn, Issuable, TypeOK
<1>2. Closed \in Times /\ now \in Times
  BY EpochAssumption DEF TypeOK, Times
<1>3. NewChallenge(s) \in Challenge
  BY <1>1, <1>2 DEF NewChallenge, Challenge
<1> QED
  BY <1>1, <1>3, NoneAssumption DEF NewChallenge, Issuable, ChallengeHolds

\* A completion that is accepted is one, and holds with the current challenge.
LEMMA NewCompletionHolds ==
  ASSUME TypeOK, NEW o \in Offer, Acceptable(o)
  PROVE  /\ NewCompletion(o) \in Completion /\ NewCompletion(o) # None
         /\ NewCompletion(o).tag = "completion"
         /\ challenge \in Challenge
         /\ CompletionHolds(challenge, NewCompletion(o))
<1>1. NewCompletion(o) \in Completion
  BY DEF NewCompletion, Completion, Offer, TypeOK
<1>2. challenge \in Challenge
  BY DEF Acceptable, TypeOK
<1> QED
  BY <1>1, <1>2, NoneAssumption DEF NewCompletion, Acceptable, CompletionHolds

\* Lengthening a journal keeps its records where they are.
LEMMA AppendKeeps ==
  ASSUME NEW S, NEW s \in Seq(S), NEW tail \in Seq(S)
  PROVE  /\ s \o tail \in Seq(S)
         /\ DOMAIN s \subseteq DOMAIN (s \o tail)
         /\ \A i \in DOMAIN s : (s \o tail)[i] = s[i]
  OBVIOUS

\* The journal at the current path is lengthened, the others stay.
Grows == \E tail \in Seq(Record \union {Torn}) :
           journals' = [journals EXCEPT ![path] = @ \o tail]

\* What was in a journal stays in it, in the same order.
LEMMA GrowthKeeps ==
  ASSUME TypeOK, Grows
  PROVE  /\ journals' \in [Paths -> Seq(Record \union {Torn})]
         /\ \A p \in Paths : DOMAIN journals[p] \subseteq DOMAIN journals'[p]
         /\ \A p \in Paths : \A i \in DOMAIN journals[p] : journals'[p][i] = journals[p][i]
         /\ \A p \in Paths : p # path => journals'[p] = journals[p]
<1>1. PICK tail \in Seq(Record \union {Torn}) :
        journals' = [journals EXCEPT ![path] = @ \o tail]
  BY DEF Grows
<1>2. path \in Paths /\ journals \in [Paths -> Seq(Record \union {Torn})]
  BY DEF TypeOK
<1>3. /\ journals[path] \o tail \in Seq(Record \union {Torn})
      /\ DOMAIN journals[path] \subseteq DOMAIN (journals[path] \o tail)
      /\ \A i \in DOMAIN journals[path] : (journals[path] \o tail)[i] = journals[path][i]
  BY <1>2, AppendKeeps
<1> QED
  BY <1>1, <1>2, <1>3

\* append_record, successful or not, lengthens the journal.
LEMMA RecordingGrows ==
  ASSUME TypeOK, NEW record \in Record, Recorded(record) \/ RecordLost(record)
  PROVE  Grows
<1>1. path \in Paths /\ journals[path] \in Seq(Record \union {Torn})
  BY DEF TypeOK
<1>2. CASE Recorded(record)
  <2>1. Append(journals[path], record) = journals[path] \o <<record>>
    BY <1>1
  <2>2. <<record>> \in Seq(Record \union {Torn})
    OBVIOUS
  <2> QED
    BY <1>2, <2>1, <2>2 DEF Recorded, Grows
<1>3. CASE RecordLost(record)
  <2>1. PICK tail \in {<<>>, <<Torn>>, <<record>>} :
          journals' = [journals EXCEPT ![path] = @ \o tail]
    BY <1>3 DEF RecordLost
  <2>2. <<>> \in Seq(Record \union {Torn}) /\ <<Torn>> \in Seq(Record \union {Torn})
    OBVIOUS
  <2>3. <<record>> \in Seq(Record \union {Torn})
    OBVIOUS
  <2> QED
    BY <2>1, <2>2, <2>3 DEF Grows
<1> QED
  BY <1>2, <1>3

\* A record that was recorded is the last of its journal, behind all others.
LEMMA RecordedIsLast ==
  ASSUME TypeOK, NEW record \in Record, Recorded(record)
  PROVE  \E j \in DOMAIN journals'[path] :
           /\ journals'[path][j] = record
           /\ \A i \in DOMAIN journals[path] : i < j
<1> DEFINE j == Len(journals[path]) + 1
<1>1. path \in Paths /\ journals[path] \in Seq(Record \union {Torn})
  BY DEF TypeOK
<1>2. journals'[path] = Append(journals[path], record)
  BY <1>1 DEF Recorded, TypeOK
<1>3. j \in DOMAIN journals'[path] /\ journals'[path][j] = record
  BY <1>1, <1>2
<1>4. \A i \in DOMAIN journals[path] : i < j
  BY <1>1
<1> QED
  BY <1>3, <1>4

-----------------------------------------------------------------------------
(* Lemmas about the history of released records.                           *)

\* What the service released after it released one more record.
LEMMA ReleasedMore ==
  ASSUME TypeOK, NEW record \in Record,
         released' = [released EXCEPT ![path] = @ \union {record}]
  PROVE  /\ released' \in [Paths -> SUBSET Record]
         /\ released'[path] = released[path] \union {record}
         /\ \A p \in Paths : p # path => released'[p] = released[p]
         /\ \A p \in Paths : p # path =>
              Challenges(p)' = Challenges(p) /\ Completions(p)' = Completions(p)
         /\ record.tag = "challenge" =>
              \A p \in Paths : p = path =>
                /\ Challenges(p)' = Challenges(p) \union {record}
                /\ Completions(p)' = Completions(p)
         /\ record.tag = "completion" =>
              \A p \in Paths : p = path =>
                /\ Challenges(p)' = Challenges(p)
                /\ Completions(p)' = Completions(p) \union {record}
<1>1. path \in Paths /\ released \in [Paths -> SUBSET Record]
  BY DEF TypeOK
<1>2. /\ released' \in [Paths -> SUBSET Record]
      /\ released'[path] = released[path] \union {record}
      /\ \A p \in Paths : p # path => released'[p] = released[p]
  BY <1>1
<1>3. ASSUME NEW p \in Paths, p # path
      PROVE  Challenges(p)' = Challenges(p) /\ Completions(p)' = Completions(p)
  BY <1>2, <1>3 DEF Challenges, Completions
<1>4. ASSUME record.tag = "challenge", NEW p \in Paths, p = path
      PROVE  /\ Challenges(p)' = Challenges(p) \union {record}
             /\ Completions(p)' = Completions(p)
  <2>1. Challenges(p)' = {x \in released[p] \union {record} : x.tag = "challenge"}
    BY <1>2, <1>4 DEF Challenges
  <2>2. Completions(p)' = {x \in released[p] \union {record} : x.tag = "completion"}
    BY <1>2, <1>4 DEF Completions
  <2> QED
    BY <2>1, <2>2, <1>4 DEF Challenges, Completions
<1>5. ASSUME record.tag = "completion", NEW p \in Paths, p = path
      PROVE  /\ Challenges(p)' = Challenges(p)
             /\ Completions(p)' = Completions(p) \union {record}
  <2>1. Challenges(p)' = {x \in released[p] \union {record} : x.tag = "challenge"}
    BY <1>2, <1>5 DEF Challenges
  <2>2. Completions(p)' = {x \in released[p] \union {record} : x.tag = "completion"}
    BY <1>2, <1>5 DEF Completions
  <2> QED
    BY <2>1, <2>2, <1>5 DEF Challenges, Completions
<1> QED
  BY <1>2, <1>3, <1>4, <1>5

\* Every released challenge is one, and every released completion.
LEMMA ReleasedTypes ==
  ASSUME TypeOK, NEW p \in Paths
  PROVE  Challenges(p) \subseteq Challenge /\ Completions(p) \subseteq Completion
  BY DEF TypeOK, Challenges, Completions, Record, Challenge, Completion

-----------------------------------------------------------------------------
(* Type correctness.                                                       *)

LEMMA TypeStep == TypeOK /\ [Next]_vars => TypeOK'
<1> SUFFICES ASSUME TypeOK, [Next]_vars PROVE TypeOK'
  OBVIOUS
<1> USE DEF serviceVars, stateVars
<1>w. /\ Idle \in Wire /\ Ask \in Wire /\ Refused \in Wire
      /\ Offer \subseteq Wire /\ Challenge \subseteq Wire /\ Completion \subseteq Wire
  BY DEF Wire
<1>r. Challenge \subseteq Record /\ Completion \subseteq Record
  BY DEF Record
<1>1. ASSUME NEW p \in Paths, Start(p) PROVE TypeOK'
  BY <1>1 DEF Start, TypeOK
<1>2. ASSUME NEW p \in Paths, StartFails(p) PROVE TypeOK'
  BY <1>2 DEF StartFails, TypeOK
<1>3. CASE Crash
  BY <1>3, <1>w DEF Crash, TypeOK
<1>4. ASSUME NEW c \in Calls, Issue(c) PROVE TypeOK'
  <2>1. PICK s \in Drawn : /\ Issuable(s) /\ Recorded(NewChallenge(s))
                           /\ challenge' = NewChallenge(s) /\ Releases(c, NewChallenge(s))
    BY <1>4 DEF Issue
  <2>2. NewChallenge(s) \in Challenge
    BY <2>1, NewChallengeHolds
  <2>3. journals' \in [Paths -> Seq(Record \union {Torn})]
    BY <2>1, <2>2, <1>r, RecordingGrows, GrowthKeeps
  <2>4. released' \in [Paths -> SUBSET Record]
    BY <2>1, <2>2, <1>r, ReleasedMore DEF Releases
  <2>5. wire' \in [Calls -> Wire]
    BY <2>1, <2>2, <1>w DEF Releases, Carries, TypeOK
  <2>6. seeds' \in Nat
    BY <1>4 DEF Issue, TypeOK
  <2>7. challenge' \in Challenge \union {None}
    BY <2>1, <2>2
  <2>8. UNCHANGED <<proc, path, used, completion, known, now>>
    BY <1>4 DEF Issue
  <2> QED
    BY <2>3, <2>4, <2>5, <2>6, <2>7, <2>8 DEF TypeOK
<1>5. ASSUME NEW c \in Calls, IssueFails(c) PROVE TypeOK'
  <2>1. PICK s \in Drawn : Issuable(s) /\ RecordLost(NewChallenge(s))
    BY <1>5 DEF IssueFails
  <2>2. journals' \in [Paths -> Seq(Record \union {Torn})]
    BY <2>1, <1>r, NewChallengeHolds, RecordingGrows, GrowthKeeps
  <2>3. wire' \in [Calls -> Wire]
    BY <1>5, <1>w DEF IssueFails, Carries, TypeOK
  <2>4. seeds' \in Nat
    BY <1>5 DEF IssueFails, TypeOK
  <2>5. UNCHANGED <<proc, path, used, challenge, completion, known, released, now>>
    BY <1>5 DEF IssueFails
  <2> QED
    BY <2>2, <2>3, <2>4, <2>5 DEF TypeOK
<1>6. ASSUME NEW c \in Calls, IssueRefused(c) PROVE TypeOK'
  BY <1>6, <1>w DEF IssueRefused, Carries, TypeOK
<1>7. ASSUME NEW c \in Calls, Accept(c) PROVE TypeOK'
  <2> DEFINE record == NewCompletion(wire[c])
  <2>1. /\ wire[c] \in Offer /\ Acceptable(wire[c])
        /\ Recorded(record) /\ completion' = record /\ Releases(c, record)
    BY <1>7 DEF Accept
  <2>2. record \in Completion
    BY <2>1, NewCompletionHolds
  <2> HIDE DEF record
  <2>3. journals' \in [Paths -> Seq(Record \union {Torn})]
    BY <2>1, <2>2, <1>r, RecordingGrows, GrowthKeeps
  <2>4. released' \in [Paths -> SUBSET Record]
    BY <2>1, <2>2, <1>r, ReleasedMore DEF Releases
  <2>5. wire' \in [Calls -> Wire]
    BY <2>1, <2>2, <1>w DEF Releases, Carries, TypeOK
  <2>6. UNCHANGED <<proc, path, used, challenge, seeds, known, now>>
    BY <1>7 DEF Accept
  <2> QED
    BY <2>1, <2>2, <2>3, <2>4, <2>5, <2>6 DEF TypeOK
<1>8. ASSUME NEW c \in Calls, AcceptFails(c) PROVE TypeOK'
  <2>1. wire[c] \in Offer /\ Acceptable(wire[c]) /\ RecordLost(NewCompletion(wire[c]))
    BY <1>8 DEF AcceptFails
  <2>2. journals' \in [Paths -> Seq(Record \union {Torn})]
    BY <2>1, <1>r, NewCompletionHolds, RecordingGrows, GrowthKeeps
  <2>3. wire' \in [Calls -> Wire]
    BY <1>8, <1>w DEF AcceptFails, Carries, TypeOK
  <2>4. UNCHANGED <<proc, path, used, challenge, completion, seeds, known, released, now>>
    BY <1>8 DEF AcceptFails
  <2> QED
    BY <2>2, <2>3, <2>4 DEF TypeOK
<1>9. ASSUME NEW c \in Calls, AcceptRefused(c) PROVE TypeOK'
  BY <1>9, <1>w DEF AcceptRefused, Carries, TypeOK
<1>10. ASSUME NEW c \in Calls, Sends(c) PROVE TypeOK'
  <2>1. \A ch \in known : ch.seed \in Nat
    BY DEF TypeOK, Challenge
  <2>2. Offers \subseteq Offer
    BY <2>1 DEF Offers, Offer
  <2> QED
    BY <1>10, <2>2, <1>w DEF Sends, Send, Carries, TypeOK
<1>11. ASSUME NEW c \in Calls, Deliver(c) PROVE TypeOK'
  <2>1. known' \subseteq Challenge
    BY <1>11 DEF Deliver, TypeOK
  <2> QED
    BY <1>11, <2>1, <1>w DEF Deliver, Carries, TypeOK
<1>12. ASSUME NEW c \in Calls, Lose(c) PROVE TypeOK'
  BY <1>12, <1>w DEF Lose, Carries, TypeOK
<1>13. CASE Tick
  BY <1>13, EpochAssumption DEF Tick, TypeOK, Times
<1>14. CASE SetBack
  BY <1>14, EpochAssumption DEF SetBack, TypeOK, Times
<1>15. CASE UNCHANGED vars
  BY <1>15 DEF vars, TypeOK
<1> QED
  BY <1>1, <1>2, <1>3, <1>4, <1>5, <1>6, <1>7, <1>8, <1>9, <1>10, <1>11, <1>12, <1>13,
     <1>14, <1>15 DEF Next, Serve

-----------------------------------------------------------------------------
(* The history.                                                            *)

\* What the service released, in all its parts, as AuditorInv has it.
HistoryInv ==
  /\ \A p \in Paths : \A ch \in Challenges(p) : ch.seed <= seeds
  /\ ReleasedOnce /\ ReleasedIsJournaled /\ SignedPairHolds /\ SeedsAreFresh

\* The service's memory is what it released with the journal it runs with.
MemoryInv ==
  /\ Up => path \in used
  /\ Up => Challenges(path) = IF challenge = None THEN {} ELSE {challenge}
  /\ Up => Completions(path) = IF completion = None THEN {} ELSE {completion}
  /\ \A p \in Paths \ used : journals[p] = <<>> /\ released[p] = {}

LEMMA AuditorInvParts == AuditorInv <=> TypeOK /\ MemoryInv /\ HistoryInv
  BY DEF AuditorInv, MemoryInv, HistoryInv

\* A step that releases nothing keeps the history, whatever it adds to a journal.
LEMMA QuietHistory ==
  ASSUME TypeOK, HistoryInv, released' = released, seeds' \in Nat, seeds <= seeds',
         journals' = journals \/ Grows
  PROVE  HistoryInv'
<1>1. \A p \in Paths : Challenges(p)' = Challenges(p) /\ Completions(p)' = Completions(p)
  BY DEF Challenges, Completions
<1>2. \A p \in Paths : /\ DOMAIN journals[p] \subseteq DOMAIN journals'[p]
                       /\ \A i \in DOMAIN journals[p] : journals'[p][i] = journals[p][i]
  BY GrowthKeeps
<1>3. \A p \in Paths : \A ch \in Challenges(p)' : ch.seed <= seeds'
  <2> SUFFICES ASSUME NEW p \in Paths, NEW ch \in Challenges(p)
               PROVE  ch.seed <= seeds'
    BY <1>1
  <2>1. ch.seed \in Nat /\ ch.seed <= seeds /\ seeds \in Nat
    BY ReleasedTypes DEF Challenge, HistoryInv, TypeOK
  <2> QED
    BY <2>1
<1>4. ReleasedOnce'
  BY <1>1 DEF ReleasedOnce, HistoryInv
<1>5. ReleasedIsJournaled'
  <2>1. ASSUME NEW p \in Paths, NEW record \in released'[p]
        PROVE  \E i \in DOMAIN journals'[p] : journals'[p][i] = record
    BY <2>1, <1>2 DEF ReleasedIsJournaled, HistoryInv
  <2>2. ASSUME NEW p \in Paths, NEW ch \in Challenges(p)', NEW k \in Completions(p)'
        PROVE  Before(p, ch, k)'
    <3>1. Before(p, ch, k)
      BY <1>1 DEF ReleasedIsJournaled, HistoryInv
    <3> QED
      BY <3>1, <1>2 DEF Before
  <2> QED
    BY <2>1, <2>2 DEF ReleasedIsJournaled
<1>6. SignedPairHolds'
  BY <1>1 DEF SignedPairHolds, HistoryInv, ChallengeHolds, CompletionHolds
<1>7. SeedsAreFresh'
  BY <1>1 DEF SeedsAreFresh, HistoryInv
<1> QED
  BY <1>3, <1>4, <1>5, <1>6, <1>7 DEF HistoryInv

\* A challenge that is released is the first of its journal, with the newest seed.
LEMMA IssueHistory ==
  ASSUME TypeOK, HistoryInv, MemoryInv, NEW c \in Calls, Issue(c)
  PROVE  HistoryInv' /\ MemoryInv'
<1>1. PICK s \in Drawn : /\ Issuable(s) /\ Recorded(NewChallenge(s))
                         /\ challenge' = NewChallenge(s) /\ Releases(c, NewChallenge(s))
  BY DEF Issue
<1> DEFINE new == NewChallenge(s)
<1>2. /\ new \in Challenge /\ new # None /\ new.tag = "challenge" /\ new.seed = seeds + 1
      /\ ChallengeHolds(new)
  BY <1>1, NewChallengeHolds
<1>3. new \in Record
  BY <1>2 DEF Record
<1>4. /\ released' = [released EXCEPT ![path] = @ \union {new}]
      /\ challenge' = new /\ Recorded(new)
  BY <1>1 DEF Releases
<1> HIDE DEF new
<1>5. /\ Up /\ Up' /\ path \in Paths /\ UNCHANGED <<path, used, completion>>
      /\ seeds' = seeds + 1 /\ seeds \in Nat
  BY DEF Issue, serviceVars, Up, TypeOK
<1>6. Challenges(path) = {}
  BY <1>1, <1>5 DEF MemoryInv, Issuable
<1>7. Completions(path) = {}
  BY <1>5, <1>6 DEF HistoryInv, SignedPairHolds
<1>8. Grows
  BY <1>3, <1>4, RecordingGrows
<1>9. /\ \A p \in Paths : DOMAIN journals[p] \subseteq DOMAIN journals'[p]
      /\ \A p \in Paths : \A i \in DOMAIN journals[p] : journals'[p][i] = journals[p][i]
      /\ \A p \in Paths : p # path => journals'[p] = journals[p]
  BY <1>8, GrowthKeeps
<1>10. /\ released'[path] = released[path] \union {new}
       /\ \A p \in Paths : p # path => released'[p] = released[p]
       /\ \A p \in Paths : p # path =>
            Challenges(p)' = Challenges(p) /\ Completions(p)' = Completions(p)
  BY <1>3, <1>4, ReleasedMore
<1>11. ASSUME NEW p \in Paths, p = path
       PROVE  Challenges(p)' = {new} /\ Completions(p)' = {}
  <2>1. Challenges(p)' = Challenges(p) \union {new} /\ Completions(p)' = Completions(p)
    BY <1>2, <1>3, <1>4, <1>11, ReleasedMore
  <2>2. Challenges(p) = {} /\ Completions(p) = {}
    BY <1>6, <1>7, <1>11
  <2> QED
    BY <2>1, <2>2
<1>12. \E j \in DOMAIN journals'[path] : journals'[path][j] = new
  BY <1>3, <1>4, RecordedIsLast
<1>13. \A p \in Paths : \A ch \in Challenges(p) : ch.seed \in Nat /\ ch.seed <= seeds
  BY ReleasedTypes DEF Challenge, HistoryInv
<1>14. \A p \in Paths : \A ch \in Challenges(p)' : ch.seed <= seeds'
  <2> SUFFICES ASSUME NEW p \in Paths, NEW ch \in Challenges(p)' PROVE ch.seed <= seeds'
    OBVIOUS
  <2>1. CASE p = path
    BY <2>1, <1>11, <1>2, <1>5
  <2>2. CASE p # path
    <3>1. ch \in Challenges(p)
      BY <2>2, <1>10
    <3> QED
      BY <3>1, <1>13, <1>5
  <2> QED
    BY <2>1, <2>2
<1>15. ReleasedOnce'
  BY <1>10, <1>11 DEF ReleasedOnce, HistoryInv
<1>16. ReleasedIsJournaled'
  <2>1. ASSUME NEW p \in Paths, NEW record \in released'[p]
        PROVE  \E i \in DOMAIN journals'[p] : journals'[p][i] = record
    <3>1. CASE record \in released[p]
      <4>1. PICK i \in DOMAIN journals[p] : journals[p][i] = record
        BY <3>1 DEF HistoryInv, ReleasedIsJournaled
      <4> QED
        BY <4>1, <1>9
    <3>2. CASE record \notin released[p]
      <4>1. p = path /\ record = new
        BY <3>2, <2>1, <1>10
      <4> QED
        BY <4>1, <1>12
    <3> QED
      BY <3>1, <3>2
  <2>2. ASSUME NEW p \in Paths, NEW ch \in Challenges(p)', NEW k \in Completions(p)'
        PROVE  Before(p, ch, k)'
    <3>1. p # path
      BY <2>2, <1>11
    <3>2. Before(p, ch, k)
      BY <2>2, <3>1, <1>10 DEF HistoryInv, ReleasedIsJournaled
    <3> QED
      BY <3>1, <3>2, <1>9 DEF Before
  <2> QED
    BY <2>1, <2>2 DEF ReleasedIsJournaled
<1>17. SignedPairHolds'
  BY <1>2, <1>10, <1>11 DEF HistoryInv, SignedPairHolds, ChallengeHolds, CompletionHolds
<1>18. SeedsAreFresh'
  <2> SUFFICES ASSUME NEW p \in Paths, NEW q \in Paths,
                      NEW a \in Challenges(p)', NEW b \in Challenges(q)', a.seed = b.seed
               PROVE  a = b /\ p = q
    BY DEF SeedsAreFresh
  <2>1. CASE p = path /\ q = path
    BY <2>1, <1>11
  <2>2. CASE p = path /\ q # path
    BY <2>2, <1>2, <1>10, <1>11, <1>13, <1>5
  <2>3. CASE p # path /\ q = path
    BY <2>3, <1>2, <1>10, <1>11, <1>13, <1>5
  <2>4. CASE p # path /\ q # path
    BY <2>4, <1>10 DEF HistoryInv, SeedsAreFresh
  <2> QED
    BY <2>1, <2>2, <2>3, <2>4
<1>19. MemoryInv'
  <2>1. Challenges(path)' = {challenge'} /\ challenge' # None
    BY <1>2, <1>4, <1>5, <1>11 DEF Challenges
  <2>2. Completions(path)' = {} /\ completion' = None
    <3>1. completion = None
      BY <1>5, <1>7 DEF MemoryInv
    <3> QED
      BY <3>1, <1>5, <1>11 DEF Completions
  <2>3. path \in used
    BY <1>5 DEF MemoryInv
  <2>4. \A p \in Paths \ used' : journals'[p] = <<>> /\ released'[p] = {}
    BY <2>3, <1>5, <1>9, <1>10 DEF MemoryInv
  <2> QED
    BY <2>1, <2>2, <2>3, <2>4, <1>5 DEF MemoryInv
<1> QED
  BY <1>14, <1>15, <1>16, <1>17, <1>18, <1>19 DEF HistoryInv

\* A completion that is released follows the challenge it answers.
LEMMA AcceptHistory ==
  ASSUME TypeOK, HistoryInv, MemoryInv, NEW c \in Calls, Accept(c)
  PROVE  HistoryInv' /\ MemoryInv'
<1> DEFINE new == NewCompletion(wire[c])
<1>1. /\ wire[c] \in Offer /\ Acceptable(wire[c]) /\ Recorded(new)
      /\ completion' = new /\ Releases(c, new)
  BY DEF Accept
<1>2. /\ new \in Completion /\ new # None /\ new.tag = "completion"
      /\ challenge \in Challenge /\ challenge # None
      /\ CompletionHolds(challenge, new)
  BY <1>1, NewCompletionHolds DEF Acceptable
<1>3. new \in Record
  BY <1>2 DEF Record
<1>4. released' = [released EXCEPT ![path] = @ \union {new}]
  BY <1>1 DEF Releases
<1>5. completion = None
  BY <1>1 DEF Acceptable
<1> HIDE DEF new
<1>6. Up /\ Up' /\ path \in Paths /\ UNCHANGED <<path, used, challenge, seeds>>
  BY DEF Accept, serviceVars, Up, TypeOK
<1>7. Challenges(path) = {challenge} /\ Completions(path) = {}
  BY <1>2, <1>5, <1>6 DEF MemoryInv
<1>8. Grows
  BY <1>1, <1>3, RecordingGrows
<1>9. /\ \A p \in Paths : DOMAIN journals[p] \subseteq DOMAIN journals'[p]
      /\ \A p \in Paths : \A i \in DOMAIN journals[p] : journals'[p][i] = journals[p][i]
      /\ \A p \in Paths : p # path => journals'[p] = journals[p]
  BY <1>8, GrowthKeeps
<1>10. /\ released'[path] = released[path] \union {new}
       /\ \A p \in Paths : p # path => released'[p] = released[p]
       /\ \A p \in Paths : p # path =>
            Challenges(p)' = Challenges(p) /\ Completions(p)' = Completions(p)
  BY <1>3, <1>4, ReleasedMore
<1>11. ASSUME NEW p \in Paths, p = path
       PROVE  Challenges(p)' = {challenge} /\ Completions(p)' = {new}
  <2>1. Challenges(p)' = Challenges(p) /\ Completions(p)' = Completions(p) \union {new}
    BY <1>2, <1>3, <1>4, <1>11, ReleasedMore
  <2>2. Challenges(p) = {challenge} /\ Completions(p) = {}
    BY <1>7, <1>11
  <2> QED
    BY <2>1, <2>2
<1>12. \A p \in Paths : Challenges(p)' = Challenges(p)
  BY <1>7, <1>10, <1>11
<1>13. PICK j \in DOMAIN journals'[path] :
         /\ journals'[path][j] = new
         /\ \A i \in DOMAIN journals[path] : i < j
  BY <1>1, <1>3, RecordedIsLast
<1>14. ReleasedOnce'
  BY <1>10, <1>11 DEF ReleasedOnce, HistoryInv
<1>15. ReleasedIsJournaled'
  <2>1. ASSUME NEW p \in Paths, NEW record \in released'[p]
        PROVE  \E i \in DOMAIN journals'[p] : journals'[p][i] = record
    <3>1. CASE record \in released[p]
      <4>1. PICK i \in DOMAIN journals[p] : journals[p][i] = record
        BY <3>1 DEF HistoryInv, ReleasedIsJournaled
      <4> QED
        BY <4>1, <1>9
    <3>2. CASE record \notin released[p]
      <4>1. p = path /\ record = new
        BY <3>2, <2>1, <1>10
      <4> QED
        BY <4>1, <1>13
    <3> QED
      BY <3>1, <3>2
  <2>2. ASSUME NEW p \in Paths, NEW ch \in Challenges(p)', NEW k \in Completions(p)'
        PROVE  Before(p, ch, k)'
    <3>1. CASE p = path
      <4>1. k = new /\ ch \in released[p]
        BY <3>1, <2>2, <1>11, <1>12 DEF Challenges
      <4>2. PICK i \in DOMAIN journals[p] : journals[p][i] = ch
        BY <4>1 DEF HistoryInv, ReleasedIsJournaled
      <4>3. i \in DOMAIN journals'[p] /\ journals'[p][i] = ch
        BY <4>2, <1>9
      <4>4. j \in DOMAIN journals'[p] /\ journals'[p][j] = k /\ i < j
        BY <3>1, <4>1, <4>2, <1>13
      <4> QED
        BY <4>3, <4>4 DEF Before
    <3>2. CASE p # path
      <4>1. Before(p, ch, k)
        BY <2>2, <3>2, <1>10 DEF HistoryInv, ReleasedIsJournaled
      <4> QED
        BY <3>2, <4>1, <1>9 DEF Before
    <3> QED
      BY <3>1, <3>2
  <2> QED
    BY <2>1, <2>2 DEF ReleasedIsJournaled
<1>16. SignedPairHolds'
  <2>1. ASSUME NEW p \in Paths, NEW ch \in Challenges(p)' PROVE ChallengeHolds(ch)
    BY <2>1, <1>12 DEF HistoryInv, SignedPairHolds
  <2>2. ASSUME NEW p \in Paths, NEW k \in Completions(p)'
        PROVE  \E ch \in Challenges(p)' : CompletionHolds(ch, k)
    <3>1. CASE p = path
      BY <3>1, <2>2, <1>2, <1>11
    <3>2. CASE p # path
      BY <3>2, <2>2, <1>10 DEF HistoryInv, SignedPairHolds
    <3> QED
      BY <3>1, <3>2
  <2> QED
    BY <2>1, <2>2 DEF SignedPairHolds, ChallengeHolds, CompletionHolds
<1>17. SeedsAreFresh' /\ \A p \in Paths : \A ch \in Challenges(p)' : ch.seed <= seeds'
  BY <1>6, <1>12 DEF HistoryInv, SeedsAreFresh
<1>18. MemoryInv'
  <2>1. Challenges(path)' = {challenge'} /\ challenge' # None
    BY <1>2, <1>6, <1>11 DEF Challenges
  <2>2. Completions(path)' = {completion'} /\ completion' # None
    BY <1>1, <1>2, <1>6, <1>11 DEF Completions, new
  <2>3. path \in used
    BY <1>6 DEF MemoryInv
  <2>4. \A p \in Paths \ used' : journals'[p] = <<>> /\ released'[p] = {}
    BY <2>3, <1>6, <1>9, <1>10 DEF MemoryInv
  <2> QED
    BY <2>1, <2>2, <2>3, <2>4, <1>6 DEF MemoryInv
<1> QED
  BY <1>14, <1>15, <1>16, <1>17, <1>18 DEF HistoryInv

-----------------------------------------------------------------------------
(* The theorems.                                                           *)

LEMMA InitInv == Init => AuditorInv
<1> SUFFICES ASSUME Init PROVE AuditorInv
  OBVIOUS
<1>1. TypeOK
  BY DEF Init, TypeOK, Wire
<1>2. \A p \in Paths : released[p] = {} /\ Challenges(p) = {} /\ Completions(p) = {}
  BY DEF Init, Challenges, Completions
<1>3. HistoryInv
  BY <1>2 DEF HistoryInv, ReleasedOnce, ReleasedIsJournaled, SignedPairHolds, SeedsAreFresh
<1>4. MemoryInv
  BY <1>2 DEF Init, MemoryInv, Up
<1> QED
  BY <1>1, <1>3, <1>4, AuditorInvParts

\* A failed append leaves a journal longer and the memory as it was.
LEMMA FailedHistory ==
  ASSUME TypeOK, HistoryInv, MemoryInv, Up, Grows, seeds' \in Nat, seeds <= seeds',
         UNCHANGED <<proc, path, used, challenge, completion, released>>
  PROVE  HistoryInv' /\ MemoryInv'
<1>1. HistoryInv'
  BY QuietHistory
<1>2. path \in used /\ path \in Paths
  BY DEF MemoryInv, TypeOK
<1>3. \A p \in Paths : p # path => journals'[p] = journals[p]
  BY GrowthKeeps
<1>4. MemoryInv'
  BY <1>2, <1>3 DEF MemoryInv, Up, Challenges, Completions
<1> QED
  BY <1>1, <1>4

\* A step that touches neither the journals, the memory nor the history keeps both.
LEMMA IdleHistory ==
  ASSUME TypeOK, HistoryInv, MemoryInv,
         UNCHANGED <<proc, path, used, challenge, completion, journals, seeds, released>>
  PROVE  HistoryInv' /\ MemoryInv'
<1>1. HistoryInv'
  BY QuietHistory DEF TypeOK
<1>2. MemoryInv'
  BY DEF MemoryInv, Up, Challenges, Completions
<1> QED
  BY <1>1, <1>2

LEMMA InvStep == AuditorInv /\ [Next]_vars => AuditorInv'
<1> SUFFICES ASSUME AuditorInv, [Next]_vars PROVE AuditorInv'
  OBVIOUS
<1>t. TypeOK /\ MemoryInv /\ HistoryInv /\ seeds \in Nat
  BY AuditorInvParts DEF TypeOK
<1>n. TypeOK'
  BY <1>t, TypeStep
<1> SUFFICES HistoryInv' /\ MemoryInv'
  BY <1>n DEF AuditorInv, MemoryInv, HistoryInv
<1>r. Challenge \subseteq Record /\ Completion \subseteq Record
  BY DEF Record
<1> USE DEF serviceVars, stateVars
<1>1. ASSUME NEW p \in Paths, Start(p) PROVE HistoryInv' /\ MemoryInv'
  <2>1. HistoryInv'
    BY <1>1, <1>t, QuietHistory DEF Start
  <2>2. released[p] = {} /\ p \in Paths /\ p \notin used
    BY <1>1, <1>t DEF Start, Fresh, MemoryInv
  <2>3. path' \in used' /\ Challenges(path)' = {} /\ Completions(path)' = {}
    BY <1>1, <2>2 DEF Start, Challenges, Completions
  <2>4. MemoryInv'
    BY <1>1, <1>t, <2>3 DEF Start, MemoryInv
  <2> QED
    BY <2>1, <2>4
<1>2. ASSUME NEW p \in Paths, StartFails(p) PROVE HistoryInv' /\ MemoryInv'
  <2>1. HistoryInv'
    BY <1>2, <1>t, QuietHistory DEF StartFails
  <2>2. MemoryInv'
    BY <1>2, <1>t DEF StartFails, MemoryInv, Up
  <2> QED
    BY <2>1, <2>2
<1>3. CASE Crash
  <2>1. HistoryInv'
    BY <1>3, <1>t, QuietHistory DEF Crash
  <2>2. MemoryInv'
    BY <1>3, <1>t DEF Crash, MemoryInv, Up
  <2> QED
    BY <2>1, <2>2
<1>4. ASSUME NEW c \in Calls, Issue(c) PROVE HistoryInv' /\ MemoryInv'
  BY <1>4, <1>t, IssueHistory
<1>5. ASSUME NEW c \in Calls, IssueFails(c) PROVE HistoryInv' /\ MemoryInv'
  <2>1. PICK s \in Drawn : Issuable(s) /\ RecordLost(NewChallenge(s))
    BY <1>5 DEF IssueFails
  <2>2. Grows
    BY <2>1, <1>t, <1>r, NewChallengeHolds, RecordingGrows
  <2>3. /\ Up /\ seeds' = seeds + 1
        /\ UNCHANGED <<proc, path, used, challenge, completion, released>>
    BY <1>5 DEF IssueFails
  <2> QED
    BY <2>2, <2>3, <1>t, FailedHistory
<1>6. ASSUME NEW c \in Calls, IssueRefused(c) PROVE HistoryInv' /\ MemoryInv'
  BY <1>6, <1>t, IdleHistory DEF IssueRefused
<1>7. ASSUME NEW c \in Calls, Accept(c) PROVE HistoryInv' /\ MemoryInv'
  BY <1>7, <1>t, AcceptHistory
<1>8. ASSUME NEW c \in Calls, AcceptFails(c) PROVE HistoryInv' /\ MemoryInv'
  <2>1. wire[c] \in Offer /\ Acceptable(wire[c]) /\ RecordLost(NewCompletion(wire[c]))
    BY <1>8 DEF AcceptFails
  <2>2. Grows
    BY <2>1, <1>t, <1>r, NewCompletionHolds, RecordingGrows
  <2>3. /\ Up /\ seeds' = seeds
        /\ UNCHANGED <<proc, path, used, challenge, completion, released>>
    BY <1>8 DEF AcceptFails
  <2> QED
    BY <2>2, <2>3, <1>t, FailedHistory
<1>9. ASSUME NEW c \in Calls, AcceptRefused(c) PROVE HistoryInv' /\ MemoryInv'
  BY <1>9, <1>t, IdleHistory DEF AcceptRefused
<1>10. ASSUME NEW c \in Calls, Sends(c) PROVE HistoryInv' /\ MemoryInv'
  BY <1>10, <1>t, IdleHistory DEF Sends, Send
<1>11. ASSUME NEW c \in Calls, Deliver(c) PROVE HistoryInv' /\ MemoryInv'
  BY <1>11, <1>t, IdleHistory DEF Deliver
<1>12. ASSUME NEW c \in Calls, Lose(c) PROVE HistoryInv' /\ MemoryInv'
  BY <1>12, <1>t, IdleHistory DEF Lose
<1>13. CASE Tick
  BY <1>13, <1>t, IdleHistory DEF Tick
<1>14. CASE SetBack
  BY <1>14, <1>t, IdleHistory DEF SetBack
<1>15. CASE UNCHANGED vars
  BY <1>15, <1>t, IdleHistory DEF vars
<1> QED
  BY <1>1, <1>2, <1>3, <1>4, <1>5, <1>6, <1>7, <1>8, <1>9, <1>10, <1>11, <1>12, <1>13,
     <1>14, <1>15 DEF Next, Serve

\* The inductive invariant holds in every reachable state.
THEOREM Inductive == Spec => []AuditorInv
  BY InitInv, InvStep, PTL DEF Spec

\* Every variable has its type.
THEOREM TypeCorrect == Spec => []TypeOK
<1>1. AuditorInv => TypeOK
  BY DEF AuditorInv
<1> QED
  BY <1>1, Inductive, PTL

\* The challenge and the completion are one-use, for any number of calls that race,
\* of restarts, of failed writes and with any clock.
THEOREM OneUse == Spec => []ReleasedOnce
<1>1. AuditorInv => ReleasedOnce
  BY DEF AuditorInv
<1> QED
  BY <1>1, Inductive, PTL

\* What was answered is in the journal, in the order of the protocol.
THEOREM Journaled == Spec => []ReleasedIsJournaled
<1>1. AuditorInv => ReleasedIsJournaled
  BY DEF AuditorInv
<1> QED
  BY <1>1, Inductive, PTL

\* A signed completion and the challenge it answers satisfy the public relation's
\* clauses about time and seed.
THEOREM PairsHold == Spec => []SignedPairHolds
<1>1. AuditorInv => SignedPairHolds
  BY DEF AuditorInv
<1> QED
  BY <1>1, Inductive, PTL

\* No two challenges that were let out share a seed.
THEOREM FreshSeeds == Spec => []SeedsAreFresh
<1>1. AuditorInv => SeedsAreFresh
  BY DEF AuditorInv
<1> QED
  BY <1>1, Inductive, PTL
=============================================================================
