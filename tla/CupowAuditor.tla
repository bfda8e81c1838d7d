--------------------------- MODULE CupowAuditor ---------------------------
(***************************************************************************)
(* The cuPOW auditor service (crates/pocomp-cupow-auditor) of one signed   *)
(* contract, the pod that calls it, and the network between them.          *)
(*                                                                         *)
(* POST /cupow/challenge draws a seed, writes the signed challenge to the  *)
(* journal and answers with it, once.  POST /cupow/complete does the same  *)
(* for a completion of that challenge.  Both handlers take the lock before *)
(* they read the clock and keep it, with no await, until they return: the  *)
(* body of a handler is one step.  What interleaves is the calls: they     *)
(* wait for the lock in any order, and requests and answers get lost.      *)
(* Each start of the service takes a journal path that does not exist.     *)
(*                                                                         *)
(* A definition X_Y is X with a bug a programmer could make (Y).           *)
(***************************************************************************)
EXTENDS Integers, Sequences

CONSTANTS
  Calls,            \* connections of the pod, each carries one call at a time
  Paths,            \* the journal paths the operator starts the service with
  Roots, NoRoot,    \* a transcript and output root pair; the zero digest
  Opened, Closed,   \* the epoch of the contract
  MaxTime,          \* bound: the last reading of the wall clock
  MaxSeeds,         \* bound: how many seeds are drawn
  MaxJournal,       \* bound: no write fails on a journal of that many records
  Faults,           \* what the environment may do in this instance
  None, Torn        \* no record; an incomplete record in a journal

FaultKinds == {"disk", "network", "crash", "clock"}

ASSUME EpochAssumption ==
  Opened \in Nat /\ Closed \in Nat /\ MaxTime \in Nat /\ Opened < Closed /\ Closed <= MaxTime
ASSUME BoundsAssumption == MaxSeeds \in Nat /\ MaxJournal \in Nat
ASSUME AuditorFaultsAssumption == Faults \subseteq FaultKinds
ASSUME NoRootAssumption == NoRoot \notin Roots

VARIABLES
  proc,         \* "down" or "up"
  path,         \* the journal path of the service that runs or ran last
  used,         \* the journal paths that exist
  journals,     \* the records in the file at each path
  challenge,    \* AuditorState.challenge
  completion,   \* AuditorState.completion
  seeds,        \* how many seeds OsRng has drawn; each draw is a new one
  wire,         \* the request or the answer each call carries
  known,        \* the challenges the pod has received
  released,     \* history: what the service at each path answered with 200
  now           \* the wall clock

serviceVars == <<proc, path, used>>
stateVars == <<challenge, completion>>
vars == <<serviceVars, stateVars, journals, seeds, wire, known, released, now>>

Times == 0 .. MaxTime

Challenge == [tag : {"challenge"}, seed : Nat, issued : Times, deadline : Times]
Completion == [tag : {"completion"}, seed : Nat, root : Roots \union {NoRoot}, at : Times]

ASSUME NoneAssumption == None \notin Challenge \union Completion

\* Seed 0 stands for the zero seed, and for the digest of another contract's
\* challenge.  The work is what the manifest says or it is not.
Offer == [tag : {"offer"}, seed : Nat, root : Roots \union {NoRoot}, work : BOOLEAN]

Idle == [tag |-> "idle"]
Ask == [tag |-> "ask"]
Refused == [tag |-> "refused"]

Wire == {Idle, Ask, Refused} \union Offer \union Challenge \union Completion

Init ==
  /\ proc = "down" /\ path \in Paths /\ used = {}
  /\ journals = [p \in Paths |-> <<>>]
  /\ challenge = None /\ completion = None
  /\ seeds = 0
  /\ wire = [c \in Calls |-> Idle]
  /\ known = {}
  /\ released = [p \in Paths |-> {}]
  /\ now \in Times

-----------------------------------------------------------------------------
(* The process.                                                            *)

Up == proc = "up"

Fresh(p) == p \notin used

\* main: the journal is created, never reused, and the state starts empty.
Start(p) ==
  /\ ~Up /\ Fresh(p)
  /\ proc' = "up" /\ path' = p /\ used' = used \union {p}
  /\ challenge' = None /\ completion' = None
  /\ UNCHANGED <<journals, seeds, wire, known, released, now>>

\* main: the journal's sync or the listener fails, and the path is used up.
StartFails(p) ==
  /\ ~Up /\ Fresh(p)
  /\ used' = used \union {p}
  /\ UNCHANGED <<proc, path, stateVars, journals, seeds, wire, known, released, now>>

\* The challenge and the completion are in memory only; calls are cut off.
\* Start sets the lost state again before anything reads it.
Crash ==
  /\ "crash" \in Faults /\ Up
  /\ proc' = "down"
  /\ wire' = [c \in Calls |-> Idle]
  /\ UNCHANGED <<path, used, stateVars, journals, seeds, known, released, now>>

-----------------------------------------------------------------------------
(* append_record.                                                          *)

Recorded(record) == journals' = [journals EXCEPT ![path] = Append(@, record)]

\* A failed write or sync leaves nothing, a part or all of the record in the file.
\* The next record would follow a part on the same line.
RecordLost(record) ==
  /\ "disk" \in Faults /\ Len(journals[path]) < MaxJournal
  /\ \E tail \in {<<>>, <<Torn>>, <<record>>} :
       journals' = [journals EXCEPT ![path] = @ \o tail]

Carries(c, message) == wire' = [wire EXCEPT ![c] = message]

Releases(c, record) ==
  /\ Carries(c, record)
  /\ released' = [released EXCEPT ![path] = @ \union {record}]

-----------------------------------------------------------------------------
(* issue_challenge_at.                                                     *)

Drawn_Fixed == {0, 1}
Drawn == {0, seeds + 1}

Issuable_Again(s) == Opened <= now /\ now < Closed /\ s # 0
Issuable(s) ==
  /\ challenge = None
  /\ Opened <= now /\ now < Closed
  /\ s # 0

NewChallenge_NoDeadline(s) ==
  [tag |-> "challenge", seed |-> s, issued |-> now, deadline |-> None]
NewChallenge(s) == [tag |-> "challenge", seed |-> s, issued |-> now, deadline |-> Closed]

Issue(c) ==
  /\ Up /\ wire[c] = Ask /\ seeds < MaxSeeds
  /\ \E s \in Drawn :
       /\ Issuable(s)
       /\ Recorded(NewChallenge(s))
       /\ challenge' = NewChallenge(s)
       /\ Releases(c, NewChallenge(s))
  /\ seeds' = seeds + 1
  /\ UNCHANGED <<serviceVars, completion, known, now>>

\* The journal write fails: no challenge is set, so the next call draws another.
IssueFails_Answers(c) ==
  /\ Up /\ wire[c] = Ask /\ seeds < MaxSeeds
  /\ \E s \in Drawn :
       /\ Issuable(s)
       /\ RecordLost(NewChallenge(s))
       /\ challenge' = NewChallenge(s)
       /\ Releases(c, NewChallenge(s))
  /\ seeds' = seeds + 1
  /\ UNCHANGED <<serviceVars, completion, known, now>>
IssueFails(c) ==
  /\ Up /\ wire[c] = Ask /\ seeds < MaxSeeds
  /\ \E s \in Drawn : Issuable(s) /\ RecordLost(NewChallenge(s))
  /\ Carries(c, Refused)
  /\ seeds' = seeds + 1
  /\ UNCHANGED <<serviceVars, stateVars, known, released, now>>

\* 409 Conflict; a seed that was drawn for it is never used.
IssueRefused(c) ==
  /\ Up /\ wire[c] = Ask
  /\ \E s \in Drawn : ~Issuable(s)
  /\ Carries(c, Refused)
  /\ UNCHANGED <<serviceVars, stateVars, journals, seeds, known, released, now>>

-----------------------------------------------------------------------------
(* accept_completion.                                                      *)

Acceptable_AnyChallenge(o) ==
  /\ completion = None /\ challenge # None
  /\ challenge.issued <= now /\ now <= challenge.deadline
  /\ o.work /\ o.root # NoRoot
Acceptable(o) ==
  /\ completion = None /\ challenge # None
  /\ challenge.issued <= now /\ now <= challenge.deadline
  /\ o.seed = challenge.seed /\ o.work /\ o.root # NoRoot

\* The service puts its own clock into completed_at_ns, whatever the pod wrote.
NewCompletion(o) == [tag |-> "completion", seed |-> o.seed, root |-> o.root, at |-> now]

Accept(c) ==
  /\ Up /\ wire[c] \in Offer /\ Acceptable(wire[c])
  /\ LET record == NewCompletion(wire[c])
     IN Recorded(record) /\ completion' = record /\ Releases(c, record)
  /\ UNCHANGED <<serviceVars, challenge, seeds, known, now>>

AcceptFails_KeepsIt(c) ==
  /\ Up /\ wire[c] \in Offer /\ Acceptable(wire[c])
  /\ RecordLost(NewCompletion(wire[c]))
  /\ completion' = NewCompletion(wire[c])
  /\ Carries(c, Refused)
  /\ UNCHANGED <<serviceVars, challenge, seeds, known, released, now>>
AcceptFails(c) ==
  /\ Up /\ wire[c] \in Offer /\ Acceptable(wire[c])
  /\ RecordLost(NewCompletion(wire[c]))
  /\ Carries(c, Refused)
  /\ UNCHANGED <<serviceVars, stateVars, seeds, known, released, now>>

AcceptRefused(c) ==
  /\ Up /\ wire[c] \in Offer /\ ~Acceptable(wire[c])
  /\ Carries(c, Refused)
  /\ UNCHANGED <<serviceVars, stateVars, journals, seeds, known, released, now>>

-----------------------------------------------------------------------------
(* The pod, the network and the clock.                                     *)

\* The pod asks, or offers a completion of a challenge it has, right or wrong.
Send(c, message) ==
  /\ wire[c] = Idle
  /\ Carries(c, message)
  /\ UNCHANGED <<serviceVars, stateVars, journals, seeds, known, released, now>>

Offers == [tag : {"offer"}, seed : {0} \union {ch.seed : ch \in known},
           root : Roots \union {NoRoot}, work : BOOLEAN]

Sends(c) == \E message \in {Ask} \union Offers : Send(c, message)

\* The pod reads the answer.
Deliver(c) ==
  /\ wire[c] \in {Refused} \union Challenge \union Completion
  /\ known' = IF wire[c] \in Challenge THEN known \union {wire[c]} ELSE known
  /\ Carries(c, Idle)
  /\ UNCHANGED <<serviceVars, stateVars, journals, seeds, released, now>>

\* A request never arrives, or its answer does not come back.
Lose(c) ==
  /\ "network" \in Faults /\ wire[c] # Idle
  /\ Carries(c, Idle)
  /\ UNCHANGED <<serviceVars, stateVars, journals, seeds, known, released, now>>

Tick ==
  /\ now < MaxTime
  /\ now' = now + 1
  /\ UNCHANGED <<serviceVars, stateVars, journals, seeds, wire, known, released>>

SetBack ==
  /\ "clock" \in Faults /\ now > 0
  /\ now' \in 0 .. (now - 1)
  /\ UNCHANGED <<serviceVars, stateVars, journals, seeds, wire, known, released>>

-----------------------------------------------------------------------------
Serve(c) ==
  \/ Issue(c) \/ IssueFails(c) \/ IssueRefused(c)
  \/ Accept(c) \/ AcceptFails(c) \/ AcceptRefused(c)

Next ==
  \/ \E p \in Paths : Start(p) \/ StartFails(p)
  \/ Crash
  \/ \E c \in Calls : Serve(c) \/ Sends(c) \/ Deliver(c) \/ Lose(c)
  \/ Tick \/ SetBack

Spec == Init /\ [][Next]_vars

\* A good completion of the challenge of the service that runs.
Good(o) == challenge # None /\ o.seed = challenge.seed /\ o.work /\ o.root # NoRoot
SendGood(c) == \E o \in Offers : Good(o) /\ Send(c, o)

\* The service serves the calls that arrive and its answers come back or are
\* lost; a pod that holds the challenge repeats a good completion, and neither the
\* network nor the disk fails each of its attempts.
Fairness ==
  /\ \A c \in Calls : WF_vars(Serve(c)) /\ WF_vars(Deliver(c))
  /\ \A c \in Calls : SF_vars(SendGood(c)) /\ SF_vars(Accept(c))

FairSpec == Spec /\ Fairness

-----------------------------------------------------------------------------
(* The clauses of the public relation (evaluate_cupow_relation) that bind  *)
(* a challenge to its epoch and a completion to its challenge.             *)

ChallengeHolds(ch) ==
  /\ Opened <= ch.issued /\ ch.issued < Closed
  /\ ch.deadline = Closed
  /\ ch.seed # 0

CompletionHolds(ch, k) ==
  /\ k.seed = ch.seed
  /\ ch.issued <= k.at /\ k.at <= ch.deadline
  /\ k.root # NoRoot

-----------------------------------------------------------------------------
(* Properties.                                                             *)

Record == Challenge \union Completion

\* Every variable has its type.
TypeOK ==
  /\ proc \in {"down", "up"} /\ path \in Paths /\ used \subseteq Paths
  /\ journals \in [Paths -> Seq(Record \union {Torn})]
  /\ challenge \in Challenge \union {None}
  /\ completion \in Completion \union {None}
  /\ seeds \in Nat
  /\ wire \in [Calls -> Wire]
  /\ known \subseteq Challenge
  /\ released \in [Paths -> SUBSET Record]
  /\ now \in Times

Challenges(p) == {record \in released[p] : record.tag = "challenge"}
Completions(p) == {record \in released[p] : record.tag = "completion"}

\* The challenge and the completion are one-use: with one journal the auditor
\* answers at most one call with each, however calls race for the lock, whatever
\* writes failed before, and even if it crashed and was started again.
ReleasedOnce ==
  \A p \in Paths :
    /\ \A a, b \in Challenges(p) : a = b
    /\ \A a, b \in Completions(p) : a = b

Before(p, a, b) ==
  \E i, j \in DOMAIN journals[p] : i < j /\ journals[p][i] = a /\ journals[p][j] = b

\* Whatever the auditor let out is in its journal, a challenge before the completion
\* that answers it; a crash right after the answer loses neither.
ReleasedIsJournaled ==
  \A p \in Paths :
    /\ \A record \in released[p] : \E i \in DOMAIN journals[p] : journals[p][i] = record
    /\ \A ch \in Challenges(p), k \in Completions(p) : Before(p, ch, k)

\* A signed completion always makes, with the challenge the same service released,
\* a pair that the public relation takes: no lateness, no set-back clock, no
\* completion of an earlier service's challenge gets past the auditor.
SignedPairHolds ==
  \A p \in Paths :
    /\ \A ch \in Challenges(p) : ChallengeHolds(ch)
    /\ \A k \in Completions(p) : \E ch \in Challenges(p) : CompletionHolds(ch, k)

\* No seed is let out twice, by whichever service: work done for one challenge
\* never fits another.
SeedsAreFresh ==
  \A p, q \in Paths : \A a \in Challenges(p), b \in Challenges(q) : a.seed = b.seed => a = b /\ p = q

\* The inductive invariant: the service's memory is what it released, a path that
\* was never used has nothing, and seeds only grow.
AuditorInv ==
  /\ TypeOK
  /\ Up => path \in used
  /\ Up => Challenges(path) = IF challenge = None THEN {} ELSE {challenge}
  /\ Up => Completions(path) = IF completion = None THEN {} ELSE {completion}
  /\ \A p \in Paths \ used : journals[p] = <<>> /\ released[p] = {}
  /\ \A p \in Paths : \A ch \in Challenges(p) : ch.seed <= seeds
  /\ ReleasedOnce /\ ReleasedIsJournaled /\ SignedPairHolds /\ SeedsAreFresh

\* A pod that has the challenge, and goes on offering a good completion of it,
\* gets one signed unless the service dies or the time is out.
OfferIsSettled ==
  \A p \in Paths :
    Up /\ path = p /\ challenge \in known ~>
      \/ ~Up \/ Completions(p) # {}
      \/ now > Closed
      \/ challenge # None /\ now < challenge.issued
=============================================================================
