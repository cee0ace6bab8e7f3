----------------------- MODULE ActivityExecutionProofs -----------------------
(***************************************************************************)
(* Proofs about ActivityExecution, for any workflows and scripts and any    *)
(* number of attempts that die.                                             *)
(***************************************************************************)
EXTENDS ActivityPromises, TLAPS, NaturalsInduction, WellFoundedInduction

PlaceInv == workflow \in DOMAIN Workflows /\ step \in 1 .. Len(Workflows[workflow])

LEMMA PlaceFacts ==
    ASSUME PlaceInv
    PROVE  /\ Workflows[workflow] \in Seq(DOMAIN Scripts)
           /\ DOMAIN Workflows[workflow] = 1 .. Len(Workflows[workflow])
           /\ Len(Workflows[workflow]) \in Nat /\ step \in Nat /\ step >= 1
  BY ScriptsAssumption DEF PlaceInv

LEMMA ActivityHasScript ==
    ASSUME PlaceInv
    PROVE  Activity \in DOMAIN Scripts /\ Scripts[Activity] \in Seq(Operations)
  BY PlaceFacts, ScriptsAssumption DEF PlaceInv, Activity

-----------------------------------------------------------------------------
(* Least numbers and what is left of a script.                               *)

Before == {pair \in Nat \X Nat : pair[1] < pair[2]}

LEMMA BeforeIsWellFounded == IsWellFoundedOn(Before, Nat)
  BY NatLessThanWellFounded, Zenon DEF OpToRel, Before

LEMMA LeastNumber ==
    ASSUME NEW T, T \subseteq Nat, T # {}
    PROVE  Min(T) \in T
  <1>1. PICK n \in T : \A k \in T : <<k, n>> \notin Before
    BY BeforeIsWellFounded, WFMin, Zenon
  <1>2. \A k \in T : n <= k
    <2> TAKE k \in T
    <2>1. <<k, n>> \in Nat \X Nat /\ ~ (<<k, n>>[1] < <<k, n>>[2])
      BY <1>1 DEF Before
    <2> QED BY <2>1
  <1> QED BY <1>2 DEF Min

LEMMA AheadIsScript ==
    ASSUME NEW S, NEW ops \in Seq(S), NEW f
    PROVE  Ahead(ops, f) \in Seq(S)
  <1> DEFINE stops == {n \in 1 .. Len(ops) + 1 : n > Len(ops) \/ ~Passed(ops[n], f)}
  <1>1. Len(ops) \in Nat
    OBVIOUS
  <1>2. Len(ops) + 1 \in stops /\ stops \subseteq 1 .. Len(ops) + 1
    BY <1>1
  <1>3. Min(stops) \in 1 .. Len(ops) + 1
    <2> HIDE DEF stops
    <2>1. stops \subseteq Nat /\ stops # {}
      BY <1>1, <1>2
    <2> QED BY <1>2, <2>1, LeastNumber
  <1>4. PICK k \in 1 .. Len(ops) + 1 : k = Min(stops)
    BY <1>3
  <1>5. SubSeq(ops, k, Len(ops)) \in Seq(S)
    BY <1>1
  <1> QED BY <1>4, <1>5 DEF Ahead

LEMMA MentionedAreConditions ==
    ASSUME NEW ops \in Seq(Operations)
    PROVE  Mentioned(ops) \subseteq Conditions
  BY DEF Mentioned, Conditions

LEMMA KindsOfWords ==
    ASSUME rest \in Seq(Operations), rest # << >>
    PROVE  /\ Head(rest) \in Operations
           /\ \A kinds : Head(rest).do \in kinds => What \in Named(kinds)
  BY DEF What, Named

-----------------------------------------------------------------------------
(* Types.                                                                    *)

TypeInv ==
    /\ PlaceInv
    /\ running \in BOOLEAN /\ died \in BOOLEAN
    /\ outcome \in {"OPEN", "COMPLETED", "FAILED"}
    /\ rest \in Seq(Operations) /\ flags \subseteq Conditions
    /\ DOMAIN facts \subseteq Asked /\ DOMAIN session \subseteq Keys
    /\ world \subseteq Things \cup UNION Givens[workflow]
    /\ sent \subseteq Sendings /\ repeated \in Sendings \cup {"nothing"}
    /\ missing \in Keys \cup Things \cup {"nothing", "error"}

LEMMA TypeInvSuffices ==
    ASSUME TypeInv
    PROVE  TypeOK
  <1>1. rest \in Seq(Operations)
    BY DEF TypeInv
  <1>2. \A n \in DOMAIN rest : rest[n] \in Operations
    BY <1>1
  <1>3. ToSet(rest) \subseteq Operations
    BY <1>2, Zenon DEF ToSet
  <1> QED BY <1>3, PlaceFacts DEF TypeInv, PlaceInv, TypeOK

LEMMA TypeInit ==
    ASSUME Init
    PROVE  TypeInv
  <1>1. workflow \in DOMAIN Workflows
    BY DEF Init
  <1>2. Workflows[workflow] \in Seq(DOMAIN Scripts) /\ Workflows[workflow] # << >>
    BY <1>1, ScriptsAssumption
  <1>3. 1 \in 1 .. Len(Workflows[workflow])
    BY <1>2
  <1>4. << >> \in Seq(Operations)
    OBVIOUS
  <1>5. DOMAIN facts = {} /\ DOMAIN session = {} /\ world \subseteq UNION Givens[workflow]
    BY DEF Init
  <1> QED BY <1>1, <1>3, <1>4, <1>5 DEF Init, TypeInv, PlaceInv

LEMMA WordsAreKinds ==
    ASSUME TypeInv
    PROVE  /\ Doing({"need", "input", "read"}) => What \in Keys \cup Things
           /\ Doing({"fact"}) => What \in Asked
           /\ Doing({"put", "blank", "keep", "count"}) => What \in Keys
           /\ Doing({"write", "send"}) => What \in Things
           /\ Doing({"send"}) => What \in Sendings
  BY KindsOfWords DEF TypeInv, Doing, Named, Keys, Things, Asked, Sendings

LEMMA GoOnType ==
    ASSUME TypeInv, rest # << >>, NEW f, GoOn(f)
    PROVE  rest' \in Seq(Operations) /\ flags' \subseteq Conditions
  <1>1. rest \in Seq(Operations)
    BY DEF TypeInv
  <1>2. Tail(rest) \in Seq(Operations)
    BY <1>1
  <1>3. rest' \in Seq(Operations)
    BY <1>2, AheadIsScript DEF GoOn
  <1> QED BY <1>3, MentionedAreConditions DEF GoOn

LEMMA StopType ==
    ASSUME Stop
    PROVE  rest' \in Seq(Operations) /\ flags' = {} /\ running' = FALSE
  <1>1. << >> \in Seq(Operations)
    OBVIOUS
  <1> QED BY <1>1 DEF Stop

LEMMA BeginType ==
    ASSUME TypeInv, Begin
    PROVE  TypeInv'
  <1>1. rest' \in Seq(Operations) /\ flags' = {}
    BY ActivityHasScript, AheadIsScript DEF Begin, TypeInv
  <1>2. DOMAIN session' \subseteq DOMAIN session
    BY DEF Begin, Restrict
  <1> QED BY <1>1, <1>2 DEF TypeInv, PlaceInv, Begin, place

LEMMA GetValueType ==
    ASSUME TypeInv, GetValue
    PROVE  TypeInv'
  <1>1. rest # << >> /\ \E f : GoOn(f)
    BY DEF GetValue, Doing
  <1>2. rest' \in Seq(Operations) /\ flags' \subseteq Conditions /\ UNCHANGED running
    BY <1>1, GoOnType DEF GoOn
  <1> QED BY <1>2 DEF TypeInv, PlaceInv, GetValue, place, observed

LEMMA LearnType ==
    ASSUME TypeInv, Learn
    PROVE  TypeInv'
  <1>1. rest # << >> /\ \E f : GoOn(f)
    BY DEF Learn, Doing
  <1>2. rest' \in Seq(Operations) /\ flags' \subseteq Conditions /\ UNCHANGED running
    BY <1>1, GoOnType DEF GoOn
  <1>3. facts' = facts \/ (Doing({"fact"}) /\ \E answer : facts' = With(facts, What, answer))
    BY DEF Learn
  <1>4. DOMAIN facts' \subseteq Asked
    BY <1>3, WordsAreKinds DEF TypeInv, With
  <1> QED BY <1>2, <1>4 DEF TypeInv, PlaceInv, Learn, place, observed

LEMMA SetFlagType ==
    ASSUME TypeInv, SetFlag
    PROVE  TypeInv'
  <1>1. rest # << >> /\ \E f : GoOn(f)
    BY DEF SetFlag, Doing
  <1>2. rest' \in Seq(Operations) /\ flags' \subseteq Conditions /\ UNCHANGED running
    BY <1>1, GoOnType DEF GoOn
  <1> QED BY <1>2 DEF TypeInv, PlaceInv, SetFlag, place, observed

LEMMA UseType ==
    ASSUME TypeInv, Use
    PROVE  TypeInv'
  <1>1. rest # << >> /\ \E f : GoOn(f)
    BY DEF Use, Present, Doing
  <1>2. rest' \in Seq(Operations) /\ flags' \subseteq Conditions /\ UNCHANGED running
    BY <1>1, GoOnType DEF GoOn
  <1> QED BY <1>2 DEF TypeInv, PlaceInv, Use, place, observed

LEMMA LackType ==
    ASSUME TypeInv, Lack
    PROVE  TypeInv'
  <1>1. rest # << >> /\ (Stop \/ \E f : GoOn(f))
    BY DEF Lack, Doing
  <1>2. rest' \in Seq(Operations) /\ flags' \subseteq Conditions /\ running' \in BOOLEAN
    BY <1>1, GoOnType, StopType DEF GoOn, TypeInv
  <1>3. missing' \in Keys \cup Things
    BY WordsAreKinds DEF Lack
  <1> QED BY <1>2, <1>3 DEF TypeInv, PlaceInv, Lack, place

\* What a store_value does, to whatever end, and the same for an upload, a call
\* or a deletion.
LEMMA StoresType ==
    ASSUME TypeInv, Stores
    PROVE  Running /\ rest # << >> /\ DOMAIN session' \subseteq Keys
  <1>1. /\ Doing({"put", "blank", "keep", "count"})
        /\ \E v : session' = Stored(What, v)
    BY DEF Stores, Doing
  <1>2. DOMAIN session' \subseteq Keys
    BY <1>1, WordsAreKinds DEF TypeInv, Stored, With
  <1> QED BY <1>1, <1>2 DEF Doing

LEMMA MadeType ==
    ASSUME TypeInv, Made
    PROVE  /\ Running /\ rest # << >> /\ world' \subseteq world \cup Things
           /\ sent' \subseteq Sendings /\ repeated' \in Sendings \cup {"nothing"}
  <1>1. Doing({"write", "send", "drop"})
    BY DEF Made, Doing
  <1>2. world' \subseteq world \cup Things
    BY WordsAreKinds DEF Made, Doing
  <1>3. sent' \subseteq Sendings /\ repeated' \in Sendings \cup {"nothing"}
    BY WordsAreKinds DEF Made, TypeInv
  <1> QED BY <1>1, <1>2, <1>3 DEF Doing

LEMMA StoreValueType ==
    ASSUME TypeInv, StoreValue
    PROVE  TypeInv'
  <1>1. rest # << >> /\ \E f : GoOn(f)
    BY StoresType DEF StoreValue
  <1>2. rest' \in Seq(Operations) /\ flags' \subseteq Conditions /\ UNCHANGED running
    BY <1>1, GoOnType DEF GoOn
  <1>3. DOMAIN session' \subseteq Keys
    BY StoresType DEF StoreValue
  <1> QED BY <1>2, <1>3 DEF TypeInv, PlaceInv, StoreValue, place, observed

LEMMA ChangeType ==
    ASSUME TypeInv, Change
    PROVE  TypeInv'
  <1>1. rest # << >> /\ GoOn(flags)
    BY MadeType DEF Change
  <1>2. rest' \in Seq(Operations) /\ flags' \subseteq Conditions /\ UNCHANGED running
    BY <1>1, GoOnType DEF GoOn
  <1>3. /\ world' \subseteq world \cup Things
        /\ sent' \subseteq Sendings /\ repeated' \in Sendings \cup {"nothing"}
    BY MadeType DEF Change
  <1> QED BY <1>2, <1>3 DEF TypeInv, PlaceInv, Change, place

LEMMA CaughtType ==
    ASSUME TypeInv, Caught
    PROVE  TypeInv'
  <1>1. rest # << >> /\ \E f : GoOn(f)
    BY DEF Caught, Doing
  <1>2. rest' \in Seq(Operations) /\ flags' \subseteq Conditions /\ UNCHANGED running
    BY <1>1, GoOnType DEF GoOn
  <1>3. /\ world' \subseteq world \cup Things /\ DOMAIN session' \subseteq Keys
        /\ sent' \subseteq Sendings /\ repeated' \in Sendings \cup {"nothing"}
    <2>1. HalfDone
      BY DEF Caught
    <2>2. CASE Made /\ UNCHANGED session
      BY <2>2, MadeType DEF TypeInv
    <2>3. CASE Stores /\ UNCHANGED <<world, sent, repeated>>
      BY <2>3, StoresType DEF TypeInv
    <2>4. CASE UNCHANGED <<world, sent, repeated, session>>
      BY <2>4 DEF TypeInv
    <2> QED BY <2>1, <2>2, <2>3, <2>4 DEF HalfDone
  <1> QED BY <1>2, <1>3 DEF TypeInv, PlaceInv, Caught, place

LEMMA CompleteType ==
    ASSUME TypeInv, Complete
    PROVE  TypeInv'
  <1>1. rest' \in Seq(Operations) /\ flags' = {} /\ running' = FALSE /\ DOMAIN facts' = {}
    BY StopType DEF Complete
  <1>2. step' \in 1 .. Len(Workflows[workflow])
    <2>1. Upcoming \subseteq 1 .. Len(Workflows[workflow])
      BY PlaceFacts, Zenon DEF Upcoming, TypeInv
    <2>2. Upcoming \subseteq Nat
      BY <2>1, PlaceFacts DEF TypeInv
    <2>3. CASE Upcoming # {}
      BY <2>1, <2>2, <2>3, LeastNumber DEF Complete
    <2>4. CASE Upcoming = {}
      BY <2>4 DEF Complete, TypeInv, PlaceInv
    <2> QED BY <2>3, <2>4
  <1> QED BY <1>1, <1>2 DEF TypeInv, PlaceInv, Complete, observed

LEMMA EndsType ==
    ASSUME TypeInv, Fail \/ GiveUp \/ Fault
    PROVE  TypeInv'
  <1>1. rest' \in Seq(Operations) /\ flags' = {} /\ running' = FALSE
    BY StopType DEF Fail, GiveUp, Fault, AttemptFails
  <1> QED BY <1>1 DEF TypeInv, PlaceInv, Fail, GiveUp, Fault, AttemptFails, place, observed

LEMMA TypeStep ==
    ASSUME TypeInv, [Next]_vars
    PROVE  TypeInv'
  <1>1. CASE UNCHANGED vars
    BY <1>1 DEF TypeInv, PlaceInv, vars, place, attempt, observed
  <1> QED BY <1>1, BeginType, GetValueType, LearnType, SetFlagType, UseType, LackType,
             StoreValueType, ChangeType, CaughtType, CompleteType, EndsType DEF Next

\* All variables hold values of their kinds.
THEOREM TypeCorrect == Spec => []TypeOK
  <1>1. Init => TypeInv
    BY TypeInit
  <1>2. TypeInv /\ [Next]_vars => TypeInv'
    BY TypeStep
  <1>3. TypeInv => TypeOK
    BY TypeInvSuffices
  <1> QED BY <1>1, <1>2, <1>3, PTL DEF Spec

-----------------------------------------------------------------------------
(* The order of the activities.                                              *)

\* No activity id is used twice in a workflow.
IdsAreUnique ==
    \A w \in DOMAIN Workflows : \A m, n \in DOMAIN Workflows[w] :
        Workflows[w][m] = Workflows[w][n] => m = n

LEMMA UpcomingAreLater ==
    ASSUME IdsAreUnique, PlaceInv
    PROVE  Upcoming = step + 1 .. Len(Workflows[workflow])
  <1>1. ASSUME NEW n \in 1 .. Len(Workflows[workflow])
        PROVE  (\A m \in 1 .. step : Workflows[workflow][m] # Workflows[workflow][n])
                   <=> n \in step + 1 .. Len(Workflows[workflow])
    <2>1. \A m \in 1 .. step : m \in DOMAIN Workflows[workflow]
      BY PlaceFacts DEF PlaceInv
    <2>2. n \in DOMAIN Workflows[workflow]
      BY PlaceFacts
    <2>3. \A m \in 1 .. step : Workflows[workflow][m] = Workflows[workflow][n] => m = n
      BY <2>1, <2>2 DEF IdsAreUnique, PlaceInv
    <2>4. Len(Workflows[workflow]) \in Nat /\ step \in Nat
      BY PlaceFacts
    <2> QED BY <2>3, <2>4
  <1> QED BY <1>1, PlaceFacts DEF Upcoming

LEMMA NextStep ==
    ASSUME IdsAreUnique, PlaceInv, Upcoming # {}
    PROVE  Min(Upcoming) = step + 1 /\ step + 1 \in 1 .. Len(Workflows[workflow])
  <1>1. Upcoming = step + 1 .. Len(Workflows[workflow])
    BY UpcomingAreLater
  <1>2. step + 1 \in Upcoming /\ \A n \in Upcoming : step + 1 <= n /\ n \in Nat
    BY <1>1, PlaceFacts
  <1> QED BY <1>1, <1>2, PlaceFacts DEF Min

LEMMA PlaceInit == Init => PlaceInv
  BY TypeInit DEF TypeInv

\* The other actions happen in one place of an execution that stays open.
LEMMA OthersStay ==
    ASSUME Next
    PROVE  Complete \/ GiveUp \/ (UNCHANGED <<place, outcome>> /\ outcome = "OPEN")
  BY DEF Next, Begin, GetValue, Learn, SetFlag, Use, Present, Lack, StoreValue, Stores, Change,
         Made, Caught, Fail, Fault, AttemptFails, Doing, Running

OneStepOn ==
    step' <= step + 1 /\ (outcome' = "COMPLETED" => step = Len(Workflows[workflow]))

LEMMA PlaceStep ==
    ASSUME IdsAreUnique, PlaceInv, [Next]_vars
    PROVE  PlaceInv' /\ (OneStepOn \/ UNCHANGED vars)
  <1>1. Len(Workflows[workflow]) \in Nat /\ step \in Nat
    BY PlaceFacts
  <1>2. CASE Complete
    <2>1. CASE Upcoming # {}
      <3>1. workflow' = workflow /\ step' = step + 1 /\ outcome' = "OPEN"
        BY <1>2, <2>1, NextStep DEF Complete, Running
      <3>2. step + 1 \in 1 .. Len(Workflows[workflow])
        BY <2>1, NextStep
      <3> QED BY <1>1, <3>1, <3>2 DEF PlaceInv, OneStepOn
    <2>2. CASE Upcoming = {}
      <3>1. step + 1 .. Len(Workflows[workflow]) = {}
        BY <2>2, UpcomingAreLater
      <3>2. step = Len(Workflows[workflow])
        BY <1>1, <3>1 DEF PlaceInv
      <3>3. workflow' = workflow /\ step' = step
        BY <1>2, <2>2 DEF Complete
      <3> QED BY <1>1, <3>2, <3>3 DEF PlaceInv, OneStepOn
    <2> QED BY <2>1, <2>2
  <1>3. CASE GiveUp
    <2>1. workflow' = workflow /\ step' = step /\ outcome' = "FAILED"
      BY <1>3 DEF GiveUp, place
    <2> QED BY <1>1, <2>1 DEF PlaceInv, OneStepOn
  <1>4. CASE UNCHANGED <<place, outcome>> /\ outcome = "OPEN"
    <2>1. workflow' = workflow /\ step' = step /\ outcome' = "OPEN"
      BY <1>4 DEF place
    <2> QED BY <1>1, <2>1 DEF PlaceInv, OneStepOn
  <1>5. CASE UNCHANGED vars
    BY <1>5 DEF vars, place, PlaceInv
  <1> QED BY <1>2, <1>3, <1>4, <1>5, OthersStay

\* No activity of a workflow is passed over, if each has an id of its own.
THEOREM NoneIsPassedOver ==
    ASSUME IdsAreUnique
    PROVE  Spec => EveryStepRuns
  <1>1. Init => PlaceInv
    BY PlaceInit
  <1>2. PlaceInv /\ [Next]_vars => PlaceInv'
    BY PlaceStep
  <1>3. PlaceInv /\ [Next]_vars
        => [/\ step' <= step + 1
            /\ outcome' = "COMPLETED" => step = Len(Workflows[workflow])]_vars
    BY PlaceStep DEF OneStepOn
  <1> QED BY <1>1, <1>2, <1>3, PTL DEF Spec, EveryStepRuns
=============================================================================
