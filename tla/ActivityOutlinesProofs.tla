------------------------ MODULE ActivityOutlinesProofs ------------------------
(***************************************************************************)
(* What the outlines know of an activity's attempt is so, wherever attempts *)
(* die: the properties of ActivityPromises, for any scripts and workflows   *)
(* with outlines that meet the assumptions of ActivityOutlines.             *)
(***************************************************************************)
EXTENDS ActivityOutlines, ActivityExecutionProofs

-----------------------------------------------------------------------------
(* Points.                                                                   *)

Fields ==
    {"rest", "flags", "have", "lacks", "values", "blanks", "facts", "died", "sent", "new"}

LEMMA PointFields ==
    ASSUME NEW p \in Points
    PROVE  DOMAIN p = Fields /\ p.rest \in Seq(Operations)
  BY DEF Points, Fields

LEMMA OnwardFields ==
    ASSUME NEW p, DOMAIN p = Fields, NEW f
    PROVE  /\ Onward(p, f).rest = Ahead(Tail(p.rest), f)
           /\ Onward(p, f).flags = f \cap Mentioned(Ahead(Tail(p.rest), f))
           /\ Onward(p, f).have = p.have /\ Onward(p, f).values = p.values
           /\ Onward(p, f).blanks = p.blanks /\ Onward(p, f).died = p.died
           /\ Onward(p, f).sent = p.sent /\ Onward(p, f).new = p.new
           /\ Onward(p, f).lacks = p.lacks /\ Onward(p, f).facts = p.facts
  BY DEF Onward, Fields

\* The same script is left.
AtOnce(q, p) == DOMAIN q = Fields /\ q.rest = p.rest /\ q.flags = p.flags /\ q.died = p.died

LEMMA ValueFields ==
    ASSUME NEW p, DOMAIN p = Fields, NEW x
    PROVE  /\ AtOnce(WithValue(p, x), p) /\ AtOnce(WithBlank(p, x), p) /\ AtOnce(Unsure(p, x), p)
           /\ WithValue(p, x).values = p.values \cup {x}
           /\ WithValue(p, x).blanks = p.blanks \ {x}
           /\ WithBlank(p, x).values = p.values \ {x}
           /\ WithBlank(p, x).blanks = p.blanks \cup {x}
           /\ Unsure(p, x).values = p.values \ {x}
           /\ Unsure(p, x).blanks = p.blanks \ {x}
           /\ \A q \in {WithValue(p, x), WithBlank(p, x), Unsure(p, x)} :
                 /\ q.have = p.have /\ q.lacks = p.lacks /\ q.facts = p.facts
                 /\ q.sent = p.sent /\ q.new = p.new
  BY DEF WithValue, WithBlank, Unsure, AtOnce, Fields

LEMMA ThingFields ==
    ASSUME NEW p, DOMAIN p = Fields, NEW x
    PROVE  /\ \A q \in {Found(p, x), Absent(p, x), Doubted(p, x), Gone(p, x),
                       Tried(p, x), Written(p, x), Posted(p, x)} :
                 /\ AtOnce(q, p) /\ q.values = p.values /\ q.blanks = p.blanks
                 /\ q.facts = p.facts
           /\ Found(p, x).have = p.have \cup {x} /\ Found(p, x).lacks = p.lacks
           /\ Absent(p, x).have = p.have /\ Absent(p, x).lacks = p.lacks \cup {x}
           /\ Doubted(p, x).have = p.have \ {x} /\ Doubted(p, x).lacks = p.lacks
           /\ Gone(p, x).have = p.have \ {x} /\ Gone(p, x).lacks = p.lacks \cup {x}
           /\ Tried(p, x).have = p.have
           /\ \A q \in {Written(p, x), Posted(p, x)} : q.have = p.have \cup {x}
           /\ \A q \in {Tried(p, x), Written(p, x), Posted(p, x)} : q.lacks = p.lacks \ {x}
           /\ \A q \in {Found(p, x), Absent(p, x), Doubted(p, x), Gone(p, x)} :
                 q.sent = p.sent /\ q.new = p.new
           /\ \A q \in {Tried(p, x), Written(p, x)} : q.sent = p.sent
           /\ ~p.died =>
                 /\ \A q \in {Tried(p, x), Written(p, x), Posted(p, x)} : q.new = p.new \cup {x}
                 /\ Posted(p, x).sent = p.sent \cup {x}
  BY DEF Found, Absent, Doubted, Gone, Tried, Written, Posted, AtOnce, Fields

LEMMA AnswerFields ==
    ASSUME NEW p, DOMAIN p = Fields, NEW x, NEW answer, NEW q, q = Answered(p, x, answer)
    PROVE  /\ AtOnce(q, p) /\ q.have = p.have /\ q.lacks = p.lacks /\ q.values = p.values
           /\ q.blanks = p.blanks /\ q.sent = p.sent /\ q.new = p.new
           /\ q.facts \subseteq p.facts \cup {<<x, answer>>}
  BY DEF Answered, AtOnce, Fields

LEMMA AfterValues ==
    ASSUME NEW w, NEW p, p.rest # << >>, NEW x, x = Item(p)
    PROVE  /\ Does(p, {"get"}) /\ x \notin p.blanks =>
                Onward(WithValue(p, x), p.flags \cup {x}) \in After(w, p)
           /\ Does(p, {"get"}) /\ x \notin p.values =>
                Onward(WithBlank(p, x), p.flags \ {x}) \in After(w, p)
           /\ Does(p, {"need"}) /\ x \notin p.blanks =>
                Onward(WithValue(p, x), p.flags) \in After(w, p)
           /\ Does(p, {"need"}) /\ x \notin p.values => Except(p) \subseteq After(w, p)
           /\ Does(p, {"input"}) /\ x \in Inputs[w] => Onward(p, p.flags) \in After(w, p)
           /\ Does(p, {"input"}) /\ x \notin Inputs[w] => Except(p) \subseteq After(w, p)
           /\ Does(p, {"put"}) => Onward(WithValue(p, x), p.flags) \in After(w, p)
           /\ Does(p, {"blank"}) => Onward(WithBlank(p, x), p.flags) \in After(w, p)
           /\ Does(p, {"keep"}) /\ x \in Inputs[w] => Onward(WithValue(p, x), p.flags) \in After(w, p)
           /\ Does(p, {"keep"}) /\ x \notin Inputs[w] => Onward(WithBlank(p, x), p.flags) \in After(w, p)
           /\ Does(p, {"count"}) =>
                /\ Onward(Unsure(p, x), p.flags \cup {x}) \in After(w, p)
                /\ Onward(Unsure(p, x), p.flags \ {x}) \in After(w, p)
  BY DEF After, Done, Does, Item

LEMMA AfterCaught ==
    ASSUME NEW w, NEW p, p.rest # << >>, NEW x, x = Item(p)
    PROVE  /\ Does(p, {"read", "send", "put", "blank", "keep", "count"}) =>
                Except(p) \subseteq After(w, p)
           /\ Does(p, {"write"}) => Except(Tried(p, x)) \subseteq After(w, p)
           /\ Does(p, {"send"}) => Except(Posted(p, x)) \subseteq After(w, p)
           /\ Does(p, {"drop"}) => Except(Doubted(p, x)) \subseteq After(w, p)
           /\ Does(p, {"put"}) => Except(WithValue(p, x)) \subseteq After(w, p)
           /\ Does(p, {"blank"}) => Except(WithBlank(p, x)) \subseteq After(w, p)
           /\ Does(p, {"keep"}) /\ x \in Inputs[w] =>
                Except(WithValue(p, x)) \subseteq After(w, p)
           /\ Does(p, {"keep"}) /\ x \notin Inputs[w] =>
                Except(WithBlank(p, x)) \subseteq After(w, p)
           /\ Does(p, {"count"}) => Except(Unsure(p, x)) \subseteq After(w, p)
  BY DEF After, Done, Does, Item

LEMMA AfterThings ==
    ASSUME NEW w, NEW p, p.rest # << >>, NEW x, x = Item(p)
    PROVE  /\ Does(p, {"look"}) /\ x \notin p.lacks =>
                Onward(Found(p, x), p.flags \cup {x}) \in After(w, p)
           /\ Does(p, {"look"}) /\ x \notin p.have =>
                Onward(Absent(p, x), p.flags \ {x}) \in After(w, p)
           /\ Does(p, {"read"}) /\ x \notin p.lacks =>
                Onward(Found(p, x), p.flags) \in After(w, p)
           /\ Does(p, {"read"}) => Except(p) \subseteq After(w, p)
           /\ Does(p, {"write"}) => Onward(Written(p, x), p.flags) \in After(w, p)
           /\ Does(p, {"send"}) => Onward(Posted(p, x), p.flags) \in After(w, p)
           /\ Does(p, {"drop"}) => Onward(Gone(p, x), p.flags) \in After(w, p)
  BY DEF After, Done, Does, Item

LEMMA AfterFlags ==
    ASSUME NEW w, NEW p, p.rest # << >>, NEW x, x = Item(p)
    PROVE  /\ Does(p, {"ask", "set"}) => Onward(p, p.flags \cup {x}) \in After(w, p)
           /\ Does(p, {"ask", "clear"}) => Onward(p, p.flags \ {x}) \in After(w, p)
           /\ Does(p, {"fact"}) /\ <<x, FALSE>> \notin p.facts =>
                Onward(Answered(p, x, TRUE), p.flags \cup {x}) \in After(w, p)
           /\ Does(p, {"fact"}) /\ <<x, TRUE>> \notin p.facts =>
                Onward(Answered(p, x, FALSE), p.flags \ {x}) \in After(w, p)
  BY DEF After, Does, Item

LEMMA ExceptHolds ==
    ASSUME NEW p, Head(p.rest).instead # "raise"
    PROVE  Onward(p, p.flags \ {Head(p.rest).instead}) \in Except(p)
  BY DEF Except
-----------------------------------------------------------------------------
(* An attempt is at a point when what is known there is so.                  *)

Knows(p) ==
    /\ p.have \subseteq world /\ p.lacks \cap world = {}
    /\ \A fact \in p.facts : fact[1] \in DOMAIN facts /\ facts[fact[1]] = fact[2]
    /\ \A k \in p.values : Truthy(k)
    /\ \A k \in p.blanks : ~Truthy(k)

Recalls(p) ==
    /\ p.died = died
    /\ ~died =>
          /\ p.sent = sent
          /\ \A n \in NamedTogether : n[1] \in world => n[2] \in world \/ n[1] \in p.new

At(p) == p.rest = rest /\ p.flags = flags /\ Knows(p) /\ Recalls(p)

LEMMA AtFields ==
    ASSUME NEW p, At(p)
    PROVE  /\ \A kinds : Doing(kinds) => Does(p, kinds)
           /\ p.rest = rest /\ p.flags = flags /\ Item(p) = What /\ Head(p.rest).instead = Instead
  BY DEF At, Doing, Does, Item, What, Instead

LEMMA StepOn ==
    ASSUME NEW p, DOMAIN p = Fields, p.rest = rest, NEW f, GoOn(f), Knows(p)', Recalls(p)'
    PROVE  At(Onward(p, f))'
  BY OnwardFields DEF At, GoOn, Knows, Recalls

-----------------------------------------------------------------------------
(* The session.                                                              *)

LEMMA TruthyStays ==
    ASSUME UNCHANGED <<workflow, session>>
    PROVE  \A k : Truthy(k)' <=> Truthy(k)
  BY DEF Truthy

LEMMA TruthyStored ==
    ASSUME UNCHANGED workflow, NEW x, NEW v, session' = Stored(x, v)
    PROVE  /\ \A k : k # x => (Truthy(k)' <=> Truthy(k))
           /\ Truthy(x)' <=> v > 0
  BY DEF Truthy, Stored, With

LEMMA TruthyKept ==
    ASSUME UNCHANGED workflow, NEW S, session' = Restrict(session, DOMAIN session \cap S)
    PROVE  \A k \in S : Truthy(k)' <=> Truthy(k)
  BY DEF Truthy, Restrict

\* Nothing that a point is about has changed.
LEMMA NothingNew ==
    ASSUME NEW p, Knows(p), Recalls(p),
           UNCHANGED <<workflow, facts, session, world, sent, died>>
    PROVE  Knows(p)' /\ Recalls(p)'
  BY TruthyStays DEF Knows, Recalls

\* A point at which the same is remembered, and of the session what is so.
LEMMA SessionStored ==
    ASSUME NEW p, NEW q, At(p), UNCHANGED <<workflow, facts, world, sent, died>>,
           AtOnce(q, p), q.have = p.have, q.lacks = p.lacks, q.facts = p.facts,
           q.sent = p.sent, q.new = p.new,
           \A k \in q.values : Truthy(k)', \A k \in q.blanks : ~Truthy(k)'
    PROVE  Knows(q)' /\ Recalls(q)'
  BY DEF At, Knows, Recalls, AtOnce

-----------------------------------------------------------------------------
(* Every operation leads to a point after the one at which the attempt is.   *)

Following(p) == \E q \in After(workflow, p) : At(q)'

LEMMA Follow ==
    ASSUME NEW p, NEW q, DOMAIN q = Fields, q.rest = rest, NEW f, GoOn(f),
           Knows(q)', Recalls(q)', Onward(q, f) \in After(workflow, p)
    PROVE  Following(p)
  BY StepOn DEF Following

LEMMA GetFollows ==
    ASSUME NEW p, DOMAIN p = Fields, At(p), GetValue, Doing({"get"})
    PROVE  Following(p)
  <1>1. Does(p, {"get"}) /\ Item(p) = What /\ p.rest = rest /\ p.flags = flags /\ p.rest # << >>
    BY AtFields DEF Doing
  <1>2. GoOn(Flagged(What, Truthy(What))) /\ UNCHANGED <<workflow, facts, session, world, sent, died>>
    BY DEF GetValue, Doing, place, observed
  <1>3. \A k : Truthy(k)' <=> Truthy(k)
    BY <1>2, TruthyStays
  <1>4. CASE Truthy(What)
    <2>1. GoOn(p.flags \cup {Item(p)})
      BY <1>1, <1>2, <1>4 DEF Flagged
    <2>2. PICK q : q = WithValue(p, Item(p))
      OBVIOUS
    <2>3. Knows(q)' /\ Recalls(q)' /\ AtOnce(q, p)
      BY <1>1, <1>2, <1>3, <1>4, <2>2, ValueFields, SessionStored DEF At, Knows
    <2>4. Item(p) \notin p.blanks
      BY <1>1, <1>4 DEF At, Knows
    <2>5. Onward(q, p.flags \cup {Item(p)}) \in After(workflow, p)
      BY <1>1, <2>2, <2>4, AfterValues
    <2> QED BY <1>1, <2>1, <2>3, <2>5, Follow DEF AtOnce
  <1>5. CASE ~Truthy(What)
    <2>1. GoOn(p.flags \ {Item(p)})
      BY <1>1, <1>2, <1>5 DEF Flagged
    <2>2. PICK q : q = WithBlank(p, Item(p))
      OBVIOUS
    <2>3. Knows(q)' /\ Recalls(q)' /\ AtOnce(q, p)
      BY <1>1, <1>2, <1>3, <1>5, <2>2, ValueFields, SessionStored DEF At, Knows
    <2>4. Item(p) \notin p.values
      BY <1>1, <1>5 DEF At, Knows
    <2>5. Onward(q, p.flags \ {Item(p)}) \in After(workflow, p)
      BY <1>1, <2>2, <2>4, AfterValues
    <2> QED BY <1>1, <2>1, <2>3, <2>5, Follow DEF AtOnce
  <1> QED BY <1>4, <1>5

LEMMA LookFollows ==
    ASSUME NEW p, DOMAIN p = Fields, At(p), GetValue, Doing({"look"})
    PROVE  Following(p)
  <1>1. Does(p, {"look"}) /\ Item(p) = What /\ p.rest = rest /\ p.flags = flags /\ p.rest # << >>
    BY AtFields DEF Doing
  <1>2. GoOn(Flagged(What, What \in world)) /\ UNCHANGED <<workflow, facts, session, world, sent, died>>
    BY DEF GetValue, Doing, place, observed
  <1>3. CASE What \in world
    <2>1. GoOn(p.flags \cup {Item(p)})
      BY <1>1, <1>2, <1>3 DEF Flagged
    <2>2. PICK q : q = Found(p, Item(p))
      OBVIOUS
    <2>3. AtOnce(q, p) /\ Knows(q) /\ Recalls(q)
      BY <1>1, <1>3, <2>2, ThingFields DEF At, Knows, Recalls, AtOnce
    <2>4. Knows(q)' /\ Recalls(q)'
      BY <1>2, <2>3, NothingNew
    <2>5. Item(p) \notin p.lacks
      BY <1>1, <1>3 DEF At, Knows
    <2>6. Onward(q, p.flags \cup {Item(p)}) \in After(workflow, p)
      BY <1>1, <2>2, <2>5, AfterThings
    <2> QED BY <1>1, <2>1, <2>3, <2>4, <2>6, Follow DEF AtOnce
  <1>4. CASE What \notin world
    <2>1. GoOn(p.flags \ {Item(p)})
      BY <1>1, <1>2, <1>4 DEF Flagged
    <2>2. PICK q : q = Absent(p, Item(p))
      OBVIOUS
    <2>3. AtOnce(q, p) /\ Knows(q) /\ Recalls(q)
      BY <1>1, <1>4, <2>2, ThingFields DEF At, Knows, Recalls, AtOnce
    <2>4. Knows(q)' /\ Recalls(q)'
      BY <1>2, <2>3, NothingNew
    <2>5. Item(p) \notin p.have
      BY <1>1, <1>4 DEF At, Knows
    <2>6. Onward(q, p.flags \ {Item(p)}) \in After(workflow, p)
      BY <1>1, <2>2, <2>5, AfterThings
    <2> QED BY <1>1, <2>1, <2>3, <2>4, <2>6, Follow DEF AtOnce
  <1> QED BY <1>3, <1>4

\* An answer of this time or a flag changes nothing that a point is about.
LEMMA FlagFollows ==
    ASSUME NEW p, DOMAIN p = Fields, At(p), (Learn /\ Doing({"ask"})) \/ SetFlag
    PROVE  Following(p)
  <1>1. Item(p) = What /\ p.rest = rest /\ p.flags = flags /\ p.rest # << >>
    BY AtFields DEF Learn, SetFlag, Doing
  <1>2. UNCHANGED <<workflow, facts, session, world, sent, died>>
    BY DEF Learn, SetFlag, place, observed, Doing
  <1>3. Knows(p)' /\ Recalls(p)'
    BY <1>2, NothingNew DEF At
  <1>4. \/ Doing({"ask", "set"}) /\ GoOn(flags \cup {What})
        \/ Doing({"ask", "clear"}) /\ GoOn(flags \ {What})
    BY DEF Learn, SetFlag, Doing, Flagged
  <1>5. CASE Doing({"ask", "set"}) /\ GoOn(flags \cup {What})
    <2>1. Onward(p, p.flags \cup {Item(p)}) \in After(workflow, p)
      BY <1>1, <1>5, AtFields, AfterFlags
    <2> QED BY <1>1, <1>3, <1>5, <2>1, Follow
  <1>6. CASE Doing({"ask", "clear"}) /\ GoOn(flags \ {What})
    <2>1. Onward(p, p.flags \ {Item(p)}) \in After(workflow, p)
      BY <1>1, <1>6, AtFields, AfterFlags
    <2> QED BY <1>1, <1>3, <1>6, <2>1, Follow
  <1> QED BY <1>4, <1>5, <1>6

\* The first answer is that of all attempts of the activity.
LEMMA FactFollows ==
    ASSUME NEW p, DOMAIN p = Fields, At(p), Learn, Doing({"fact"})
    PROVE  Following(p)
  <1>1. /\ Item(p) = What /\ p.rest = rest /\ p.flags = flags /\ p.rest # << >>
        /\ Does(p, {"fact"})
    BY AtFields DEF Doing
  <1>2. PICK answer \in BOOLEAN :
            /\ What \in DOMAIN facts => facts[What] = answer
            /\ facts' = With(facts, What, answer) /\ GoOn(Flagged(What, answer))
    BY DEF Learn, Doing
  <1>3. UNCHANGED <<workflow, session, world, sent, died>>
    BY DEF Learn, place, observed
  <1>4. PICK q : q = Answered(p, Item(p), answer)
    OBVIOUS
  <1>5. AtOnce(q, p) /\ Recalls(q)'
    BY <1>3, <1>4, AnswerFields DEF At, Recalls, AtOnce
  <1>6. \A fact \in q.facts : fact[1] \in DOMAIN facts' /\ facts'[fact[1]] = fact[2]
    <2> TAKE fact \in q.facts
    <2>1. CASE fact = <<What, answer>>
      BY <1>2, <2>1 DEF With
    <2>2. CASE fact \in p.facts
      <3>1. fact[1] \in DOMAIN facts /\ facts[fact[1]] = fact[2]
        BY <2>2 DEF At, Knows
      <3> QED BY <1>2, <3>1 DEF With
    <2> QED BY <1>1, <1>4, <2>1, <2>2, AnswerFields
  <1>7. Knows(q)'
    BY <1>3, <1>4, <1>6, AnswerFields, TruthyStays DEF At, Knows
  <1>8. <<Item(p), ~answer>> \notin p.facts
    <2> SUFFICES ASSUME <<Item(p), ~answer>> \in p.facts
                 PROVE  FALSE
      OBVIOUS
    <2>1. PICK fact : fact = <<What, ~answer>>
      OBVIOUS
    <2>2. fact \in p.facts /\ fact[1] = What /\ fact[2] = ~answer
      BY <1>1, <2>1
    <2> QED BY <1>2, <2>2 DEF At, Knows
  <1>9. CASE answer = TRUE
    <2>1. GoOn(p.flags \cup {Item(p)}) /\ <<Item(p), FALSE>> \notin p.facts
      BY <1>1, <1>2, <1>8, <1>9 DEF Flagged
    <2>2. Onward(q, p.flags \cup {Item(p)}) \in After(workflow, p)
      BY <1>1, <1>4, <1>9, <2>1, AfterFlags
    <2> QED BY <1>1, <1>5, <1>7, <2>1, <2>2, Follow DEF AtOnce
  <1>10. CASE answer = FALSE
    <2>1. GoOn(p.flags \ {Item(p)}) /\ <<Item(p), TRUE>> \notin p.facts
      BY <1>1, <1>2, <1>8, <1>10 DEF Flagged
    <2>2. Onward(q, p.flags \ {Item(p)}) \in After(workflow, p)
      BY <1>1, <1>4, <1>10, <2>1, AfterFlags
    <2> QED BY <1>1, <1>5, <1>7, <2>1, <2>2, Follow DEF AtOnce
  <1> QED BY <1>2, <1>9, <1>10

LEMMA UseFollows ==
    ASSUME NEW p, DOMAIN p = Fields, At(p), Use
    PROVE  Following(p)
  <1>1. Item(p) = What /\ p.rest = rest /\ p.flags = flags
    BY AtFields
  <1>2. GoOn(p.flags) /\ UNCHANGED <<workflow, facts, session, world, sent, died>>
    BY <1>1 DEF Use, place, observed
  <1>3. p.rest # << >>
    BY <1>1 DEF Use, Present, Doing
  <1>4. CASE Doing({"need"}) /\ Truthy(What)
    <2>1. PICK q : q = WithValue(p, Item(p))
      OBVIOUS
    <2>2. AtOnce(q, p) /\ Knows(q) /\ Recalls(q)
      BY <1>1, <1>4, <2>1, ValueFields DEF At, Knows, Recalls, AtOnce
    <2>3. Knows(q)' /\ Recalls(q)'
      BY <1>2, <2>2, NothingNew
    <2>4. Item(p) \notin p.blanks
      BY <1>1, <1>4 DEF At, Knows
    <2>5. Onward(q, p.flags) \in After(workflow, p)
      BY <1>1, <1>3, <1>4, <2>1, <2>4, AtFields, AfterValues
    <2> QED BY <1>1, <1>2, <2>2, <2>3, <2>5, Follow DEF AtOnce
  <1>5. CASE Doing({"input"}) /\ What \in Inputs[workflow]
    <2>1. Knows(p)' /\ Recalls(p)'
      BY <1>2, NothingNew DEF At
    <2>2. Onward(p, p.flags) \in After(workflow, p)
      BY <1>1, <1>3, <1>5, AtFields, AfterValues
    <2> QED BY <1>1, <1>2, <2>1, <2>2, Follow
  <1>6. CASE Doing({"read"}) /\ What \in world
    <2>1. PICK q : q = Found(p, Item(p))
      OBVIOUS
    <2>2. AtOnce(q, p) /\ Knows(q) /\ Recalls(q)
      BY <1>1, <1>6, <2>1, ThingFields DEF At, Knows, Recalls, AtOnce
    <2>3. Knows(q)' /\ Recalls(q)'
      BY <1>2, <2>2, NothingNew
    <2>4. Item(p) \notin p.lacks
      BY <1>1, <1>6 DEF At, Knows
    <2>5. Onward(q, p.flags) \in After(workflow, p)
      BY <1>1, <1>3, <1>6, <2>1, <2>4, AtFields, AfterThings
    <2> QED BY <1>1, <1>2, <2>2, <2>3, <2>5, Follow DEF AtOnce
  <1> QED BY <1>4, <1>5, <1>6 DEF Use, Present

\* What is missing is not known to be there.
LEMMA LackedIsUnknown ==
    ASSUME NEW p, At(p), Lack
    PROVE  MayLack(workflow, p)
  <1>1. Item(p) = What /\ \A kinds : Doing(kinds) => Does(p, kinds)
    BY AtFields
  <1>2. CASE Doing({"need"})
    BY <1>1, <1>2 DEF Lack, Present, MayLack, At, Knows
  <1>3. CASE Doing({"input"})
    BY <1>1, <1>3 DEF Lack, Present, MayLack
  <1>4. CASE Doing({"read"})
    BY <1>1, <1>4 DEF Lack, Present, MayLack, At, Knows
  <1> QED BY <1>2, <1>3, <1>4 DEF Lack, Doing

LEMMA LackFollows ==
    ASSUME NEW p, DOMAIN p = Fields, At(p), Lack, Instead # "raise"
    PROVE  Following(p)
  <1>1. p.rest = rest /\ p.flags = flags /\ Head(p.rest).instead = Instead /\ p.rest # << >>
    BY AtFields DEF Lack, Doing
  <1>2. GoOn(p.flags \ {Head(p.rest).instead}) /\ UNCHANGED <<workflow, facts, session, world, sent, died>>
    BY <1>1 DEF Lack, place
  <1>3. Knows(p)' /\ Recalls(p)'
    BY <1>2, NothingNew DEF At
  <1>4. Except(p) \subseteq After(workflow, p)
    BY <1>1, LackedIsUnknown, AfterValues, AfterThings DEF MayLack
  <1>5. Onward(p, p.flags \ {Head(p.rest).instead}) \in After(workflow, p)
    BY <1>1, <1>4, ExceptHolds
  <1> QED BY <1>1, <1>2, <1>3, <1>5, Follow

\* A value that was stored, whether the code knows that it was or not.
LEMMA StoresHold ==
    ASSUME NEW p, DOMAIN p = Fields, At(p), Stores,
           UNCHANGED <<workflow, facts, world, sent, died>>
    PROVE  \E q : /\ AtOnce(q, p) /\ Knows(q)' /\ Recalls(q)'
                  /\ Except(q) \subseteq After(workflow, p)
                  /\ \/ Doing({"count"})
                        /\ Onward(q, p.flags \cup {What}) \in After(workflow, p)
                        /\ Onward(q, p.flags \ {What}) \in After(workflow, p)
                     \/ ~Doing({"count"}) /\ Onward(q, p.flags) \in After(workflow, p)
  <1>1. /\ Item(p) = What /\ p.rest = rest /\ p.flags = flags /\ p.rest # << >>
        /\ \A kinds : Doing(kinds) => Does(p, kinds)
    BY AtFields DEF Stores, Doing
  <1>2. ASSUME NEW q, q = WithValue(p, What), session' = Stored(What, 1)
        PROVE  AtOnce(q, p) /\ Knows(q)' /\ Recalls(q)'
    <2>1. 1 > 0
      OBVIOUS
    <2> QED BY <1>1, <1>2, <2>1, TruthyStored, ValueFields, SessionStored DEF At, Knows
  <1>3. ASSUME NEW q, q = WithBlank(p, What), session' = Stored(What, 0)
        PROVE  AtOnce(q, p) /\ Knows(q)' /\ Recalls(q)'
    <2>1. ~(0 > 0)
      OBVIOUS
    <2> QED BY <1>1, <1>3, <2>1, TruthyStored, ValueFields, SessionStored DEF At, Knows
  <1>4. CASE Doing({"put"})
    <2>1. session' = Stored(What, 1) /\ ~Doing({"count"})
      BY <1>4 DEF Stores, Doing
    <2>2. PICK q : q = WithValue(p, What)
      OBVIOUS
    <2>3. Except(q) \subseteq After(workflow, p) /\ Onward(q, p.flags) \in After(workflow, p)
      BY <1>1, <1>4, <2>2, AfterValues, AfterCaught
    <2> QED BY <1>2, <2>1, <2>2, <2>3
  <1>5. CASE Doing({"blank"})
    <2>1. session' = Stored(What, 0) /\ ~Doing({"count"})
      BY <1>5 DEF Stores, Doing
    <2>2. PICK q : q = WithBlank(p, What)
      OBVIOUS
    <2>3. Except(q) \subseteq After(workflow, p) /\ Onward(q, p.flags) \in After(workflow, p)
      BY <1>1, <1>5, <2>2, AfterValues, AfterCaught
    <2> QED BY <1>3, <2>1, <2>2, <2>3
  <1>6. CASE Doing({"keep"})
    <2>1. /\ session' = Stored(What, IF What \in Inputs[workflow] THEN 1 ELSE 0)
          /\ ~Doing({"count"})
      BY <1>6 DEF Stores, Doing
    <2>2. CASE What \in Inputs[workflow]
      <3>1. PICK q : q = WithValue(p, What)
        OBVIOUS
      <3>2. Except(q) \subseteq After(workflow, p) /\ Onward(q, p.flags) \in After(workflow, p)
        BY <1>1, <1>6, <2>2, <3>1, AfterValues, AfterCaught
      <3> QED BY <1>2, <2>1, <2>2, <3>1, <3>2
    <2>3. CASE What \notin Inputs[workflow]
      <3>1. PICK q : q = WithBlank(p, What)
        OBVIOUS
      <3>2. Except(q) \subseteq After(workflow, p) /\ Onward(q, p.flags) \in After(workflow, p)
        BY <1>1, <1>6, <2>3, <3>1, AfterValues, AfterCaught
      <3> QED BY <1>3, <2>1, <2>3, <3>1, <3>2
    <2> QED BY <2>2, <2>3
  <1>7. CASE Doing({"count"})
    <2>1. session' = Stored(What, Counted(What))
      BY <1>7 DEF Stores, Doing
    <2>2. PICK q : q = Unsure(p, What)
      OBVIOUS
    <2>3. \A k : k # What => (Truthy(k)' <=> Truthy(k))
      BY <2>1, TruthyStored
    <2>4. /\ AtOnce(q, p) /\ q.have = p.have /\ q.lacks = p.lacks /\ q.facts = p.facts
          /\ q.sent = p.sent /\ q.new = p.new
          /\ q.values = p.values \ {What} /\ q.blanks = p.blanks \ {What}
      BY <2>2, ValueFields
    <2>5. Knows(q)' /\ Recalls(q)'
      BY <2>3, <2>4, SessionStored DEF At, Knows
    <2>6. /\ Except(q) \subseteq After(workflow, p)
          /\ Onward(q, p.flags \cup {What}) \in After(workflow, p)
          /\ Onward(q, p.flags \ {What}) \in After(workflow, p)
      BY <1>1, <1>7, <2>2, AfterValues, AfterCaught
    <2> QED BY <1>7, <2>4, <2>5, <2>6
  <1> QED BY <1>4, <1>5, <1>6, <1>7 DEF Stores

LEMMA StoreFollows ==
    ASSUME NEW p, DOMAIN p = Fields, At(p), StoreValue
    PROVE  Following(p)
  <1>1. p.rest = rest /\ p.flags = flags /\ p.rest # << >>
    BY AtFields DEF StoreValue, Stores, Doing
  <1>2. UNCHANGED <<workflow, facts, world, sent, died>> /\ Stores
    BY DEF StoreValue, place, observed
  <1>3. PICK q : /\ AtOnce(q, p) /\ Knows(q)' /\ Recalls(q)'
                 /\ \/ Doing({"count"})
                       /\ Onward(q, p.flags \cup {What}) \in After(workflow, p)
                       /\ Onward(q, p.flags \ {What}) \in After(workflow, p)
                    \/ ~Doing({"count"}) /\ Onward(q, p.flags) \in After(workflow, p)
    BY <1>2, StoresHold
  <1>4. \/ Doing({"count"}) /\ (GoOn(p.flags \cup {What}) \/ GoOn(p.flags \ {What}))
        \/ ~Doing({"count"}) /\ GoOn(p.flags)
    BY <1>1 DEF StoreValue, Flagged
  <1> QED BY <1>1, <1>3, <1>4, Follow DEF AtOnce

\* What is dropped leaves no second place without the first.
DropsTogether(p) ==
    \A n \in NamedTogether :
        Does(p, {"drop"}) /\ Item(p) = n[2] => n[1] \in p.new \/ p.died

LEMMA WrittenHolds ==
    ASSUME NEW p, DOMAIN p = Fields, At(p), NEW q,
           q \in {Tried(p, What), Written(p, What)},
           UNCHANGED <<workflow, facts, session, sent, died>>,
           world' = world \cup {What} \/ (q = Tried(p, What) /\ UNCHANGED world)
    PROVE  Knows(q)' /\ Recalls(q)' /\ AtOnce(q, p)
  <1>1. /\ AtOnce(q, p) /\ q.values = p.values /\ q.blanks = p.blanks /\ q.sent = p.sent
        /\ q.facts = p.facts /\ q.lacks = p.lacks \ {What}
    BY ThingFields
  <1>2. q.have \subseteq world' /\ world \subseteq world' /\ world' \subseteq world \cup {What}
    BY ThingFields DEF At, Knows
  <1>3. Knows(q)'
    BY <1>1, <1>2, TruthyStays DEF At, Knows
  <1>4. Recalls(q)'
    <2>1. ASSUME ~died, NEW n \in NamedTogether, n[1] \in world'
          PROVE  n[2] \in world' \/ n[1] \in q.new
      <3>1. q.new = p.new \cup {What}
        BY <2>1, ThingFields DEF At, Recalls
      <3>2. n[1] \in world => n[2] \in world \/ n[1] \in p.new
        BY <2>1 DEF At, Recalls
      <3> QED BY <1>2, <2>1, <3>1, <3>2
    <2> QED BY <1>1, <2>1 DEF At, Recalls, AtOnce
  <1> QED BY <1>1, <1>3, <1>4

LEMMA PostedHolds ==
    ASSUME NEW p, DOMAIN p = Fields, At(p), NEW q, q = Posted(p, What),
           UNCHANGED <<workflow, facts, session, died>>,
           world' = world \cup {What}, sent' = sent \cup {What}
    PROVE  Knows(q)' /\ Recalls(q)' /\ AtOnce(q, p)
  <1>1. /\ AtOnce(q, p) /\ q.values = p.values /\ q.blanks = p.blanks
        /\ q.have = p.have \cup {What} /\ q.lacks = p.lacks \ {What} /\ q.facts = p.facts
    BY ThingFields
  <1>2. Knows(q)'
    BY <1>1, TruthyStays DEF At, Knows
  <1>3. ASSUME ~died
        PROVE  /\ q.sent = sent'
               /\ \A n \in NamedTogether : n[1] \in world' => n[2] \in world' \/ n[1] \in q.new
    <2>1. q.new = p.new \cup {What} /\ q.sent = p.sent \cup {What}
      BY <1>3, ThingFields DEF At, Recalls
    <2> QED BY <1>3, <2>1 DEF At, Recalls
  <1>4. Recalls(q)'
    BY <1>1, <1>3 DEF At, Recalls, AtOnce
  <1> QED BY <1>1, <1>2, <1>4

LEMMA GoneHolds ==
    ASSUME NEW p, DOMAIN p = Fields, At(p), NEW q, Doing({"drop"}), DropsTogether(p),
           UNCHANGED <<workflow, facts, session, sent, died>>,
           \/ q = Gone(p, What) /\ world' = world \ {What}
           \/ q = Doubted(p, What) /\ (world' = world \ {What} \/ UNCHANGED world)
    PROVE  Knows(q)' /\ Recalls(q)' /\ AtOnce(q, p)
  <1>1. /\ AtOnce(q, p) /\ q.values = p.values /\ q.blanks = p.blanks /\ q.sent = p.sent
        /\ q.new = p.new /\ q.have = p.have \ {What} /\ q.facts = p.facts
        /\ q.lacks \cap world' \subseteq p.lacks \cap world
    BY ThingFields
  <1>2. Does(p, {"drop"}) /\ Item(p) = What
    BY AtFields
  <1>3. Knows(q)'
    BY <1>1, TruthyStays DEF At, Knows
  <1>4. ASSUME ~died, NEW n \in NamedTogether, n[1] \in world'
        PROVE  n[2] \in world' \/ n[1] \in q.new
    <2>1. n[2] \in world \/ n[1] \in p.new
      BY <1>4 DEF At, Recalls
    <2>2. n[2] = What => n[1] \in p.new
      BY <1>2, <1>4 DEF DropsTogether, At, Recalls
    <2> QED BY <1>1, <2>1, <2>2
  <1>5. Recalls(q)'
    BY <1>1, <1>4 DEF At, Recalls, AtOnce
  <1> QED BY <1>1, <1>3, <1>5

LEMMA ChangeFollows ==
    ASSUME NEW p, DOMAIN p = Fields, At(p), Change, DropsTogether(p)
    PROVE  Following(p)
  <1>1. /\ Item(p) = What /\ p.rest = rest /\ p.flags = flags /\ p.rest # << >>
        /\ \A kinds : Doing(kinds) => Does(p, kinds)
    BY AtFields DEF Change, Made, Doing
  <1>2. UNCHANGED <<workflow, facts, session, died>> /\ GoOn(p.flags)
    BY <1>1 DEF Change, place
  <1>3. CASE Doing({"write"}) /\ world' = world \cup {What} /\ UNCHANGED <<sent, repeated>>
    <2>1. PICK q : q = Written(p, What)
      OBVIOUS
    <2>2. Knows(q)' /\ Recalls(q)' /\ AtOnce(q, p)
      BY <1>2, <1>3, <2>1, WrittenHolds
    <2>3. Onward(q, p.flags) \in After(workflow, p)
      BY <1>1, <1>3, <2>1, AfterThings
    <2> QED BY <1>1, <1>2, <2>2, <2>3, Follow DEF AtOnce
  <1>4. CASE Doing({"send"}) /\ world' = world \cup {What} /\ sent' = sent \cup {What}
    <2>1. PICK q : q = Posted(p, What)
      OBVIOUS
    <2>2. Knows(q)' /\ Recalls(q)' /\ AtOnce(q, p)
      BY <1>2, <1>4, <2>1, PostedHolds
    <2>3. Onward(q, p.flags) \in After(workflow, p)
      BY <1>1, <1>4, <2>1, AfterThings
    <2> QED BY <1>1, <1>2, <2>2, <2>3, Follow DEF AtOnce
  <1>5. CASE Doing({"drop"}) /\ world' = world \ {What} /\ UNCHANGED <<sent, repeated>>
    <2>1. PICK q : q = Gone(p, What)
      OBVIOUS
    <2>2. Knows(q)' /\ Recalls(q)' /\ AtOnce(q, p)
      BY <1>2, <1>5, <2>1, GoneHolds
    <2>3. Onward(q, p.flags) \in After(workflow, p)
      BY <1>1, <1>5, <2>1, AfterThings
    <2> QED BY <1>1, <1>2, <2>2, <2>3, Follow DEF AtOnce
  <1> QED BY <1>3, <1>4, <1>5 DEF Change, Made

\* After a failure that is caught an attempt knows what holds with the change
\* and without it, or goes on from one point in either case.
LEMMA CaughtHolds ==
    ASSUME NEW p, DOMAIN p = Fields, At(p), Caught, DropsTogether(p)
    PROVE  \E q : /\ AtOnce(q, p) /\ Knows(q)' /\ Recalls(q)'
                  /\ Except(q) \subseteq After(workflow, p)
  <1>1. /\ Item(p) = What /\ p.rest # << >>
        /\ \A kinds : Doing(kinds) => Does(p, kinds)
    BY AtFields DEF Caught, Doing
  <1>2. UNCHANGED <<workflow, facts, died>> /\ HalfDone
    BY DEF Caught, place
  <1>3. CASE Stores /\ UNCHANGED <<world, sent, repeated>>
    BY <1>2, <1>3, StoresHold
  <1>4. ASSUME Doing({"write"}), UNCHANGED <<sent, session>>,
               world' = world \cup {What} \/ UNCHANGED world
        PROVE  \E q : /\ AtOnce(q, p) /\ Knows(q)' /\ Recalls(q)'
                      /\ Except(q) \subseteq After(workflow, p)
    <2>1. PICK q : q = Tried(p, What)
      OBVIOUS
    <2>2. Knows(q)' /\ Recalls(q)' /\ AtOnce(q, p)
      BY <1>2, <1>4, <2>1, WrittenHolds
    <2> QED BY <1>1, <1>4, <2>1, <2>2, AfterCaught
  <1>5. ASSUME Doing({"drop"}), UNCHANGED <<sent, session>>,
               world' = world \ {What} \/ UNCHANGED world
        PROVE  \E q : /\ AtOnce(q, p) /\ Knows(q)' /\ Recalls(q)'
                      /\ Except(q) \subseteq After(workflow, p)
    <2>1. PICK q : q = Doubted(p, What)
      OBVIOUS
    <2>2. Knows(q)' /\ Recalls(q)' /\ AtOnce(q, p)
      BY <1>2, <1>5, <2>1, GoneHolds
    <2> QED BY <1>1, <1>5, <2>1, <2>2, AfterCaught
  <1>6. ASSUME Doing({"send"}), world' = world \cup {What}, sent' = sent \cup {What},
               UNCHANGED session
        PROVE  \E q : /\ AtOnce(q, p) /\ Knows(q)' /\ Recalls(q)'
                      /\ Except(q) \subseteq After(workflow, p)
    <2>1. PICK q : q = Posted(p, What)
      OBVIOUS
    <2>2. Knows(q)' /\ Recalls(q)' /\ AtOnce(q, p)
      BY <1>2, <1>6, <2>1, PostedHolds
    <2> QED BY <1>1, <1>6, <2>1, <2>2, AfterCaught
  <1>7. ASSUME Doing({"read", "send", "put", "blank", "keep", "count"}),
               UNCHANGED <<world, sent, session>>
        PROVE  \E q : /\ AtOnce(q, p) /\ Knows(q)' /\ Recalls(q)'
                      /\ Except(q) \subseteq After(workflow, p)
    <2>1. Knows(p)' /\ Recalls(p)' /\ AtOnce(p, p)
      BY <1>2, <1>7, NothingNew DEF At, AtOnce
    <2> QED BY <1>1, <1>7, <2>1, AfterCaught
  <1>8. CASE Made /\ UNCHANGED session
    BY <1>4, <1>5, <1>6, <1>8 DEF Made
  <1>9. CASE UNCHANGED <<world, sent, repeated, session>>
    <2>1. \/ Doing({"write"}) \/ Doing({"drop"})
          \/ Doing({"read", "send", "put", "blank", "keep", "count"})
      BY DEF Caught, Doing
    <2> QED BY <1>4, <1>5, <1>7, <1>9, <2>1
  <1> QED BY <1>2, <1>3, <1>8, <1>9 DEF HalfDone

LEMMA CaughtFollows ==
    ASSUME NEW p, DOMAIN p = Fields, At(p), Caught, DropsTogether(p)
    PROVE  Following(p)
  <1>1. /\ p.rest = rest /\ p.flags = flags /\ p.rest # << >>
        /\ Head(p.rest).instead = Instead /\ Instead # "raise"
    BY AtFields DEF Caught, Doing
  <1>2. GoOn(p.flags \ {Instead})
    BY <1>1 DEF Caught
  <1>3. PICK q : /\ AtOnce(q, p) /\ Knows(q)' /\ Recalls(q)'
                 /\ Except(q) \subseteq After(workflow, p)
    BY CaughtHolds
  <1>4. q.rest = p.rest /\ q.flags = p.flags /\ DOMAIN q = Fields
    BY <1>3 DEF AtOnce
  <1>5. Onward(q, q.flags \ {Head(q.rest).instead}) \in Except(q)
    BY <1>1, <1>4, ExceptHolds
  <1>6. Onward(q, p.flags \ {Instead}) \in After(workflow, p)
    BY <1>1, <1>3, <1>4, <1>5
  <1> QED BY <1>1, <1>2, <1>3, <1>4, <1>6, Follow

-----------------------------------------------------------------------------
(* The invariant.                                                            *)

AttemptInv ==
    outcome = "OPEN" =>
        /\ running => \E p \in Outlines[workflow][step] : At(p)
        /\ ~running => \E p \in Starts(workflow, step) : Knows(p) /\ Recalls(p)

LEMMA HereIsOutlined ==
    ASSUME PlaceInv
    PROVE  /\ Opened(workflow) /\ \A given \in Givens[workflow] : Consistent(given)
           /\ Outlines[workflow][step] \subseteq Points
           /\ Kept(workflow, step) /\ Goes(workflow, step)
           /\ Restarts(workflow, step) /\ GoesOn(workflow, step)
           /\ KeepsTogether(Remembered(workflow, step))
           /\ \A p \in Outlines[workflow][step] :
                 /\ UsesValues(workflow, p) /\ ReadsObjects(p) /\ SendsOnce(p)
                 /\ CopiesFirst(p) /\ ReliesOn(p) /\ WritesBoth(workflow, p)
                 /\ FindsChanges(workflow, step, p)
  <1>1. workflow \in DOMAIN Workflows /\ step \in DOMAIN Workflows[workflow]
    BY PlaceFacts DEF PlaceInv
  <1>2. /\ Opened(workflow) /\ Outlines[workflow][step] \subseteq Points
        /\ Kept(workflow, step) /\ Goes(workflow, step)
        /\ Restarts(workflow, step) /\ GoesOn(workflow, step)
    BY <1>1, OutlinesAssumption, Zenon
  <1>3. /\ \A given \in Givens[workflow] : Consistent(given)
        /\ KeepsTogether(Remembered(workflow, step))
        /\ \A p \in Outlines[workflow][step] :
              /\ UsesValues(workflow, p) /\ ReadsObjects(p) /\ SendsOnce(p)
              /\ CopiesFirst(p) /\ ReliesOn(p) /\ WritesBoth(workflow, p)
              /\ FindsChanges(workflow, step, p)
    BY <1>1, PointsAssumption, Zenon
  <1> QED BY <1>2, <1>3

LEMMA StartFields ==
    ASSUME NEW w, NEW n, NEW p \in Starts(w, n)
    PROVE  p \in Outlines[w][n] /\ p.rest = Ahead(Script(w, n), {}) /\ p.flags = {} /\ p.new = {}
  BY DEF Starts

LEMMA AttemptInit ==
    ASSUME Init
    PROVE  AttemptInv
  <1>1. PlaceInv /\ step = 1 /\ world \in Givens[workflow]
    BY PlaceInit DEF Init
  <1>2. Opened(workflow) /\ Consistent(world)
    BY <1>1, HereIsOutlined
  <1>3. PICK q \in Starts(workflow, 1) :
            /\ q.have \subseteq world /\ q.lacks \cap world = {}
            /\ q.values \subseteq Inputs[workflow] /\ q.blanks \cap Inputs[workflow] = {}
            /\ q.facts = {} /\ q.sent = {} /\ ~q.died
            /\ q.died \in BOOLEAN
    <2>1. Outlines[workflow][1] \subseteq Points
      BY <1>1, HereIsOutlined
    <2>2. \A q \in Starts(workflow, 1) : q.died \in BOOLEAN
      BY <2>1, StartFields DEF Points
    <2> QED BY <1>1, <1>2, <2>2 DEF Opened
  <1>4. \A k : Truthy(k) <=> k \in Inputs[workflow]
    BY DEF Truthy, Init
  <1>5. Knows(q)
    BY <1>3, <1>4 DEF Knows
  <1>6. Recalls(q)
    BY <1>2, <1>3 DEF Recalls, Consistent, Init
  <1> QED BY <1>1, <1>3, <1>5, <1>6 DEF AttemptInv, Init

LEMMA BeginAttempt ==
    ASSUME PlaceInv, AttemptInv, Begin
    PROVE  AttemptInv'
  <1>1. PICK p \in Starts(workflow, step) : Knows(p) /\ Recalls(p)
    BY DEF AttemptInv, Begin
  <1>2. PICK kept : kept = Remembered(workflow, step)
    OBVIOUS
  <1>3. /\ p.have \cup p.values \cup p.blanks \subseteq kept
        /\ \A n \in NamedTogether : n[1] \in kept => n[2] \in kept
    BY <1>2, HereIsOutlined DEF Kept, KeepsTogether
  <1>4. /\ UNCHANGED <<workflow, step, facts, sent, died>> /\ running' = TRUE
        /\ rest' = Ahead(Scripts[Activity], {}) /\ flags' = {}
        /\ session' = Restrict(session, DOMAIN session \cap kept)
        /\ world' = world \cap kept
    BY <1>2 DEF Begin, place
  <1>5. \A k \in kept : Truthy(k)' <=> Truthy(k)
    BY <1>4, TruthyKept
  <1>6. Knows(p)'
    BY <1>1, <1>3, <1>4, <1>5 DEF Knows
  <1>7. Recalls(p)'
    BY <1>1, <1>3, <1>4, StartFields DEF Recalls
  <1>8. p \in Outlines[workflow][step] /\ p.rest = rest' /\ p.flags = flags'
    BY <1>4, StartFields DEF Script, Activity
  <1> QED BY <1>4, <1>6, <1>7, <1>8 DEF AttemptInv, At

LEMMA FollowingAttempt ==
    ASSUME PlaceInv, UNCHANGED <<workflow, step, running, outcome>>, running = TRUE,
           NEW p \in Outlines[workflow][step], Following(p)
    PROVE  AttemptInv'
  <1>1. PICK q \in After(workflow, p) : At(q)'
    BY DEF Following
  <1>2. q \in Outlines[workflow][step]
    BY HereIsOutlined DEF Goes
  <1> QED BY <1>1, <1>2 DEF AttemptInv

LEMMA WeakerKnows ==
    ASSUME NEW p, NEW q, Weaker(q, p), Knows(p), UNCHANGED <<workflow, session, world>>,
           q.facts = {} \/ UNCHANGED facts
    PROVE  Knows(q)'
  BY TruthyStays DEF Weaker, Knows

\* When an attempt ends, what was written is in both places.
LEMMA BothWritten ==
    ASSUME PlaceInv, NEW p \in Outlines[workflow][step], At(p), ~died,
           Succeeds(p) \/ MayFail(workflow, p), NEW n \in NamedTogether, n[1] \in world
    PROVE  n[2] \in world
  <1>1. n[2] \in world \/ n[1] \in p.new
    BY DEF At, Recalls
  <1>2. n[1] \in p.new => n[2] \in p.have
    BY HereIsOutlined DEF WritesBoth
  <1> QED BY <1>1, <1>2 DEF At, Knows

LEMMA FaultAttempt ==
    ASSUME PlaceInv, AttemptInv, Fault
    PROVE  AttemptInv'
  <1>1. /\ UNCHANGED <<workflow, step, facts, session, world>> /\ running' = FALSE /\ died' = TRUE
        /\ outcome = "OPEN" /\ running
    BY DEF Fault, AttemptFails, Stop, Running, place
  <1>2. PICK p \in Outlines[workflow][step] : At(p)
    BY <1>1 DEF AttemptInv
  <1>3. PICK q \in Starts(workflow, step) : Weaker(q, p) /\ q.died
    BY HereIsOutlined DEF Restarts
  <1>4. q.died = TRUE
    BY <1>3, HereIsOutlined, StartFields DEF Points
  <1>5. Knows(q)' /\ Recalls(q)'
    BY <1>1, <1>2, <1>3, <1>4, WeakerKnows DEF At, Recalls
  <1> QED BY <1>1, <1>3, <1>5 DEF AttemptInv

\* An attempt that fails by itself.
LEMMA FailedAttempt ==
    ASSUME PlaceInv, NEW p \in Outlines[workflow][step], At(p), MayFail(workflow, p),
           UNCHANGED <<workflow, step, facts, session, world, sent, died>>, running' = FALSE
    PROVE  AttemptInv'
  <1>1. PICK q \in Starts(workflow, step) : Weaker(q, p) /\ q.died = p.died /\ q.sent = p.sent
    BY HereIsOutlined DEF Restarts
  <1>2. Knows(q)'
    BY <1>1, WeakerKnows DEF At
  <1>3. Recalls(q)'
    BY <1>1, BothWritten DEF At, Recalls
  <1> QED BY <1>1, <1>2, <1>3 DEF AttemptInv

LEMMA ResultFields ==
    ASSUME NEW p, At(p)
    PROVE  /\ Running /\ Result = "ActivitySuccess" => Succeeds(p)
           /\ Running /\ Result \in {"ActivityTemporaryFailure", "raise"} => MayFail(workflow, p)
  BY AtFields DEF At, Result, Succeeds, MayFail, Doing, Does

LEMMA FailAttempt ==
    ASSUME PlaceInv, AttemptInv, Fail \/ (Lack /\ Instead = "raise")
    PROVE  AttemptInv'
  <1>1. /\ UNCHANGED <<workflow, step, facts, session, world, sent, died>> /\ running' = FALSE
        /\ outcome = "OPEN" /\ running
    BY DEF Fail, AttemptFails, Lack, Stop, Running, Doing, place
  <1>2. PICK p \in Outlines[workflow][step] : At(p)
    BY <1>1 DEF AttemptInv
  <1>3. MayFail(workflow, p)
    <2>1. CASE Fail
      BY <1>2, <2>1, ResultFields DEF Fail
    <2>2. CASE Lack /\ Instead = "raise"
      BY <1>2, <2>2, LackedIsUnknown, AtFields DEF MayFail
    <2> QED BY <2>1, <2>2
  <1> QED BY <1>1, <1>2, <1>3, FailedAttempt

LEMMA CompleteAttempt ==
    ASSUME IdsAreUnique, PlaceInv, AttemptInv, Complete
    PROVE  AttemptInv'
  <1>1. CASE Upcoming = {}
    BY <1>1 DEF Complete, AttemptInv
  <1>2. CASE Upcoming # {}
    <2>1. /\ UNCHANGED <<workflow, session, world, died>> /\ running' = FALSE /\ sent' = {}
          /\ step' = step + 1 /\ outcome = "OPEN" /\ running /\ step < Len(Workflows[workflow])
      <3>1. step < Len(Workflows[workflow])
        BY <1>2, NextStep, PlaceFacts
      <3> QED BY <1>2, <3>1, NextStep DEF Complete, Running, Stop, observed
    <2>2. PICK p \in Outlines[workflow][step] : At(p)
      BY <2>1 DEF AttemptInv
    <2>3. Succeeds(p)
      BY <2>2, ResultFields DEF Complete
    <2>4. PICK q \in Starts(workflow, step + 1) :
              Weaker(q, p) /\ q.died = p.died /\ q.facts = {} /\ q.sent = {}
      BY <2>1, <2>3, HereIsOutlined DEF GoesOn
    <2>5. Knows(q)'
      BY <2>1, <2>2, <2>4, WeakerKnows DEF At
    <2>6. Recalls(q)'
      BY <2>1, <2>2, <2>3, <2>4, BothWritten DEF At, Recalls
    <2> QED BY <2>1, <2>4, <2>5, <2>6 DEF AttemptInv
  <1> QED BY <1>1, <1>2

LEMMA OperationAttempt ==
    ASSUME PlaceInv, AttemptInv,
           GetValue \/ Learn \/ SetFlag \/ Use \/ (Lack /\ Instead # "raise") \/ StoreValue
           \/ Change \/ Caught
    PROVE  AttemptInv'
  <1>1. UNCHANGED <<workflow, step, running, outcome>> /\ outcome = "OPEN" /\ running
    BY DEF GetValue, Learn, SetFlag, Use, Present, Lack, StoreValue, Stores, Change, Made, Caught,
           GoOn, Doing, Running, place
  <1>2. PICK p \in Outlines[workflow][step] : At(p)
    BY <1>1 DEF AttemptInv
  <1>3. DOMAIN p = Fields /\ DropsTogether(p)
    BY HereIsOutlined, PointFields DEF WritesBoth, DropsTogether
  <1>4. CASE GetValue
    <2>1. Doing({"get"}) \/ Doing({"look"})
      BY <1>4 DEF GetValue
    <2> QED BY <1>2, <1>3, <1>4, <2>1, GetFollows, LookFollows, FollowingAttempt, <1>1
  <1>5. CASE Learn
    <2>1. Doing({"ask"}) \/ Doing({"fact"})
      BY <1>5 DEF Learn
    <2> QED BY <1>2, <1>3, <1>5, <2>1, FlagFollows, FactFollows, FollowingAttempt, <1>1
  <1>6. CASE ~GetValue /\ ~Learn
    BY <1>1, <1>2, <1>3, <1>6, FlagFollows, UseFollows, LackFollows, StoreFollows,
       ChangeFollows, CaughtFollows, FollowingAttempt
  <1> QED BY <1>4, <1>5, <1>6

LEMMA AttemptStep ==
    ASSUME IdsAreUnique, PlaceInv, AttemptInv, [Next]_vars
    PROVE  AttemptInv'
  <1>1. CASE UNCHANGED vars
    BY <1>1 DEF vars, place, attempt, observed, AttemptInv, At, Knows, Recalls, Truthy
  <1>2. CASE GiveUp
    BY <1>2 DEF GiveUp, AttemptInv
  <1> QED BY <1>1, <1>2, BeginAttempt, OperationAttempt, FailAttempt, FaultAttempt,
             CompleteAttempt DEF Next

OutlineInv == PlaceInv /\ TypeInv /\ AttemptInv

LEMMA OutlineInit == Init => OutlineInv
  BY PlaceInit, TypeInit, AttemptInit DEF OutlineInv

LEMMA OutlineStep ==
    ASSUME IdsAreUnique, OutlineInv, [Next]_vars
    PROVE  OutlineInv'
  BY PlaceStep, TypeStep, AttemptStep DEF OutlineInv

\* The point at which an attempt is, and what its script does there.
LEMMA OutlinePoint ==
    ASSUME OutlineInv, Running
    PROVE  \E p \in Outlines[workflow][step] :
              /\ At(p) /\ UsesValues(workflow, p) /\ ReadsObjects(p) /\ SendsOnce(p)
              /\ CopiesFirst(p) /\ ReliesOn(p) /\ WritesBoth(workflow, p)
              /\ FindsChanges(workflow, step, p)
  <1>1. PICK p \in Outlines[workflow][step] : At(p)
    BY DEF OutlineInv, AttemptInv, Running
  <1> QED BY <1>1, HereIsOutlined DEF OutlineInv

-----------------------------------------------------------------------------
(* Values and objects.                                                       *)

\* What an attempt raises for want of.
LEMMA MissingStep ==
    ASSUME [Next]_vars
    PROVE  \/ Lack /\ Running /\ missing' = What
           \/ missing' \in {missing, "nothing", "error"}
  <1>1. CASE Lack
    BY <1>1 DEF Lack, Doing
  <1>2. Next /\ ~Lack => missing' \in {missing, "nothing", "error"}
    BY DEF Next, Begin, GetValue, Learn, SetFlag, Use, StoreValue, Change, Caught, Complete, Fail,
           GiveUp, Fault, observed
  <1>3. UNCHANGED vars => missing' = missing
    BY DEF vars, observed
  <1> QED BY <1>1, <1>2, <1>3

\* A value that was stored, or an object that nobody has touched, is not missed.
LEMMA LackedWord ==
    ASSUME OutlineInv, Lack, Running
    PROVE  \/ What \in Values /\ What \in UnsetByConfiguration
           \/ What \in Objects /\ died /\ What \in GoneOnRetry
  <1>1. PICK p \in Outlines[workflow][step] :
            At(p) /\ UsesValues(workflow, p) /\ ReadsObjects(p)
    BY OutlinePoint
  <1>2. Item(p) = What /\ \A kinds : Doing(kinds) => Does(p, kinds) /\ What \in Named(kinds)
    BY <1>1, AtFields, KindsOfWords DEF OutlineInv, TypeInv, Doing
  <1>3. CASE Doing({"need"})
    <2>1. What \notin p.values
      BY <1>1, <1>3 DEF Lack, Present, At, Knows
    <2>2. What \in Values
      BY <1>3 , <1>2 DEF Values, Named
    <2> QED BY <1>1, <1>2, <1>3, <2>1, <2>2 DEF UsesValues
  <1>4. CASE Doing({"input"})
    <2>1. What \notin Inputs[workflow]
      BY <1>4 DEF Lack, Present
    <2>2. What \in Values
      BY <1>4 , <1>2 DEF Values, Named
    <2> QED BY <1>1, <1>2, <1>4, <2>1, <2>2 DEF UsesValues
  <1>5. CASE Doing({"read"})
    <2>1. What \notin p.have
      BY <1>1, <1>5 DEF Lack, Present, At, Knows
    <2>2. What \in Objects
      BY <1>2, <1>5 DEF Objects
    <2>3. died = p.died
      BY <1>1 DEF At, Recalls
    <2> QED BY <1>1, <1>2, <1>5, <2>1, <2>2, <2>3 DEF ReadsObjects
  <1> QED BY <1>3, <1>4, <1>5 DEF Lack, Doing

LEMMA ValuesStep ==
    ASSUME OutlineInv, ValuesArePresent, [Next]_vars
    PROVE  ValuesArePresent'
  <1>1. CASE Lack /\ Running /\ missing' = What
    BY <1>1, LackedWord, MissingAssumption DEF ValuesArePresent
  <1>2. CASE missing' \in {missing, "nothing", "error"}
    BY <1>2, MissingAssumption DEF ValuesArePresent
  <1> QED BY <1>1, <1>2, MissingStep

LEMMA DeathStays ==
    ASSUME [Next]_vars, died
    PROVE  died'
  BY DEF Next, Begin, GetValue, Learn, SetFlag, Use, Lack, StoreValue, Change, Caught, Complete, Fail,
         GiveUp, Fault, observed, vars

LEMMA ObjectsStep ==
    ASSUME OutlineInv, ObjectsArePresent, [Next]_vars
    PROVE  ObjectsArePresent'
  <1>1. CASE Lack /\ Running /\ missing' = What
    BY <1>1, LackedWord, MissingAssumption, DeathStays DEF ObjectsArePresent
  <1>2. CASE missing' \in {missing, "nothing", "error"}
    BY <1>2, MissingAssumption, DeathStays DEF ObjectsArePresent
  <1> QED BY <1>1, <1>2, MissingStep

\* No activity uses a session value that was not stored, whichever attempts
\* died: get_value of execution_context.py does not answer None to those that
\* go on with the answer.
THEOREM ValuesWerePut ==
    ASSUME IdsAreUnique
    PROVE  Spec => []ValuesArePresent
  <1>1. Init => OutlineInv /\ ValuesArePresent
    BY OutlineInit, MissingAssumption DEF Init, ValuesArePresent
  <1>2. OutlineInv /\ ValuesArePresent /\ [Next]_vars => OutlineInv' /\ ValuesArePresent'
    BY OutlineStep, ValuesStep
  <1> QED BY <1>1, <1>2, PTL DEF Spec

\* No activity reads an object that is not in its bucket, unless an attempt
\* that died had renamed or deleted it.
THEOREM ObjectsWereWritten ==
    ASSUME IdsAreUnique
    PROVE  Spec => []ObjectsArePresent
  <1>1. Init => OutlineInv /\ ObjectsArePresent
    BY OutlineInit, MissingAssumption DEF Init, ObjectsArePresent
  <1>2. OutlineInv /\ ObjectsArePresent /\ [Next]_vars => OutlineInv' /\ ObjectsArePresent'
    BY OutlineStep, ObjectsStep
  <1> QED BY <1>1, <1>2, PTL DEF Spec

-----------------------------------------------------------------------------
(* Copies.                                                                   *)

\* What makes things go away while an attempt runs.
LEMMA OnlyDropsRemove ==
    ASSUME [Next]_vars, running
    PROVE  world \subseteq world' \/ (Doing({"drop"}) /\ world' = world \ {What})
  <1>1. CASE Change
    BY <1>1 DEF Change, Made
  <1>2. CASE Caught
    BY <1>2 DEF Caught, HalfDone, Made
  <1>3. [Next]_vars /\ ~Change /\ ~Caught => world' = world
    BY DEF Next, Begin, GetValue, Learn, SetFlag, Use, Lack, StoreValue, Complete, Fail, AttemptFails,
           GiveUp, Fault, vars
  <1> QED BY <1>1, <1>2, <1>3

LEMMA CopyStays ==
    ASSUME OutlineInv, [Next]_vars, running, NEW m \in MovedTo, m[1] \in world
    PROVE  Places(m[1]) \cap world' # {}
  <1>1. m[1] \in Places(m[1])
    BY Zenon DEF Places
  <1>2. CASE m[1] \in world'
    BY <1>1, <1>2
  <1>3. CASE m[1] \notin world'
    <2>1. Doing({"drop"}) /\ What = m[1] /\ world' = world \ {What}
      BY <1>3, OnlyDropsRemove
    <2>2. PICK p \in Outlines[workflow][step] : At(p) /\ CopiesFirst(p)
      BY <2>1, OutlinePoint DEF Doing
    <2>3. Does(p, {"drop"}) /\ Item(p) = m[1]
      BY <2>1, <2>2, AtFields
    <2>4. PICK copy \in Places(m[1]) : copy # m[1] /\ copy \in p.have
      BY <2>2, <2>3 DEF CopiesFirst
    <2>5. copy \in world'
      BY <2>1, <2>2, <2>4 DEF At, Knows
    <2> QED BY <2>4, <2>5
  <1> QED BY <1>2, <1>3

\* Renaming, moving to a content folder and cleaning an outbox never remove
\* the only copy, wherever an attempt dies.
THEOREM NoCopyIsLost ==
    ASSUME IdsAreUnique
    PROVE  Spec => NothingLost
  <1>1. Init => OutlineInv
    BY OutlineInit
  <1>2. OutlineInv /\ [Next]_vars => OutlineInv'
    BY OutlineStep
  <1>3. OutlineInv /\ [Next]_vars
        => [running =>
              \A m \in MovedTo : m[1] \in world => Places(m[1]) \cap world' # {}]_vars
    BY CopyStays
  <1> QED BY <1>1, <1>2, <1>3, PTL DEF Spec, NothingLost

-----------------------------------------------------------------------------
(* Sendings.                                                                 *)

\* What is sent again by attempts none of which died is of those that may be.
LEMMA RepeatedStep ==
    ASSUME OutlineInv, RepeatsAreFaults, [Next]_vars
    PROVE  RepeatsAreFaults'
  <1>1. CASE died
    BY <1>1, DeathStays, Zenon DEF RepeatsAreFaults
  <1>2. CASE UNCHANGED repeated
    BY <1>2, DeathStays, Zenon DEF RepeatsAreFaults
  <1>3. ASSUME ~died, Doing({"send"}), What \in sent, repeated' = What
        PROVE  RepeatsAreFaults'
    <2>1. PICK p \in Outlines[workflow][step] : At(p) /\ SendsOnce(p)
      BY <1>3, OutlinePoint DEF Doing
    <2>2. Does(p, {"send"}) /\ Item(p) = What /\ ~p.died /\ p.sent = sent
      BY <1>3, <2>1, AtFields DEF At, Recalls
    <2>3. What \in SentAgain
      BY <1>3, <2>1, <2>2 DEF SendsOnce
    <2> QED BY <1>3, <2>3, Zenon DEF RepeatsAreFaults
  <1>4. Made => UNCHANGED repeated \/ (Doing({"send"}) /\ What \in sent /\ repeated' = What)
    BY DEF Made
  <1>5. Change \/ Caught => Made \/ UNCHANGED repeated
    BY DEF Change, Caught, HalfDone
  <1>6. [Next]_vars /\ ~Change /\ ~Caught => UNCHANGED repeated
    BY DEF Next, Begin, GetValue, Learn, SetFlag, Use, Lack, StoreValue, Complete, Fail,
           AttemptFails, GiveUp, Fault, vars, observed
  <1> QED BY <1>1, <1>2, <1>3, <1>4, <1>5, <1>6

\* Mails, requests and deposits are sent once by the attempts of an activity,
\* unless one of them died, also when the code catches a failure of the call or
\* of what follows it; the exceptions are those that the code sends again.
THEOREM SentOnce ==
    ASSUME IdsAreUnique
    PROVE  Spec => []RepeatsAreFaults
  <1>1. Init => OutlineInv /\ RepeatsAreFaults
    BY OutlineInit DEF Init, RepeatsAreFaults
  <1>2. OutlineInv /\ RepeatsAreFaults /\ [Next]_vars => OutlineInv' /\ RepeatsAreFaults'
    BY OutlineStep, RepeatedStep
  <1> QED BY <1>1, <1>2, PTL DEF Spec

-----------------------------------------------------------------------------
(* What is stored agrees.                                                    *)

\* Each thing has what it relies on; and once the workflow is completed without
\* a fault, what belongs together is together.
BasesInv ==
    /\ \A r \in Relied : r[1] \in world => r[2] \cap world # {}
    /\ outcome = "COMPLETED" /\ ~died =>
          \A n \in NamedTogether : n[1] \in world => n[2] \in world

LEMMA BasesInit ==
    ASSUME Init
    PROVE  BasesInv
  <1>1. Consistent(world)
    BY PlaceInit, HereIsOutlined DEF Init
  <1> QED BY <1>1 DEF BasesInv, Consistent, Init

LEMMA RemovedSpares ==
    ASSUME OutlineInv, BasesInv, Doing({"drop"}), world' = world \ {What},
           NEW r \in Relied, r[1] \in world'
    PROVE  r[2] \cap world' # {}
  <1>1. PICK p \in Outlines[workflow][step] : At(p) /\ ReliesOn(p)
    BY OutlinePoint DEF Doing
  <1>2. Does(p, {"drop"}) /\ Item(p) = What
    BY <1>1, AtFields
  <1>3. CASE What \in r[2]
    <2>1. r[2] \cap (p.have \ {What}) # {}
      BY <1>1, <1>2, <1>3 DEF ReliesOn
    <2> QED BY <1>1, <2>1 DEF At, Knows
  <1>4. CASE What \notin r[2]
    BY <1>4 DEF BasesInv
  <1> QED BY <1>3, <1>4

LEMMA AddedHasBase ==
    ASSUME OutlineInv, BasesInv, Doing({"write", "send"}), world' = world \cup {What},
           NEW r \in Relied, r[1] \in world'
    PROVE  r[2] \cap world' # {}
  <1>1. PICK p \in Outlines[workflow][step] : At(p) /\ ReliesOn(p)
    BY OutlinePoint DEF Doing
  <1>2. Does(p, {"write", "send"}) /\ Item(p) = What
    BY <1>1, AtFields
  <1>3. CASE r[1] \in world
    BY <1>3 DEF BasesInv
  <1>4. CASE r[1] \notin world
    <2>1. What = r[1] /\ What \notin p.have
      BY <1>1, <1>4 DEF At, Knows
    <2>2. r[2] \cap p.have # {}
      BY <1>1, <1>2, <2>1 DEF ReliesOn
    <2> QED BY <1>1, <2>2 DEF At, Knows
  <1> QED BY <1>3, <1>4

LEMMA KeptHasBase ==
    ASSUME OutlineInv, BasesInv, Begin, NEW r \in Relied, r[1] \in world'
    PROVE  r[2] \cap world' # {}
  <1>1. PICK kept : kept = Remembered(workflow, step)
    OBVIOUS
  <1>2. world' = world \cap kept /\ r[2] \subseteq kept
    BY <1>1, HereIsOutlined DEF Begin, KeepsTogether, OutlineInv
  <1> QED BY <1>2 DEF BasesInv

\* The steps by which things come and go.
LEMMA WorldChanges ==
    ASSUME [Next]_vars
    PROVE  \/ UNCHANGED world \/ Begin
           \/ Doing({"drop"}) /\ world' = world \ {What}
           \/ Doing({"write", "send"}) /\ world' = world \cup {What}
  <1>1. CASE Change
    BY <1>1 DEF Change, Made, Doing
  <1>2. CASE Caught
    BY <1>2 DEF Caught, HalfDone, Made, Doing
  <1>3. [Next]_vars /\ ~Change /\ ~Caught => world' = world \/ Begin
    BY DEF Next, GetValue, Learn, SetFlag, Use, Lack, StoreValue, Complete, Fail, AttemptFails,
           GiveUp, Fault, vars
  <1> QED BY <1>1, <1>2, <1>3

LEMMA BasesStep ==
    ASSUME OutlineInv, BasesInv, [Next]_vars
    PROVE  BasesInv'
  <1>1. ASSUME NEW r \in Relied, r[1] \in world'
        PROVE  r[2] \cap world' # {}
    <2>1. CASE UNCHANGED world
      BY <1>1, <2>1 DEF BasesInv
    <2> QED BY <1>1, <2>1, WorldChanges, RemovedSpares, AddedHasBase, KeptHasBase
  <1>2. ASSUME outcome' = "COMPLETED", ~died', NEW n \in NamedTogether, n[1] \in world'
        PROVE  n[2] \in world'
    <2>1. CASE Complete
      <3>1. PICK p \in Outlines[workflow][step] : At(p)
        BY <2>1, OutlinePoint DEF Complete
      <3>2. Succeeds(p)
        BY <2>1, <3>1, ResultFields DEF Complete
      <3>3. UNCHANGED <<world, died>>
        BY <2>1 DEF Complete, observed
      <3> QED BY <1>2, <3>1, <3>2, <3>3, BothWritten DEF OutlineInv
    <2>2. CASE ~Complete
      <3>1. outcome = "COMPLETED" /\ UNCHANGED vars
        BY <1>2, <2>2, OthersStay DEF GiveUp, place, vars
      <3> QED BY <1>2, <3>1 DEF BasesInv, vars, observed
    <2> QED BY <2>1, <2>2
  <1> QED BY <1>1, <1>2, Zenon DEF BasesInv

LEMMA BasesHold ==
    ASSUME IdsAreUnique
    PROVE  Spec => [](OutlineInv /\ BasesInv)
  <1>1. Init => OutlineInv /\ BasesInv
    BY OutlineInit, BasesInit
  <1>2. OutlineInv /\ BasesInv /\ [Next]_vars => OutlineInv' /\ BasesInv'
    BY OutlineStep, BasesStep
  <1> QED BY <1>1, <1>2, PTL DEF Spec

\* A file is in the bucket before the uploaded XML or manifest names it,
\* wherever an attempt dies.
THEOREM NamedFilesExist ==
    ASSUME IdsAreUnique
    PROVE  Spec => []NamedArePresent
  <1>1. BasesInv => NamedArePresent
    BY Zenon DEF BasesInv, Relied, NamedArePresent
  <1> QED BY <1>1, BasesHold, PTL

\* An article leaves an outbox for the published folder only when it was sent.
THEOREM MovedAreSent ==
    ASSUME IdsAreUnique
    PROVE  Spec => []MovedWhenSent
  <1>1. BasesInv => MovedWhenSent
    BY Zenon DEF BasesInv, Relied, MovedWhenSent
  <1> QED BY <1>1, BasesHold, PTL

\* Lax is asked to ingest only a version whose assets are all in the CDN.
THEOREM AssetsBeforeIngest ==
    ASSUME IdsAreUnique
    PROVE  Spec => []DepositedBeforeIngest
  <1> DEFINE request == "ingest request to Lax"
             assets == {"JPGs in CDN", "ingest assets in CDN", "assets in CDN"}
  <1>1. \A asset \in assets : <<request, {asset}>> \in Relied
    BY Zenon DEF Relied
  <1>2. ASSUME BasesInv, request \in world, NEW asset \in assets
        PROVE  asset \in world
    <2> HIDE DEF request, assets
    <2>1. PICK r : r = <<request, {asset}>>
      OBVIOUS
    <2>2. r \in Relied /\ r[1] = request /\ r[2] = {asset}
      BY <1>1, <1>2, <2>1
    <2> QED BY <1>2, <2>2 DEF BasesInv
  <1>3. BasesInv => DepositedBeforeIngest
    BY <1>2, Zenon DEF DepositedBeforeIngest
  <1> QED BY <1>3, BasesHold, PTL

\* The XML, the manifest and the names of the files: the second of what belongs
\* together is never there without the first, and both are, between attempts,
\* when no attempt has died.
LEMMA PairsAgree ==
    ASSUME OutlineInv, BasesInv
    PROVE  NamesAgree
  <1>1. ASSUME NEW n \in NamedTogether, n[2] \in world
        PROVE  n[1] \in world
    <2>1. <<n[2], {n[1]}>> \in Relied
      BY Zenon DEF Relied
    <2>2. PICK r : r = <<n[2], {n[1]}>>
      OBVIOUS
    <2>3. r \in Relied /\ r[1] = n[2] /\ r[2] = {n[1]}
      BY <2>1, <2>2
    <2> QED BY <1>1, <2>3 DEF BasesInv
  <1>2. ASSUME NEW n \in NamedTogether, Between, ~died, n[1] \in world
        PROVE  n[2] \in world
    <2>1. CASE outcome = "OPEN"
      <3>1. PICK p \in Starts(workflow, step) : Recalls(p)
        BY <1>2, <2>1 DEF OutlineInv, AttemptInv, Between
      <3>2. p.new = {}
        BY StartFields
      <3> QED BY <1>2, <3>1, <3>2 DEF Recalls
    <2>2. CASE outcome = "COMPLETED"
      BY <1>2, <2>2 DEF BasesInv
    <2>3. outcome \in {"OPEN", "COMPLETED", "FAILED"}
      BY DEF OutlineInv, TypeInv
    <2> QED BY <1>2, <2>1, <2>2, <2>3 DEF Between
  <1> QED BY <1>1, <1>2, Zenon DEF NamesAgree

THEOREM NamesStayTogether ==
    ASSUME IdsAreUnique
    PROVE  Spec => []NamesAgree
  <1>1. OutlineInv /\ BasesInv => NamesAgree
    BY PairsAgree
  <1> QED BY <1>1, BasesHold, PTL

-----------------------------------------------------------------------------
(* The look for new docmaps.                                                 *)

LEMMA FoundStep ==
    ASSUME IdsAreUnique, OutlineInv, ChangesFound, [Next]_vars
    PROVE  ChangesFound'
  <1>1. CASE Complete /\ ~died /\ workflow = "FindNewDocmaps" /\ outcome' = "COMPLETED"
    <2>1. PICK p \in Outlines[workflow][step] : At(p) /\ FindsChanges(workflow, step, p)
      BY <1>1, OutlinePoint DEF Complete
    <2>2. Succeeds(p) /\ ~p.died /\ UNCHANGED world
      BY <1>1, <2>1, ResultFields DEF Complete, At, Recalls
    <2>3. step = Len(Workflows[workflow])
      BY <1>1, PlaceStep DEF OneStepOn, OutlineInv, vars, Complete, Running
    <2>4. "docmaps to ingest" \in p.lacks \/ "IngestMeca starts" \in p.have
      BY <1>1, <2>1, <2>2, <2>3, Zenon DEF FindsChanges
    <2>5. p.lacks \cap world = {} /\ p.have \subseteq world
      BY <2>1 DEF At, Knows
    <2>6. "docmaps to ingest" \in world => "IngestMeca starts" \in world
      BY <2>4, <2>5, Zenon
    <2> QED BY <2>2, <2>6, Zenon DEF ChangesFound
  <1>2. CASE outcome' # "COMPLETED"
    BY <1>2, Zenon DEF ChangesFound
  <1>3. CASE outcome' = "COMPLETED" /\ ~Complete
    <2>1. UNCHANGED vars
      BY <1>3, OthersStay DEF GiveUp, place
    <2> QED BY <2>1, Zenon DEF ChangesFound, vars, place, observed
  <1>4. Complete => UNCHANGED <<workflow, died>>
    BY DEF Complete, observed
  <1>5. died \/ workflow # "FindNewDocmaps" => (Complete => ChangesFound')
    BY <1>4, Zenon DEF ChangesFound
  <1> QED BY <1>1, <1>2, <1>3, <1>5

\* When the look for new docmaps is over, the ingest of what has changed was
\* asked for, or an attempt died.
THEOREM IngestOfChanges ==
    ASSUME IdsAreUnique
    PROVE  Spec => []ChangesFound
  <1>1. Init => OutlineInv /\ ChangesFound
    <2>1. Init => outcome # "COMPLETED"
      BY DEF Init
    <2> QED BY <2>1, OutlineInit, Zenon DEF ChangesFound
  <1>2. OutlineInv /\ ChangesFound /\ [Next]_vars => OutlineInv' /\ ChangesFound'
    BY OutlineStep, FoundStep
  <1> QED BY <1>1, <1>2, PTL DEF Spec
=============================================================================
