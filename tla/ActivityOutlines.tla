-------------------------- MODULE ActivityOutlines --------------------------
(***************************************************************************)
(* Proof outlines of the scripts: what an attempt knows at each point of    *)
(* its script about what is stored, by what it and the attempts before it   *)
(* have certainly done.  The assumptions at the end are about the outlines  *)
(* and the scripts alone, point by point; TLC evaluates them for the        *)
(* shipped workflows.  From them follows what ActivityPromises says of      *)
(* executions, in which attempts die anywhere, are made again, and forget   *)
(* (ActivityOutlinesProofs).                                                *)
(***************************************************************************)
EXTENDS ActivityPromises

CONSTANT Outlines   \* the points of every activity of every workflow

\* The answers that an attempt may rely on although it was another that got them.
Settled == {"docmap_index_url"}

\* A point: what is left of the script, the flags, the things that are there
\* and those that are not, the keys that have a value and those that have none,
\* the answers, and whether an attempt has died; while none has, also what the
\* attempts of the activity have sent and what this one may have written.
Points == [
    rest : Seq(Operations), flags : SUBSET Conditions,
    have : SUBSET (Things \cup UNION {UNION Givens[w] : w \in DOMAIN Workflows}),
    lacks : SUBSET Things, values : SUBSET Keys, blanks : SUBSET Keys,
    facts : SUBSET (Settled \X BOOLEAN), died : BOOLEAN,
    sent : SUBSET Sendings, new : SUBSET Things]

Script(w, n) == Scripts[Workflows[w][n]]

\* Where the attempts of the nth activity begin.
Starts(w, n) ==
    {p \in Outlines[w][n] :
        p.rest = Ahead(Script(w, n), {}) /\ p.flags = {} /\ p.new = {}}

\* What is known at q is known at p.
Weaker(q, p) ==
    /\ q.have \subseteq p.have /\ q.lacks \subseteq p.lacks
    /\ q.values \subseteq p.values /\ q.blanks \subseteq p.blanks
    /\ q.facts \subseteq p.facts

-----------------------------------------------------------------------------
(* From a point to the next ones. *)

Onward(p, f) ==
    LET ops == Ahead(Tail(p.rest), f)
    IN [p EXCEPT !.rest = ops, !.flags = f \cap Mentioned(ops)]

WithValue(p, x) == [p EXCEPT !.values = @ \cup {x}, !.blanks = @ \ {x}]

WithBlank(p, x) == [p EXCEPT !.values = @ \ {x}, !.blanks = @ \cup {x}]

Unsure(p, x) == [p EXCEPT !.values = @ \ {x}, !.blanks = @ \ {x}]

Answered(p, x, answer) ==
    [p EXCEPT !.facts = IF x \in Settled THEN @ \cup {<<x, answer>>} ELSE @]

Found(p, x) == [p EXCEPT !.have = @ \cup {x}]

Absent(p, x) == [p EXCEPT !.lacks = @ \cup {x}]

Tried(p, x) ==
    [p EXCEPT !.lacks = @ \ {x}, !.new = IF p.died THEN {} ELSE @ \cup {x}]

Written(p, x) == Found(Tried(p, x), x)

Posted(p, x) == [Written(p, x) EXCEPT !.sent = IF p.died THEN {} ELSE @ \cup {x}]

Doubted(p, x) == [p EXCEPT !.have = @ \ {x}]

Gone(p, x) == Absent(Doubted(p, x), x)

\* After a failure that the code catches.
Except(p) ==
    IF Head(p.rest).instead = "raise" THEN {}
    ELSE {Onward(p, p.flags \ {Head(p.rest).instead})}

\* After p when q is known once its operation has been done, or after a failure
\* that the code catches and that leaves open whether it has.
Done(p, q) == {Onward(q, p.flags)} \cup Except(p) \cup Except(q)

\* The points after p, by what its next operation does or finds.
After(w, p) ==
    LET do == Head(p.rest).do
        x == Head(p.rest).what
        yes == p.flags \cup {x}
        no == p.flags \ {x}
    IN
    CASE p.rest = << >> -> {}
      [] do = "get" ->
            (IF x \in p.blanks THEN {} ELSE {Onward(WithValue(p, x), yes)})
            \cup (IF x \in p.values THEN {} ELSE {Onward(WithBlank(p, x), no)})
      [] do = "look" ->
            (IF x \in p.lacks THEN {} ELSE {Onward(Found(p, x), yes)})
            \cup (IF x \in p.have THEN {} ELSE {Onward(Absent(p, x), no)})
      [] do = "ask" -> {Onward(p, yes), Onward(p, no)}
      [] do = "fact" ->
            (IF <<x, FALSE>> \in p.facts THEN {} ELSE {Onward(Answered(p, x, TRUE), yes)})
            \cup (IF <<x, TRUE>> \in p.facts THEN {} ELSE {Onward(Answered(p, x, FALSE), no)})
      [] do = "set" -> {Onward(p, yes)}
      [] do = "clear" -> {Onward(p, no)}
      [] do = "need" ->
            (IF x \in p.blanks THEN {} ELSE {Onward(WithValue(p, x), p.flags)})
            \cup (IF x \in p.values THEN {} ELSE Except(p))
      [] do = "input" -> IF x \in Inputs[w] THEN {Onward(p, p.flags)} ELSE Except(p)
      [] do = "read" ->
            (IF x \in p.lacks THEN {} ELSE {Onward(Found(p, x), p.flags)}) \cup Except(p)
      [] do = "put" -> Done(p, WithValue(p, x))
      [] do = "blank" -> Done(p, WithBlank(p, x))
      [] do = "keep" ->
            Done(p, IF x \in Inputs[w] THEN WithValue(p, x) ELSE WithBlank(p, x))
      [] do = "count" ->
            {Onward(Unsure(p, x), yes), Onward(Unsure(p, x), no)}
            \cup Except(p) \cup Except(Unsure(p, x))
      [] do = "write" -> {Onward(Written(p, x), p.flags)} \cup Except(Tried(p, x))
      [] do = "send" -> Done(p, Posted(p, x))
      [] do = "drop" -> {Onward(Gone(p, x), p.flags)} \cup Except(Doubted(p, x))
      [] OTHER -> {}

-----------------------------------------------------------------------------
(* How attempts end. *)

Does(p, kinds) == p.rest # << >> /\ Head(p.rest).do \in kinds

Item(p) == Head(p.rest).what

Succeeds(p) == p.rest = << >> \/ (Does(p, {"return"}) /\ Item(p) = "ActivitySuccess")

MayLack(w, p) ==
    \/ Does(p, {"need"}) /\ Item(p) \notin p.values
    \/ Does(p, {"input"}) /\ Item(p) \notin Inputs[w]
    \/ Does(p, {"read"}) /\ Item(p) \notin p.have

MayFail(w, p) ==
    \/ Does(p, {"return"}) /\ Item(p) \in {"ActivityTemporaryFailure", "raise"}
    \/ MayLack(w, p) /\ Head(p.rest).instead = "raise"

-----------------------------------------------------------------------------
(* The outlines are closed: whatever an attempt does, whether it dies, fails  *)
(* or succeeds, there is a point for what is then known.                      *)

Opened(w) ==
    \A given \in Givens[w] : \E q \in Starts(w, 1) :
        /\ q.have \subseteq given /\ q.lacks \cap given = {} /\ q.values \subseteq Inputs[w]
        /\ q.blanks \cap Inputs[w] = {} /\ q.facts = {} /\ q.sent = {} /\ ~q.died

Kept(w, n) ==
    \A q \in Starts(w, n) : q.have \cup q.values \cup q.blanks \subseteq Remembered(w, n)

Goes(w, n) == \A p \in Outlines[w][n] : After(w, p) \subseteq Outlines[w][n]

Restarts(w, n) ==
    LET starts == Starts(w, n)
    IN \A p \in Outlines[w][n] :
          /\ \E q \in starts : Weaker(q, p) /\ q.died
          /\ MayFail(w, p) =>
                \E q \in starts : Weaker(q, p) /\ q.died = p.died /\ q.sent = p.sent

GoesOn(w, n) ==
    n < Len(Workflows[w]) =>
        LET starts == Starts(w, n + 1)
        IN \A p \in Outlines[w][n] : Succeeds(p) =>
              \E q \in starts :
                  Weaker(q, p) /\ q.died = p.died /\ q.facts = {} /\ q.sent = {}

ASSUME OutlinesAssumption ==
    \A w \in DOMAIN Workflows :
        /\ Opened(w)
        /\ \A n \in DOMAIN Workflows[w] :
              /\ Outlines[w][n] \subseteq Points
              /\ Kept(w, n) /\ Goes(w, n) /\ Restarts(w, n) /\ GoesOn(w, n)

-----------------------------------------------------------------------------
(* What the scripts do at their points. *)

\* What is there only while something of a set is there.
Relied ==
    NamedFiles \cup SentFor
    \cup {<<n[2], {n[1]}>> : n \in NamedTogether}
    \cup {<<"ingest request to Lax", {asset}>> :
            asset \in {"JPGs in CDN", "ingest assets in CDN", "assets in CDN"}}

\* A value that is used is known to be there.
UsesValues(w, p) ==
    /\ Does(p, {"need"}) => Item(p) \in p.values \cup UnsetByConfiguration
    /\ Does(p, {"input"}) => Item(p) \in Inputs[w] \cup UnsetByConfiguration

\* An object that is read is known to be there.
ReadsObjects(p) ==
    Does(p, {"read"}) => Item(p) \in p.have \/ (p.died /\ Item(p) \in GoneOnRetry)

\* What has been sent is not sent again.
SendsOnce(p) ==
    Does(p, {"send"}) /\ ~p.died => Item(p) \notin p.sent \ SentAgain

\* The old is dropped when there is a new one.
CopiesFirst(p) ==
    Does(p, {"drop"}) =>
        \A m \in MovedTo : m[1] = Item(p) =>
            \E copy \in Places(m[1]) : copy # m[1] /\ copy \in p.have

\* What something relies on is there first and is dropped last.
ReliesOn(p) ==
    \A r \in Relied :
        /\ Does(p, {"write", "send"}) /\ Item(p) = r[1] =>
                Item(p) \in p.have \/ r[2] \cap p.have # {}
        /\ Does(p, {"drop"}) /\ Item(p) \in r[2] => r[2] \cap (p.have \ {Item(p)}) # {}

\* What was written is also in the second place when the attempt ends.
WritesBoth(w, p) ==
    \A n \in NamedTogether :
        /\ Does(p, {"drop"}) /\ Item(p) = n[2] => n[1] \in p.new \/ p.died
        /\ n[1] \in p.new /\ (Succeeds(p) \/ MayFail(w, p)) => n[2] \in p.have

\* When the look for new docmaps ends, there are none or their ingest was asked
\* for.
FindsChanges(w, n, p) ==
    /\ w = "FindNewDocmaps" /\ n = Len(Workflows[w]) /\ Succeeds(p) /\ ~p.died
    => "docmaps to ingest" \in p.lacks \/ "IngestMeca starts" \in p.have

\* What is remembered or given agrees.
Consistent(things) ==
    /\ \A r \in Relied : r[1] \in things => r[2] \cap things # {}
    /\ \A n \in NamedTogether : n[1] \in things => n[2] \in things

KeepsTogether(kept) ==
    /\ \A r \in Relied : r[1] \in kept => r[2] \subseteq kept
    /\ \A n \in NamedTogether : n[1] \in kept => n[2] \in kept

\* What an attempt may be said to miss is a value, an object or neither.
ASSUME MissingAssumption ==
    Values \cap Objects = {} /\ {"nothing", "error"} \cap (Values \cup Objects) = {}

ASSUME PointsAssumption ==
    \A w \in DOMAIN Workflows :
        /\ \A given \in Givens[w] : Consistent(given)
        /\ \A n \in DOMAIN Workflows[w] :
              /\ KeepsTogether(Remembered(w, n))
              /\ \A p \in Outlines[w][n] :
                    /\ UsesValues(w, p) /\ ReadsObjects(p) /\ SendsOnce(p)
                    /\ CopiesFirst(p) /\ ReliesOn(p) /\ WritesBoth(w, p)
                    /\ FindsChanges(w, n, p)
=============================================================================
