------------------------- MODULE MCActivityOutlines -------------------------
(***************************************************************************)
(* The outlines of the shipped scripts in the shipped workflows, computed.  *)
(***************************************************************************)
EXTENDS MCActivities, ActivityOutlines

\* What is told apart at the start of an attempt, besides what the activity
\* removes and puts in its place; of everything else only what is so at every
\* such start.
Told == {
    "prc_status", "docmap_string", "ftp_exception", "pdf_s3_path",
    "content/article_xml_path", "MECA XML", "content XML", "generated PDF",
    "index of this run", "index of the previous run", "new_run_docmap_index_resource",
    "prev_run_docmap_index_resource", "prev_run_docmap_index_resource is this run's",
    "docmaps to ingest", "IngestMeca starts",
    "images in XML", "article images in XML",
    "XML in repository", "preprint XML in repository",
    "images", "table images", "equation images", "formula images"}

Common(sets) == {x \in UNION sets : \A s \in sets : x \in s}

Whats(ops, kinds) == {op.what : op \in {o \in ToSet(ops) : o.do \in kinds}}

\* The points of an activity with the script ops, by what is known at the ends
\* of the one before it: some steps of its attempts on.
Outline(w, ops, kept, ends) ==
    LET drops == Whats(ops, {"drop"})
        told == Told \cup UNION {Places(x) : x \in drops}
        have == Common({e.have : e \in ends}) \ drops
        values == Common({e.values : e \in ends}) \ Whats(ops, {"blank", "keep", "count"})
        blanks == Common({e.blanks : e \in ends}) \ Whats(ops, {"put", "keep", "count"})
        first == Ahead(ops, {})
        start(p, known, posted, dead) == [
            rest |-> first, flags |-> {}, new |-> {}, sent |-> posted, died |-> dead,
            facts |-> known,
            have |-> ((p.have \cap told) \cup have) \cap kept,
            lacks |-> p.lacks \cap told \cap kept,
            values |-> ((p.values \cap Told) \cup values) \cap kept,
            blanks |-> ((p.blanks \cap Told) \cup blanks) \cap kept]
        again(p) ==
            {start(p, p.facts, {}, TRUE)}
            \cup (IF MayFail(w, p) THEN {start(p, p.facts, p.sent, p.died)} ELSE {})
        starts == {start(e, {}, {}, e.died) : e \in ends}
        after[i \in Nat] ==
            IF i = 0 THEN [points |-> starts, last |-> starts]
            ELSE LET g == after[i - 1]
                     next == UNION {After(w, p) \cup again(p) : p \in g.last}
                 IN IF g.last = {} THEN g
                    ELSE [points |-> UNION {g.points, next},
                          last |-> {p \in next : p \notin g.points}]
    IN after[80].points

\* The outlines of one activity after the other.
OutlinesOf(w, keys, things) ==
    LET upTo[n \in Nat] ==
            IF n = 0 THEN
                [outlines |-> << >>,
                 ends |-> {[have |-> given, lacks |-> things \ given, values |-> keys \cap Inputs[w],
                            blanks |-> keys \ Inputs[w], died |-> FALSE] : given \in Givens[w]}]
            ELSE LET u == upTo[n - 1]
                     points == Outline(w, Script(w, n), Remembered(w, n), u.ends)
                 IN [outlines |-> Append(u.outlines, points),
                     ends |-> {p \in points : Succeeds(p)}]
    IN upTo[Len(Workflows[w])].outlines

ShippedOutlines ==
    LET keys == Keys
        things == Things
    IN [w \in DOMAIN MCWorkflows |-> OutlinesOf(w, keys, things)] @@ << >>

MCOutlines == ShippedOutlines
=============================================================================
