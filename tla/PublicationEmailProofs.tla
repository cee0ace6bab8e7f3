----------------------- MODULE PublicationEmailProofs -----------------------
(***************************************************************************)
(* Proofs about PublicationEmail, for any files and any number of faults.   *)
(***************************************************************************)
EXTENDS PublicationEmail, TLAPS, FiniteSetTheorems

-----------------------------------------------------------------------------
(* The inductive invariants.                                                 *)

\* From process_articles on the run knows a file for each DOI it has found.
NamesFound ==
    phase \in {"sending", "moving"} =>
        /\ DOMAIN names = DoisOf(found)
        /\ \A d \in DoisOf(found) : Doi[names[d]] = d

\* A file that is deleted next has been copied to where it belongs.
CopiesMade ==
    \A move \in copied :
        move[1] \in IF move[2] = "published" THEN published ELSE notPublished

\* What a run has not done yet.
NotYet ==
    /\ phase = "idle" => found = {}
    /\ phase \in {"idle", "parsing"} => handled = {} /\ authorless = {}
    /\ phase # "moving" => toMove = {}

TypeInv == TypeOK /\ NamesFound /\ CopiesMade /\ NotYet

\* Files of one DOI are versions of one article, for which the rules raise or
\* do not.
VersionsAgree ==
    \A f, g \in Files :
        Doi[f] = Doi[g] =>
            /\ Insight(f) <=> Insight(g)
            /\ Related[f] = Related[g]
            /\ Rule[f] = "refused" <=> Rule[g] = "refused"

\* An insight about an article for which the rules raise.
AboutRefused(i) == \E r \in Files : Doi[r] = Related[i] /\ Rule[r] = "refused"

\* An article that a mail was sent or tried for, or the one it is about; or one
\* that was paired with an article for which the rules raise.
Mailed(f) ==
    \/ f \in told \cup failed
    \/ \E r \in Files : Doi[r] = Related[f] /\ r \in told \cup failed
    \/ AboutRefused(f)

\* A file stands for all of its DOI: all are mailed or none.
PreparedByDoi ==
    \A f \in toMail \cup handled, g \in found :
        Doi[g] = Doi[f] => g \in toMail \cup handled

\* A paired insight has a research article whose mail names one.
PairedInMail ==
    \A i \in paired :
        AboutRefused(i) \/ \E r \in DOMAIN about :
                               r \in toMail \cup handled /\ Doi[r] = Related[i]

\* That mail has recipients.
AboutIsMailed == \A r \in DOMAIN about : r \in handled => r \in told \cup failed

HandledIsMailed ==
    \A f \in handled : f \in told \cup failed \/ Doi[f] \in authorless

MailInv ==
    /\ phase = "sending" =>
           PreparedByDoi /\ PairedInMail /\ AboutIsMailed /\ HandledIsMailed
    /\ \A move \in toMove : move[2] = "published" => Mailed(move[1])
    /\ PublishedWasMailed

-----------------------------------------------------------------------------
(* Types.                                                                    *)

LEMMA EndRunType ==
    ASSUME EndRun
    PROVE  /\ phase' = "idle"
           /\ found' = {} /\ unsent' = {} /\ paired' = {} /\ toMail' = {}
           /\ handled' = {} /\ authorless' = {} /\ toMove' = {} /\ copied' = {}
           /\ DOMAIN names' = {} /\ DOMAIN about' = {}
           /\ about' \in [DOMAIN about' -> paired']
  BY DEF EndRun

\* The map from DOIs to files has a file of its DOI for each.
LEMMA NamesOf ==
    ASSUME NEW files, NEW n \in Names(files)
    PROVE  /\ DOMAIN n = DoisOf(files)
           /\ \A d \in DoisOf(files) : n[d] \in files /\ Doi[n[d]] = d
  <1>1. PICK fs \in OneOfEach(files) :
            n = [d \in DoisOf(files) |-> CHOOSE f \in fs : Doi[f] = d]
    BY DEF Names
  <1>2. fs \subseteq files /\ \A d \in DoisOf(files) : \E f \in fs : Doi[f] = d
    BY DEF OneOfEach, DoisOf
  <1> QED BY <1>1, <1>2

\* Every article that insights are paired with names one of them, in one file.
LEMMA AboutsOf ==
    ASSUME NEW a \in Abouts
    PROVE  /\ a \in [DOMAIN a -> PairedInternally]
           /\ \A r \in DOMAIN a : /\ r \in Approved /\ ~Insight(r)
                                  /\ Related[a[r]] = Doi[r]
           /\ \A i \in PairedInternally : \E r \in DOMAIN a : Doi[r] = Related[i]
           /\ \A r, s \in DOMAIN a : Doi[r] = Doi[s] => r = s
  <1> DEFINE research == {r \in Approved : ~Insight(r) /\
                             \E i \in PairedInternally : Related[i] = Doi[r]}
  <1>1. PICK rs \in OneOfEach(research) : a \in [rs -> PairedInternally]
    BY DEF Abouts
  <1>2. DOMAIN a = rs /\ rs \subseteq research
    BY <1>1 DEF OneOfEach
  <1>3. \A r \in DOMAIN a : Related[a[r]] = Doi[r]
    BY DEF Abouts
  <1>4. ASSUME NEW i \in PairedInternally PROVE \E r \in rs : Doi[r] = Related[i]
    <2>1. PICK s \in Approved : ~Insight(s) /\ Doi[s] = Related[i]
      BY DEF PairedInternally
    <2>2. Doi[s] \in DoisOf(research)
      BY <2>1 DEF DoisOf
    <2>3. Doi[s] \in DoisOf(rs)
      BY <2>2 DEF OneOfEach
    <2> QED BY <2>1, <2>3 DEF DoisOf
  <1>5. \A r, s \in rs : Doi[r] = Doi[s] => r = s
    BY DEF OneOfEach
  <1> QED BY <1>1, <1>2, <1>3, <1>4, <1>5

\* What process_articles sets up comes from what was found.
LEMMA ProcessedTypes ==
    ASSUME TypeOK, NEW built, NEW a \in Abouts
    PROVE  /\ Unsent \subseteq found /\ Approved \subseteq found
           /\ PairedInternally \subseteq Approved /\ Prepared(built) \subseteq Approved
           /\ DOMAIN a \subseteq Approved /\ a \in [DOMAIN a -> PairedInternally]
  <1>1. /\ Unsent \subseteq found /\ Approved \subseteq found
        /\ PairedInternally \subseteq Approved /\ Prepared(built) \subseteq Approved
    BY DEF Unsent, Approved, PairedInternally, Prepared
  <1> QED BY <1>1, AboutsOf

LEMMA FaultsOfProcessing ==
    ASSUME TypeOK, NEW built, ProcessArticles(built)
    PROVE  faults' \in 0 .. MaxFaults
  <1>1. IsFiniteSet((found \cap Buildable) \ built)
    <2>1. (found \cap Buildable) \ built \subseteq Files
      BY DEF TypeOK
    <2> QED BY <2>1, FilesAssumption, FS_Subset
  <1>2. Cardinality((found \cap Buildable) \ built) \in Nat
    BY <1>1, FS_CardinalityType
  <1>3. MaxFaults \in Nat
    BY FilesAssumption
  <1>4. faults \in Nat
    BY <1>3 DEF TypeOK
  <1>5. /\ faults' = faults + Cardinality((found \cap Buildable) \ built)
        /\ faults' <= MaxFaults
    BY DEF ProcessArticles
  <1> QED BY <1>2, <1>3, <1>4, <1>5

LEMMA ProcessType ==
    ASSUME TypeInv, NEW built, ProcessArticles(built)
    PROVE  TypeInv'
  <1>1. faults' \in 0 .. MaxFaults
    BY FaultsOfProcessing DEF TypeInv
  <1>2. UNCHANGED folders /\ UNCHANGED observers /\ phase = "parsing"
    BY DEF ProcessArticles
  <1>3. CASE EndRun
    BY <1>1, <1>2, <1>3, EndRunType
    DEF TypeInv, TypeOK, NamesFound, CopiesMade, NotYet, folders, observers
  <1>4. CASE ~EndRun
    <2>1. /\ phase' = "sending" /\ names' \in Names(found)
          /\ unsent' = Unsent /\ paired' = PairedInternally /\ about' \in Abouts
          /\ toMail' = Prepared(built)
          /\ UNCHANGED <<found, handled, authorless, toMove, copied>>
      BY <1>4 DEF ProcessArticles
    <2>2. /\ Unsent \subseteq found /\ Approved \subseteq found
          /\ PairedInternally \subseteq Approved /\ Prepared(built) \subseteq Approved
          /\ DOMAIN names' = DoisOf(found) /\ \A d \in DoisOf(found) : names'[d] \in found
          /\ \A d \in DoisOf(found) : Doi[names'[d]] = d
          /\ DOMAIN about' \subseteq Approved
          /\ about' \in [DOMAIN about' -> PairedInternally]
      BY <2>1, ProcessedTypes, NamesOf DEF TypeInv
    <2> QED BY <1>1, <1>2, <2>1, <2>2
      DEF TypeInv, TypeOK, NamesFound, CopiesMade, NotYet, folders, observers, DoisOf
  <1> QED BY <1>3, <1>4

\* A mail tells of articles that were found.
LEMMA TellsOfFound ==
    ASSUME TypeOK, NEW f \in toMail
    PROVE  Tells(f) \subseteq found /\ f \in Tells(f) /\ f \in found
  BY DEF TypeOK, Tells

LEMMA SendingType ==
    ASSUME TypeInv, NEW f \in toMail, LeaveForLater(f) \/ SendEmail(f) \/ FailToSend(f)
    PROVE  TypeInv'
  <1>1. Tells(f) \subseteq found /\ f \in found /\ Tells(f) \subseteq Files
    BY TellsOfFound DEF TypeInv, TypeOK
  <1>2. Doi[f] \in DoisOf(found)
    BY <1>1 DEF DoisOf
  <1>3. faults' \in 0 .. MaxFaults
    <2>1. MaxFaults \in Nat /\ faults \in 0 .. MaxFaults
      BY FilesAssumption DEF TypeInv, TypeOK
    <2> QED BY <2>1 DEF LeaveForLater, SendEmail, FailToSend
  <1>4. /\ phase = "sending"
        /\ UNCHANGED <<folders, phase, found, names, unsent, paired, about, toMove, copied, torn>>
        /\ toMail' \subseteq toMail /\ handled' = handled \cup {f}
        /\ authorless' \subseteq authorless \cup {Doi[f]}
        /\ told' \cup failed' \cup again' \subseteq told \cup failed \cup again \cup Tells(f)
    BY DEF LeaveForLater, SendEmail, FailToSend, observers
  <1>5. /\ UNCHANGED <<outbox, published, notPublished>> /\ DoisOf(found)' = DoisOf(found)
    BY <1>4 DEF folders, DoisOf
  <1> QED BY <1>1, <1>2, <1>3, <1>4, <1>5 DEF TypeInv, TypeOK, NamesFound, CopiesMade, NotYet

LEMMA CleanType ==
    ASSUME TypeInv, CleanOutbox
    PROVE  TypeInv'
  <1>1. phase = "sending" /\ phase' = "moving" /\ toMail = {}
        /\ UNCHANGED <<folders, found, names, unsent, paired, about, toMail, handled,
                   authorless, copied, observers, faults>>
    BY DEF CleanOutbox
  <1>2. toMove' \subseteq Moves
    <2>1. \A d \in DoisOf(handled) \cup DoisOf(paired) \cup DoisOf(unsent) :
              names[d] \in Files
      BY <1>1 DEF TypeInv, TypeOK, NamesFound, DoisOf
    <2> QED BY <2>1 DEF CleanOutbox, Moves
  <1>3. copied' = {}
    BY <1>1 DEF TypeInv, TypeOK, NotYet
  <1> QED BY <1>1, <1>2, <1>3
    DEF TypeInv, TypeOK, NamesFound, CopiesMade, NotYet, folders, observers, DoisOf

LEMMA MoveType ==
    ASSUME TypeInv, NEW move \in toMove, CopyResource(move) \/ DeleteResource(move)
    PROVE  TypeInv'
  <1>1. /\ move \in Moves /\ move[1] \in Files /\ move[2] \in {"published", "not_published"}
        /\ phase = "moving"
    BY DEF TypeInv, TypeOK, Moves, CopyResource, DeleteResource, IsNextMove
  <1>2. UNCHANGED <<phase, found, names, unsent, paired, about, toMail, handled, authorless,
                    observers, faults>>
    BY DEF CopyResource, DeleteResource
  <1>3. CASE CopyResource(move)
    <2>1. /\ copied' = {move} /\ toMove' = toMove /\ outbox' = outbox
          /\ published' = IF move[2] = "published" THEN published \cup {move[1]} ELSE published
          /\ notPublished' = IF move[2] = "published" THEN notPublished
                             ELSE notPublished \cup {move[1]}
      BY <1>3 DEF CopyResource
    <2> QED BY <1>1, <1>2, <2>1
      DEF TypeInv, TypeOK, NamesFound, CopiesMade, NotYet, observers, DoisOf
  <1>4. CASE DeleteResource(move)
    <2>1. /\ copied' = {} /\ toMove' = toMove \ {move} /\ outbox' = outbox \ {move[1]}
          /\ published' = published /\ notPublished' = notPublished
      BY <1>4 DEF DeleteResource
    <2> QED BY <1>1, <1>2, <2>1
      DEF TypeInv, TypeOK, NamesFound, CopiesMade, NotYet, observers, DoisOf
  <1> QED BY <1>3, <1>4

LEMMA EndType ==
    ASSUME TypeInv, Finish \/ BreakOff
    PROVE  TypeInv'
  <1>1. /\ EndRun /\ UNCHANGED <<folders, told, failed, again>>
        /\ torn' \subseteq torn \cup told
    BY DEF Finish, BreakOff, observers
  <1>2. faults' \in 0 .. MaxFaults
    <2>1. MaxFaults \in Nat /\ faults \in 0 .. MaxFaults
      BY FilesAssumption DEF TypeInv, TypeOK
    <2> QED BY <2>1 DEF Finish, BreakOff
  <1>3. /\ published' = published /\ notPublished' = notPublished /\ outbox' = outbox
    BY <1>1 DEF folders
  <1> QED BY <1>1, <1>2, <1>3, EndRunType DEF TypeInv, TypeOK, NamesFound, CopiesMade, NotYet

LEMMA TypeStep ==
    ASSUME TypeInv, [Next]_vars
    PROVE  TypeInv'
  <1>1. CASE UNCHANGED vars
    BY <1>1
    DEF vars, folders, local, observers, TypeInv, TypeOK, NamesFound, CopiesMade, NotYet, DoisOf
  <1>2. ASSUME NEW f \in Files, Schedule(f) PROVE TypeInv'
    BY <1>2 DEF Schedule, local, observers, TypeInv, TypeOK, NamesFound, CopiesMade, NotYet, DoisOf
  <1>3. CASE Download
    <2>1. /\ found' = outbox /\ phase = "idle" /\ phase' = "parsing"
          /\ UNCHANGED <<folders, names, unsent, paired, about, toMail, handled,
                         authorless, toMove, copied, observers, faults>>
      BY <1>3 DEF Download
    <2> QED BY <2>1 DEF folders, observers, TypeInv, TypeOK, NamesFound, CopiesMade, NotYet, DoisOf
  <1>4. ASSUME NEW built, ProcessArticles(built) PROVE TypeInv'
    BY <1>4, ProcessType
  <1>5. ASSUME NEW f \in toMail, LeaveForLater(f) \/ SendEmail(f) \/ FailToSend(f)
        PROVE  TypeInv'
    BY <1>5, SendingType
  <1>6. CASE CleanOutbox
    BY <1>6, CleanType
  <1>7. ASSUME NEW move \in toMove, CopyResource(move) \/ DeleteResource(move)
        PROVE  TypeInv'
    BY <1>7, MoveType
  <1>8. CASE Finish \/ BreakOff
    BY <1>8, EndType
  <1> QED BY <1>1, <1>2, <1>3, <1>4, <1>5, <1>6, <1>7, <1>8 DEF Next, RunStep

LEMMA TypeInvHolds == Spec => []TypeInv
  <1>1. Init => TypeInv
    <2> SUFFICES ASSUME Init PROVE TypeInv
      OBVIOUS
    <2>1. MaxFaults \in Nat
      BY FilesAssumption
    <2>2. about \in [DOMAIN about -> paired] /\ DOMAIN about = {} /\ DOMAIN names = {}
      BY DEF Init
    <2> QED BY <2>1, <2>2 DEF Init, TypeInv, TypeOK, NamesFound, CopiesMade, NotYet
  <1> QED BY <1>1, TypeStep, PTL DEF Spec

\* All variables hold values of their kinds, and a run sees to no article that
\* it has not found.
THEOREM TypeCorrect == Spec => []TypeOK
  <1>1. TypeInv => TypeOK
    BY DEF TypeInv
  <1> QED BY <1>1, TypeInvHolds, PTL

-----------------------------------------------------------------------------
(* Moving.                                                                   *)

LEMMA MoveKeeps ==
    ASSUME TypeInv, [Next]_vars
    PROVE  /\ outbox \ outbox' \subseteq published' \cup notPublished'
           /\ published \subseteq published' /\ notPublished \subseteq notPublished'
  <1>1. CASE UNCHANGED <<published, notPublished>> /\ outbox \subseteq outbox'
    BY <1>1
  <1>2. ASSUME NEW move \in toMove, CopyResource(move)
        PROVE  /\ outbox' = outbox
               /\ published \subseteq published' /\ notPublished \subseteq notPublished'
    BY <1>2 DEF CopyResource
  <1>3. ASSUME NEW move \in toMove, DeleteResource(move)
        PROVE  /\ outbox \ outbox' \subseteq published' \cup notPublished'
               /\ published' = published /\ notPublished' = notPublished
    <2>1. /\ move \in copied /\ outbox' = outbox \ {move[1]}
          /\ published' = published /\ notPublished' = notPublished
      BY <1>3 DEF DeleteResource
    <2>2. move[1] \in published \cup notPublished
      BY <2>1 DEF TypeInv, CopiesMade
    <2> QED BY <2>1, <2>2
  <1>4. ASSUME NEW f \in Files, Schedule(f)
        PROVE  UNCHANGED <<published, notPublished>> /\ outbox \subseteq outbox'
    BY <1>4 DEF Schedule
  <1>5. ASSUME \/ UNCHANGED vars \/ Download \/ CleanOutbox \/ Finish \/ BreakOff
               \/ \E built : ProcessArticles(built)
               \/ \E f \in toMail : LeaveForLater(f) \/ SendEmail(f) \/ FailToSend(f)
        PROVE  UNCHANGED folders
    BY <1>5 DEF vars, Download, CleanOutbox, Finish, BreakOff, ProcessArticles,
                LeaveForLater, SendEmail, FailToSend
  <1> QED BY <1>1, <1>2, <1>3, <1>4, <1>5 DEF Next, RunStep, folders

\* An article that waits is moved or goes on waiting, whatever breaks off when.
THEOREM NothingIsLost == Spec => NothingLost
  <1>1. TypeInv /\ [Next]_vars =>
            [/\ outbox \ outbox' \subseteq published' \cup notPublished'
             /\ published \subseteq published' /\ notPublished \subseteq notPublished']_vars
    BY MoveKeeps
  <1> QED BY <1>1, TypeInvHolds, PTL DEF Spec, NothingLost

-----------------------------------------------------------------------------
(* Mails before moves.                                                       *)

\* Which articles are prepared is a matter of their DOI.
LEMMA PreparedGoesByDoi ==
    ASSUME TypeOK, VersionsAgree, NEW built,
           NEW f \in Prepared(built), NEW g \in found, Doi[g] = Doi[f]
    PROVE  g \in Prepared(built)
  <1>1. f \in Files /\ g \in Files /\ f \in Approved /\ g \in Approved
    BY DEF TypeOK, Prepared, Approved
  <1>2. Rule[g] # "refused"
    BY <1>1 DEF Prepared, VersionsAgree
  <1> QED BY <1>1, <1>2 DEF Prepared

\* The research article of a paired insight is prepared, and its mail names
\* an insight, unless the rules raise for it.
LEMMA ResearchIsPrepared ==
    ASSUME TypeOK, VersionsAgree, NEW built,
           NEW a \in Abouts, NEW i \in PairedInternally
    PROVE  \/ AboutRefused(i)
           \/ \E r \in DOMAIN a : r \in Prepared(built) /\ Doi[r] = Related[i]
  <1>1. PICK r \in DOMAIN a : Doi[r] = Related[i]
    BY AboutsOf
  <1>2. r \in Approved /\ r \in Files /\ ~Insight(r)
    BY AboutsOf DEF Approved, TypeOK
  <1>3. CASE Rule[r] = "refused"
    BY <1>1, <1>2, <1>3 DEF AboutRefused
  <1>4. CASE Rule[r] # "refused"
    <2>1. \A j \in Approved : Insight(j) => Doi[j] # Doi[r]
      BY <1>2 DEF VersionsAgree, Approved, TypeOK
    <2>2. r \in Prepared(built)
      BY <1>2, <1>4, <2>1 DEF Prepared, DoisOf
    <2> QED BY <1>1, <2>2
  <1> QED BY <1>3, <1>4

LEMMA ProcessMail ==
    ASSUME TypeInv, VersionsAgree, MailInv, NEW built,
           ProcessArticles(built), ~EndRun
    PROVE  MailInv'
  <1>1. /\ phase' = "sending" /\ about' \in Abouts
        /\ paired' = PairedInternally /\ toMail' = Prepared(built)
        /\ UNCHANGED <<found, handled, authorless, toMove, published, told, failed>>
    BY DEF ProcessArticles, folders, observers
  <1>2. handled = {} /\ authorless = {} /\ toMove = {}
    BY DEF TypeInv, NotYet, ProcessArticles
  <1>3. PreparedByDoi'
    BY <1>1, <1>2, PreparedGoesByDoi DEF PreparedByDoi, TypeInv
  <1>4. PairedInMail'
    BY <1>1, <1>2, ResearchIsPrepared DEF PairedInMail, TypeInv
  <1>5. AboutIsMailed'
    BY <1>1, <1>2 DEF AboutIsMailed
  <1>6. HandledIsMailed'
    BY <1>1, <1>2 DEF HandledIsMailed
  <1> QED BY <1>1, <1>2, <1>3, <1>4, <1>5, <1>6 DEF MailInv, PublishedWasMailed

LEMMA SendingMail ==
    ASSUME TypeInv, MailInv, NEW f \in toMail,
           LeaveForLater(f) \/ SendEmail(f) \/ FailToSend(f)
    PROVE  MailInv'
  <1>1. /\ phase = "sending" /\ phase' = "sending" /\ toMove = {}
        /\ UNCHANGED <<found, paired, about, toMove, published>>
        /\ toMail' = toMail \ {f} /\ handled' = handled \cup {f}
        /\ toMail' \cup handled' = toMail \cup handled
        /\ told \cup failed \subseteq told' \cup failed'
    BY DEF LeaveForLater, SendEmail, FailToSend, folders, observers, TypeInv, NotYet
  <1>2. f \in Tells(f)
    BY DEF Tells
  <1>3. \/ f \in told' \cup failed' /\ authorless' = authorless
        \/ f \notin DOMAIN about /\ authorless' = authorless \cup {Doi[f]}
    BY <1>2 DEF LeaveForLater, SendEmail, FailToSend, HasRecipients
  <1>4. PreparedByDoi' /\ PairedInMail'
    BY <1>1 DEF MailInv, PreparedByDoi, PairedInMail
  <1>5. AboutIsMailed'
    BY <1>1, <1>3 DEF MailInv, AboutIsMailed
  <1>6. HandledIsMailed'
    BY <1>1, <1>3 DEF MailInv, HandledIsMailed
  <1>7. PublishedWasMailed'
    BY <1>1 DEF MailInv, PublishedWasMailed
  <1> QED BY <1>1, <1>4, <1>5, <1>6, <1>7 DEF MailInv

LEMMA CleanMail ==
    ASSUME TypeInv, VersionsAgree, MailInv, CleanOutbox
    PROVE  MailInv'
  <1>1. /\ phase = "sending" /\ phase' = "moving" /\ toMail = {}
        /\ UNCHANGED <<published, told, failed>>
        /\ toMove' =
             {<<names[d], "published">> :
                 d \in (DoisOf(handled) \ authorless) \cup DoisOf(paired)}
             \cup {<<names[d], "not_published">> : d \in DoisOf(unsent) \ authorless}
    BY DEF CleanOutbox, folders, observers
  <1>2. PreparedByDoi /\ PairedInMail /\ AboutIsMailed /\ HandledIsMailed
    BY <1>1 DEF MailInv
  <1>3. /\ found \subseteq Files /\ handled \subseteq found /\ paired \subseteq found
        /\ \A d \in DoisOf(found) : names[d] \in found /\ Doi[names[d]] = d
    BY <1>1 DEF TypeInv, TypeOK, NamesFound
  <1>4. ASSUME NEW d \in DoisOf(handled) \ authorless PROVE Mailed(names[d])
    <2>1. PICK f \in handled : d = Doi[f]
      BY DEF DoisOf
    <2>2. names[d] \in found /\ Doi[names[d]] = Doi[f] /\ Doi[f] \notin authorless
      BY <1>3, <1>4, <2>1 DEF DoisOf
    <2>3. names[d] \in handled
      BY <1>1, <1>2, <2>2 DEF PreparedByDoi
    <2> QED BY <1>2, <2>2, <2>3 DEF HandledIsMailed, Mailed
  <1>5. ASSUME NEW d \in DoisOf(paired) PROVE Mailed(names[d])
    <2>1. PICK i \in paired : d = Doi[i]
      BY DEF DoisOf
    <2>2. names[d] \in found /\ Doi[names[d]] = Doi[i]
      BY <1>3, <2>1 DEF DoisOf
    <2>3. Related[names[d]] = Related[i]
      BY <1>3, <2>1, <2>2 DEF VersionsAgree
    <2>4. CASE AboutRefused(i)
      BY <2>3, <2>4 DEF Mailed, AboutRefused
    <2>5. CASE ~AboutRefused(i)
      <3>1. PICK r \in DOMAIN about : r \in handled /\ Doi[r] = Related[i]
        BY <1>1, <1>2, <2>5 DEF PairedInMail
      <3>2. r \in told \cup failed /\ r \in Files
        BY <1>2, <1>3, <3>1 DEF AboutIsMailed
      <3> QED BY <2>3, <3>1, <3>2 DEF Mailed
    <2> QED BY <2>4, <2>5
  <1>6. \A move \in toMove' : move[2] = "published" => Mailed(move[1])
    BY <1>1, <1>4, <1>5
  <1>7. \A f : Mailed(f)' <=> Mailed(f)
    BY <1>1 DEF Mailed
  <1> QED BY <1>1, <1>6, <1>7 DEF MailInv, PublishedWasMailed, Mailed

LEMMA MailStep ==
    ASSUME TypeInv, VersionsAgree, MailInv, [Next]_vars
    PROVE  MailInv'
  <1>1. ASSUME NEW built, ProcessArticles(built), EndRun PROVE MailInv'
    BY <1>1, EndRunType
    DEF ProcessArticles, MailInv, PublishedWasMailed, folders, observers
  <1>2. ASSUME NEW built, ProcessArticles(built), ~EndRun PROVE MailInv'
    BY <1>2, ProcessMail
  <1>3. ASSUME NEW f \in toMail, LeaveForLater(f) \/ SendEmail(f) \/ FailToSend(f)
        PROVE  MailInv'
    BY <1>3, SendingMail
  <1>4. CASE CleanOutbox
    BY <1>4, CleanMail
  <1>5. ASSUME NEW move \in toMove, CopyResource(move) \/ DeleteResource(move)
        PROVE  MailInv'
    <2>1. /\ phase' = "moving" /\ toMove' \subseteq toMove
          /\ UNCHANGED <<told, failed>>
          /\ published' \subseteq published \cup
                 (IF move[2] = "published" THEN {move[1]} ELSE {})
      BY <1>5 DEF CopyResource, DeleteResource, IsNextMove, observers
    <2>2. \A f : Mailed(f)' <=> Mailed(f)
      BY <2>1 DEF Mailed
    <2>3. \A f \in published' : Mailed(f)
      BY <1>5, <2>1 DEF MailInv, PublishedWasMailed, Mailed, AboutRefused
    <2>4. PublishedWasMailed'
      BY <2>1, <2>2, <2>3 DEF PublishedWasMailed, Mailed, AboutRefused
    <2> QED BY <2>1, <2>2, <2>4 DEF MailInv
  <1>6. CASE Finish \/ BreakOff
    BY <1>6, EndRunType
    DEF Finish, BreakOff, MailInv, PublishedWasMailed, folders, observers
  <1>7. CASE Download \/ \E f \in Files : Schedule(f)
    <2>1. /\ phase' # "sending" \/ phase' = phase
          /\ UNCHANGED <<published, told, failed, paired, about, toMail, handled,
                         authorless, toMove>>
          /\ phase' = "sending" => UNCHANGED found
      BY <1>7 DEF Download, Schedule, folders, local, observers
    <2> QED BY <2>1 DEF MailInv, PublishedWasMailed, Mailed, PreparedByDoi,
                        PairedInMail, AboutIsMailed, HandledIsMailed
  <1>8. CASE UNCHANGED vars
    BY <1>8 DEF vars, folders, local, observers, MailInv, PublishedWasMailed, Mailed,
                PreparedByDoi, PairedInMail, AboutIsMailed, HandledIsMailed
  <1> QED BY <1>1, <1>2, <1>3, <1>4, <1>5, <1>6, <1>7, <1>8 DEF Next, RunStep

\* Whatever the outbox holds and whenever runs break off, an article is
\* published only after a mail about it, or one that could not be sent, except
\* for the insight about an article for which the rules raise.
THEOREM PublishedIsMailed ==
    ASSUME VersionsAgree
    PROVE  Spec => []PublishedWasMailed
  <1>1. Init => MailInv
    BY DEF Init, MailInv, PublishedWasMailed
  <1>2. TypeInv /\ MailInv /\ [Next]_vars => MailInv'
    BY MailStep, VersionsAgree
  <1>3. MailInv => PublishedWasMailed
    BY DEF MailInv
  <1> QED BY <1>1, <1>2, <1>3, TypeInvHolds, PTL DEF Spec

-----------------------------------------------------------------------------
(* Second mails.                                                             *)

AllAlone == \A f, g \in Files : Doi[f] = Doi[g] => f = g

Fresh == told \ torn

\* No article disappears from the folders.
Kept == found \cup told \subseteq outbox \cup published \cup notPublished

\* The mails of a run tell of different articles.
MailsDiffer ==
    /\ toMail \cap paired = {} /\ toMail \cap handled = {}
    /\ \A r \in DOMAIN about : Related[about[r]] = Doi[r]
    /\ authorless \subseteq DoisOf(handled)

\* What a run has told of it will move, and it tells of nothing else again.
FreshWhileSending ==
    \A f \in Fresh :
        /\ f \notin toMail
        /\ \A r \in toMail : r \in DOMAIN about => about[r] # f
        /\ f \in outbox => f \in paired \/ (f \in handled /\ Doi[f] \notin authorless)

RepeatInv ==
    /\ again \subseteq torn
    /\ Kept
    /\ phase \in {"idle", "parsing"} => Fresh \cap (outbox \cup found) = {}
    /\ phase = "sending" => MailsDiffer /\ FreshWhileSending
    /\ phase = "moving" => \A f \in Fresh : f \in outbox => <<f, "published">> \in toMove

LEMMA ProcessFresh ==
    ASSUME TypeInv, RepeatInv, NEW built, ProcessArticles(built), ~EndRun
    PROVE  RepeatInv'
  <1>1. /\ phase = "parsing" /\ phase' = "sending" /\ about' \in Abouts
        /\ paired' = PairedInternally /\ toMail' = Prepared(built)
        /\ UNCHANGED <<outbox, published, notPublished, found, handled, authorless,
                       told, again, torn>>
    BY DEF ProcessArticles, folders, observers
  <1>2. handled = {} /\ authorless = {}
    BY <1>1 DEF TypeInv, NotYet
  <1>3. toMail' \cap paired' = {} /\ toMail' \cup paired' \subseteq found
    BY <1>1 DEF Prepared, PairedInternally, Approved, DoisOf
  <1>4. /\ \A r \in DOMAIN about' : Related[about'[r]] = Doi[r]
        /\ \A r \in DOMAIN about' : about'[r] \in PairedInternally
    BY <1>1, AboutsOf
  <1>5. MailsDiffer'
    BY <1>1, <1>2, <1>3, <1>4 DEF MailsDiffer
  <1>6. FreshWhileSending'
    BY <1>1, <1>3, <1>4 DEF FreshWhileSending, RepeatInv, Fresh
  <1> QED BY <1>1, <1>5, <1>6 DEF RepeatInv, Kept

LEMMA SendingFresh ==
    ASSUME TypeInv, AllAlone, RepeatInv, NEW f \in toMail,
           LeaveForLater(f) \/ SendEmail(f) \/ FailToSend(f)
    PROVE  RepeatInv'
  <1>1. /\ phase = "sending" /\ phase' = "sending"
        /\ UNCHANGED <<outbox, published, notPublished, found, paired, about, torn>>
        /\ toMail' = toMail \ {f} /\ handled' = handled \cup {f}
        /\ authorless' \subseteq authorless \cup {Doi[f]}
    BY DEF LeaveForLater, SendEmail, FailToSend, folders, observers
  <1>2. MailsDiffer /\ FreshWhileSending /\ again \subseteq torn /\ Kept
    BY <1>1 DEF RepeatInv
  <1>3. /\ found \subseteq Files /\ toMail \cup handled \cup paired \subseteq found
        /\ DOMAIN about \subseteq found /\ \A r \in DOMAIN about : about[r] \in paired
    BY DEF TypeInv, TypeOK
  <1>4. MailsDiffer'
    BY <1>1, <1>2 DEF MailsDiffer, DoisOf
  <1>5. CASE told' = told /\ again' = again
    <2>1. \A g \in Fresh : Doi[g] # Doi[f] \/ g \notin handled
      BY <1>2, <1>3 DEF FreshWhileSending, AllAlone
    <2>2. FreshWhileSending'
      BY <1>1, <1>2, <1>5, <2>1 DEF FreshWhileSending, Fresh
    <2> QED BY <1>1, <1>2, <1>4, <1>5, <2>2 DEF RepeatInv, Kept
  <1>6. CASE SendEmail(f)
    <2>1. /\ told' = told \cup Tells(f) /\ again' = again \cup (Tells(f) \cap told)
          /\ authorless' = authorless
      BY <1>6 DEF SendEmail
    <2>2. \A g \in Tells(f) : g = f \/ (f \in DOMAIN about /\ g = about[f])
      BY DEF Tells
    <2>3. \A g \in Tells(f) : g \in found /\ g \notin Fresh
      BY <1>2, <1>3, <2>2 DEF FreshWhileSending
    <2>4. Doi[f] \notin authorless
      BY <1>2, <1>3 DEF MailsDiffer, DoisOf, AllAlone
    <2>5. ASSUME NEW g \in Tells(f)
          PROVE  /\ g \notin toMail'
                 /\ \A r \in toMail' : r \in DOMAIN about => about[r] # g
                 /\ g \in paired \/ g = f
      <3>1. CASE g = f
        BY <1>1, <1>2, <1>3, <3>1 DEF MailsDiffer
      <3>2. CASE f \in DOMAIN about /\ g = about[f]
        <4>1. \A r \in toMail' : r \in DOMAIN about => Doi[r] # Doi[f]
          BY <1>1, <1>3 DEF AllAlone
        <4> QED BY <1>1, <1>2, <1>3, <3>2, <4>1 DEF MailsDiffer
      <3> QED BY <2>2, <3>1, <3>2
    <2>6. FreshWhileSending'
      <3> SUFFICES ASSUME NEW g \in Fresh'
                   PROVE  /\ g \notin toMail'
                          /\ \A r \in toMail' : r \in DOMAIN about' => about'[r] # g
                          /\ g \in outbox' => \/ g \in paired'
                                              \/ g \in handled' /\ Doi[g] \notin authorless'
        BY DEF FreshWhileSending
      <3>1. g \in Fresh \/ g \in Tells(f)
        BY <1>1, <2>1 DEF Fresh
      <3>2. CASE g \in Fresh
        BY <1>1, <1>2, <2>1, <3>2 DEF FreshWhileSending
      <3>3. CASE g \in Tells(f)
        BY <1>1, <2>1, <2>4, <2>5, <3>3
      <3> QED BY <3>1, <3>2, <3>3
    <2>7. again' \subseteq torn' /\ Kept'
      BY <1>1, <1>2, <2>1, <2>3 DEF Fresh, Kept
    <2> QED BY <1>1, <1>4, <2>6, <2>7 DEF RepeatInv
  <1>7. SendEmail(f) \/ (told' = told /\ again' = again)
    BY DEF LeaveForLater, FailToSend, observers
  <1> QED BY <1>5, <1>6, <1>7

LEMMA CleanFresh ==
    ASSUME TypeInv, AllAlone, RepeatInv, CleanOutbox
    PROVE  RepeatInv'
  <1>1. /\ phase = "sending" /\ phase' = "moving"
        /\ UNCHANGED <<outbox, published, notPublished, found, told, again, torn>>
        /\ {<<names[d], "published">> :
                d \in (DoisOf(handled) \ authorless) \cup DoisOf(paired)} \subseteq toMove'
    BY DEF CleanOutbox, folders, observers
  <1>2. \A f \in handled \cup paired : names[Doi[f]] = f
    <2>1. /\ found \subseteq Files /\ handled \cup paired \subseteq found
          /\ \A d \in DoisOf(found) : names[d] \in found /\ Doi[names[d]] = d
      BY <1>1 DEF TypeInv, TypeOK, NamesFound
    <2> QED BY <2>1 DEF AllAlone, DoisOf
  <1>3. ASSUME NEW f \in Fresh, f \in outbox PROVE <<f, "published">> \in toMove'
    <2>1. f \in paired \/ (f \in handled /\ Doi[f] \notin authorless)
      BY <1>1, <1>3 DEF RepeatInv, FreshWhileSending
    <2>2. Doi[f] \in (DoisOf(handled) \ authorless) \cup DoisOf(paired)
      BY <2>1 DEF DoisOf
    <2>3. names[Doi[f]] = f
      BY <1>2, <2>1
    <2> QED BY <1>1, <2>2, <2>3
  <1> QED BY <1>1, <1>3 DEF RepeatInv, Kept, Fresh

LEMMA MoveFresh ==
    ASSUME TypeInv, RepeatInv, NEW move \in toMove, CopyResource(move) \/ DeleteResource(move)
    PROVE  RepeatInv'
  <1>1. /\ phase = "moving" /\ phase' = "moving"
        /\ UNCHANGED <<found, told, again, torn>>
    BY DEF CopyResource, DeleteResource, IsNextMove, observers
  <1>2. CASE CopyResource(move)
    BY <1>1, <1>2 DEF CopyResource, RepeatInv, Kept, Fresh
  <1>3. CASE DeleteResource(move)
    <2>1. /\ move \in copied /\ outbox' = outbox \ {move[1]} /\ toMove' = toMove \ {move}
          /\ published' = published /\ notPublished' = notPublished
      BY <1>3 DEF DeleteResource
    <2>2. move[1] \in published \cup notPublished
      BY <2>1 DEF TypeInv, CopiesMade
    <2>3. Kept'
      BY <1>1, <2>1, <2>2 DEF RepeatInv, Kept
    <2>4. \A f \in Fresh' : f \in outbox' => <<f, "published">> \in toMove'
      BY <1>1, <2>1 DEF RepeatInv, Fresh
    <2> QED BY <1>1, <2>3, <2>4 DEF RepeatInv
  <1> QED BY <1>2, <1>3

LEMMA RepeatStep ==
    ASSUME TypeInv, AllAlone, RepeatInv, [Next]_vars
    PROVE  RepeatInv'
  <1>1. ASSUME NEW built, ProcessArticles(built), EndRun PROVE RepeatInv'
    BY <1>1, EndRunType DEF ProcessArticles, RepeatInv, Kept, Fresh, folders, observers
  <1>2. ASSUME NEW built, ProcessArticles(built), ~EndRun PROVE RepeatInv'
    BY <1>2, ProcessFresh
  <1>3. ASSUME NEW f \in toMail, LeaveForLater(f) \/ SendEmail(f) \/ FailToSend(f)
        PROVE  RepeatInv'
    BY <1>3, SendingFresh
  <1>4. CASE CleanOutbox
    BY <1>4, CleanFresh
  <1>5. ASSUME NEW move \in toMove, CopyResource(move) \/ DeleteResource(move)
        PROVE  RepeatInv'
    BY <1>5, MoveFresh
  <1>6. CASE Finish
    <2>1. /\ phase = "moving" /\ toMove = {} /\ EndRun
          /\ UNCHANGED <<outbox, published, notPublished, told, again, torn>>
      BY <1>6 DEF Finish, folders, observers
    <2> QED BY <2>1, EndRunType DEF RepeatInv, Kept, Fresh
  <1>7. CASE BreakOff
    <2>1. /\ torn' = torn \cup (told \cap outbox) /\ EndRun
          /\ UNCHANGED <<outbox, published, notPublished, told, again>>
      BY <1>7 DEF BreakOff, folders
    <2> QED BY <2>1, EndRunType DEF RepeatInv, Kept, Fresh
  <1>8. CASE Download
    BY <1>8 DEF Download, RepeatInv, Kept, Fresh, folders, observers
  <1>9. ASSUME NEW f \in Files, Schedule(f) PROVE RepeatInv'
    <2>1. /\ f \notin told /\ outbox' = outbox \cup {f}
          /\ UNCHANGED <<published, notPublished, phase, found, paired, about, toMail,
                         handled, authorless, toMove, told, again, torn>>
      BY <1>9 DEF Schedule, local, observers, RepeatInv, Kept
    <2> QED BY <2>1 DEF RepeatInv, Kept, Fresh, MailsDiffer, FreshWhileSending, DoisOf
  <1>10. CASE UNCHANGED vars
    BY <1>10 DEF vars, folders, local, observers, RepeatInv, Kept, Fresh, MailsDiffer,
                 FreshWhileSending, DoisOf
  <1> QED BY <1>1, <1>2, <1>3, <1>4, <1>5, <1>6, <1>7, <1>8, <1>9, <1>10
      DEF Next, RunStep

\* When every article is one file, no second mail tells of an article unless a
\* run broke off between its mail and its move.
THEOREM RepeatsNeedFaults == ASSUME AllAlone PROVE Spec => []RepeatsAreFaults
  <1>1. Init => RepeatInv
    BY DEF Init, RepeatInv, Kept, Fresh
  <1>2. TypeInv /\ RepeatInv /\ [Next]_vars => RepeatInv'
    BY RepeatStep, AllAlone
  <1>3. RepeatInv => RepeatsAreFaults
    BY DEF RepeatInv, RepeatsAreFaults
  <1> QED BY <1>1, <1>2, <1>3, TypeInvHolds, PTL DEF Spec
=============================================================================
