--------------------------- MODULE SkillProposals ---------------------------
(***************************************************************************)
(* The skills an agent may learn from its sessions (skill_learning.py and  *)
(* the endpoints of router.py).  A review awaits the model, looks at the   *)
(* SKILL.md file it names and stores a proposal; a decision of the user    *)
(* looks at the file, writes it and marks the proposal.  The skills are    *)
(* those of the installation, the proposals are each of one workspace.     *)
(*                                                                         *)
(* Reviews of several sessions await the model beside one another.  What   *)
(* follows, and a decision, runs on the event loop without an await: while *)
(* one of them is in hand, no other goes on.  The user's editor is another *)
(* process and saves the files between any two steps; a write may fail and *)
(* the server may die.                                                     *)
(*                                                                         *)
(* A document stands for its text and its hash: two documents are equal    *)
(* exactly when their hashes are.                                          *)
(***************************************************************************)
EXTENDS Naturals, Sequences

CONSTANTS Skills,        \* names of skills the registry does not ship itself
          Documents,     \* texts of a SKILL.md
          Sessions,      \* sessions that ended COMPLETE, one turn each
          Workspaces,    \* the user's workspaces
          WorkspaceOf,   \* the one of each session
          NoDocument,    \* there is no SKILL.md
          MaxProposals,  \* bound on the proposals stored
          MaxUserEdits   \* bound on the user's own edits of SKILL.md files

ASSUME SkillsAssumption ==
    /\ NoDocument \notin Documents
    /\ WorkspaceOf \in [Sessions -> Workspaces]
    /\ MaxProposals \in Nat /\ MaxUserEdits \in Nat

VARIABLES document,   \* the SKILL.md of each skill
          proposals,  \* the proposal files, in the order of their creation
          hand,       \* the review or decision the event loop is at
          userEdits,  \* the user's edits so far
          installed,  \* history: the documents decisions wrote or found, with their skills
          raced       \* history: the user saved the file since the decision in hand read it

skillVars == <<document, proposals, hand, userEdits, installed, raced>>

Proposal == [session : Sessions, skill : Skills, action : {"create", "update"},
             content : Documents, base : Documents \cup {NoDocument},
             status : {"pending", "approved", "rejected"}]

EmptyHand == [at |-> "free"]

(* A review has "looked" for the file and "compared" it; a decision has    *)
(* "checked" the file and "written" it.  number: the proposal decided on.  *)
Stretch == [at : {"looked", "compared", "checked", "written"}, p : Proposal, number : Nat]

SkillTypeOK ==
    /\ document \in [Skills -> Documents \cup {NoDocument}]
    /\ proposals \in Seq(Proposal)
    /\ hand \in {EmptyHand} \cup Stretch
    /\ userEdits \in 0..MaxUserEdits
    /\ installed \subseteq Skills \X Documents
    /\ raced \in BOOLEAN

SkillInit ==
    /\ document = [k \in Skills |-> NoDocument]
    /\ proposals = <<>>
    /\ hand = EmptyHand
    /\ userEdits = 0
    /\ installed = {}
    /\ raced = FALSE

----------------------------------------------------------------------------

\* A review of session s, started after its turn or on request, has its answer:
\* a document for a skill.  (Nothing the review read before it awaited the model
\* is used after it but the session, which is over.)  What is to be created must
\* not be there, what is to be updated must.
ReviewAnswers(s, k, a, d) ==
    /\ hand = EmptyHand
    /\ hand' = IF (a = "create") = (document[k] = NoDocument)
               THEN [at |-> "looked", number |-> 0,
                     p |-> [session |-> s, skill |-> k, action |-> a, content |-> d,
                            base |-> NoDocument, status |-> "pending"]]
               ELSE EmptyHand
    /\ UNCHANGED <<document, proposals, userEdits, installed, raced>>

\* A document that repeats what is there ends the review with nothing.
CompareSkill ==
    /\ hand.at = "looked"
    /\ hand' = IF document[hand.p.skill] = hand.p.content THEN EmptyHand
               ELSE [hand EXCEPT !.at = "compared"]
    /\ UNCHANGED <<document, proposals, userEdits, installed, raced>>

(* Mutant: only the candidates of the same turn are compared.              *)
SameTurnOnly(p, q) == p.skill = q.skill /\ p.content = q.content /\ p.session = q.session

(* The proposal store finds the same candidate already among those of the  *)
(* workspace: the one of this turn, or one that waits for a decision.      *)
SameCandidate(p, q) ==
    /\ WorkspaceOf[p.session] = WorkspaceOf[q.session]
    /\ p.skill = q.skill /\ p.content = q.content
    /\ p.session = q.session \/ p.status = "pending"

\* What an update rests on is read once more; without the file it fails.
Based(p) == [p EXCEPT !.base = IF p.action = "update" THEN document[p.skill] ELSE NoDocument]

StoreProposal ==
    /\ hand.at = "compared"
    /\ hand.p.action = "update" => document[hand.p.skill] # NoDocument
    /\ IF \E i \in DOMAIN proposals : SameCandidate(proposals[i], hand.p)
       THEN UNCHANGED proposals
       ELSE /\ Len(proposals) < MaxProposals
            /\ proposals' = Append(proposals, Based(hand.p))
    /\ hand' = EmptyHand
    /\ UNCHANGED <<document, userEdits, installed, raced>>

----------------------------------------------------------------------------

(* Mutant: an update is checked for the file, not for what the file says.   *)
InstallAnyUpdate(p) ==
    IF p.action = "create" THEN document[p.skill] \in {NoDocument, p.content}
                           ELSE document[p.skill] # NoDocument

(* What _approve_write asks of the file before it is written.              *)
MayInstall(p) ==
    IF p.action = "create" THEN document[p.skill] \in {NoDocument, p.content}
                           ELSE document[p.skill] = p.base

(* The skill is on disk as the decision has it.                            *)
Installed(p) == installed' = installed \cup {<<p.skill, p.content>>}

\* The user approves: the file is read and checked.  A skill to be created that
\* is there already, with the same text, is not written.
CheckSkill(i) ==
    /\ hand = EmptyHand
    /\ proposals[i].status = "pending"
    /\ MayInstall(proposals[i])
    /\ LET there == proposals[i].action = "create" /\ document[proposals[i].skill] # NoDocument
       IN  /\ hand' = [at |-> IF there THEN "written" ELSE "checked",
                       p |-> proposals[i], number |-> i]
           /\ IF there THEN Installed(proposals[i]) ELSE UNCHANGED installed
    /\ UNCHANGED <<document, proposals, userEdits, raced>>

(* Mutant: the decision is stored, the file never written.                 *)
WriteNothing ==
    /\ hand.at = "checked"
    /\ hand' = [hand EXCEPT !.at = "written"]
    /\ UNCHANGED <<document, proposals, userEdits, installed, raced>>

\* The file is replaced, whatever it is by now.
WriteSkill ==
    /\ hand.at = "checked"
    /\ document' = [document EXCEPT ![hand.p.skill] = hand.p.content]
    /\ Installed(hand.p)
    /\ hand' = [hand EXCEPT !.at = "written"]
    /\ raced' = FALSE
    /\ UNCHANGED <<proposals, userEdits>>

MarkApproved ==
    /\ hand.at = "written"
    /\ proposals' = [proposals EXCEPT ![hand.number].status = "approved"]
    /\ hand' = EmptyHand
    /\ UNCHANGED <<document, userEdits, installed, raced>>

Reject(i) ==
    /\ hand = EmptyHand
    /\ proposals[i].status = "pending"
    /\ proposals' = [proposals EXCEPT ![i].status = "rejected"]
    /\ UNCHANGED <<document, hand, userEdits, installed, raced>>

\* A read or a write of the task in hand fails, or the server dies.
FailInHand ==
    /\ hand # EmptyHand
    /\ hand' = EmptyHand
    /\ raced' = FALSE
    /\ UNCHANGED <<document, proposals, userEdits, installed>>

\* The user writes or removes a SKILL.md by hand.
EditSkill(k, d) ==
    /\ userEdits < MaxUserEdits
    /\ d # document[k]
    /\ document' = [document EXCEPT ![k] = d]
    /\ userEdits' = userEdits + 1
    /\ raced' = (raced \/ (hand.at = "checked" /\ hand.p.skill = k))
    /\ UNCHANGED <<proposals, hand, installed>>

SkillNext ==
    \/ \E s \in Sessions, k \in Skills, a \in {"create", "update"}, d \in Documents :
          ReviewAnswers(s, k, a, d)
    \/ CompareSkill \/ StoreProposal \/ WriteSkill \/ MarkApproved \/ FailInHand
    \/ \E i \in DOMAIN proposals : CheckSkill(i) \/ Reject(i)
    \/ \E k \in Skills, d \in Documents \cup {NoDocument} : EditSkill(k, d)

SkillSpec == SkillInit /\ [][SkillNext]_skillVars

----------------------------------------------------------------------------

\* Two reviews of sessions of one workspace never leave the user two open
\* proposals of the same document, in whatever order the model answered.
NoDoubleProposal ==
    \A i, j \in DOMAIN proposals :
        (/\ i # j /\ proposals[i].status = "pending" /\ proposals[j].status = "pending"
         /\ WorkspaceOf[proposals[i].session] = WorkspaceOf[proposals[j].session])
        => <<proposals[i].skill, proposals[i].content>>
             # <<proposals[j].skill, proposals[j].content>>

\* A proposal is marked approved only after its document was on disk: a crash
\* between the two writes may leave a skill without its decision, never a
\* decision without its skill.
ApprovedWasInstalled ==
    \A i \in DOMAIN proposals : proposals[i].status = "approved" =>
        <<proposals[i].skill, proposals[i].content>> \in installed

\* The proposals and the SKILL.md files tell one story (skill_learning.py).
SkillDecisions == NoDoubleProposal /\ ApprovedWasInstalled

\* A decision replaces nothing but the document its update was stored against,
\* however often the user has edited the file since then and whatever other
\* decisions did to it.  Only a save that falls between the decision's check
\* and its write is lost.
ApprovalSparesEdits ==
    [][\A k \in Skills :
         document[k] # document'[k] /\ userEdits' = userEdits =>
           \/ raced
           \/ document[k] = NoDocument
           \/ \E i \in DOMAIN proposals :
                 /\ proposals[i].skill = k /\ proposals[i].status = "pending"
                 /\ proposals[i].base = document[k]
                 /\ proposals[i].content = document'[k]]_skillVars

=============================================================================
