----------------------------- MODULE ProposalPages -----------------------------
(* The governance page: the list of the proposals, the proposal that is open with *)
(* its figures, and the three transactions sent from here.  What their dialogs    *)
(* send, and what the user is told, is the subject of TransactionSend; here it is *)
(* which proposal and which asset they are sent for.                              *)
EXTENDS AppPages

Figures == {"tally", "voted", "refresh proposal", "vote", "deposit"}

Other(p) == \E t \in Tasks: task[t].here /\ task[t].kind \in Figures /\ task[t].item # p

\* processProposalFigures: the figures are reset and, for a proposal that is voted
\* on (one of `votes`), asked from the node; the other proposals bring theirs.
Figuring(v, p, votes) ==
  [v EXCEPT !.shows = IF p \in votes THEN Nothing ELSE p,
            !.spin = (p \in votes) \/ v.spin]

\* The proposal is shown in place of the lists.
Opens(p) ==
  /\ page = "governance" /\ ~view.open /\ NoDialog
  /\ view' = Figuring([view EXCEPT !.chosen = p, !.item = p, !.open = TRUE,
                                   !.crossed = Other(p)], p, voting)
  /\ Starts(IF p \in voting THEN {New("tally", p)} ELSE {})
  /\ UNCHANGED <<page, session, assets, spinners>>

\* Click on a proposal in one of the lists; only that of all proposals is under the
\* spinner of the figures.
OpenListed(p) == ~view.spin /\ Opens(p)
OpenInVoting(p) == p \in voting /\ Opens(p)
OpenInDeposit(p) == p \notin voting /\ Opens(p)
OpenProposal(p) == OpenListed(p) \/ OpenInVoting(p) \/ OpenInDeposit(p)

\* Click on a proposal of the voting history, which asks for no figures: those of
\* the proposal that was open before, if any, are shown with it.  (Proposals voted
\* on long ago are left out.)
OpenVoted(p) ==
  /\ page = "governance" /\ ~view.open /\ NoDialog
  /\ p \in voting
  /\ view' = [view EXCEPT !.chosen = p, !.item = p, !.open = TRUE, !.crossed = TRUE]
  /\ UNCHANGED <<page, task, session, assets, spinners>>

CloseProposal ==
  /\ page = "governance" /\ view.open /\ NoDialog
  /\ view' = [view EXCEPT !.open = FALSE, !.chosen = Nothing, !.crossed = FALSE]
  /\ UNCHANGED <<page, task, session, assets, spinners>>

\* loadLatestProposalTally answers; without an answer the spinner stays.
Tallied(t, answered) ==
  IF task[t].here /\ answered
  THEN [view EXCEPT !.shows = task[t].item, !.spin = FALSE]
  ELSE view

TallyComes(t) ==
  /\ Active(t, "tally") /\ Ends(t)
  /\ \E answered \in BOOLEAN: view' = Tallied(t, answered)
  /\ UNCHANGED <<page, session, assets, spinners>>

\* onVote and the button that creates a proposal: showPasswordInput still sees the
\* modalType of the last render, so that the first click does nothing on a Ledger.
Asked(mode) ==
  [view EXCEPT !.mode = mode,
               !.dialog = IF ~Ledger THEN "ask"
                          ELSE IF view.mode = mode THEN "confirm" ELSE "none"]

AskVote ==
  /\ page = "governance" /\ view.open /\ NoDialog
  /\ view.item \in voting
  /\ view' = Asked("vote")
  /\ UNCHANGED <<page, task, session, assets, spinners>>

AskProposal ==
  /\ page = "governance" /\ ~view.open /\ NoDialog
  /\ ~Ledger
  /\ view' = Asked("proposal")
  /\ UNCHANGED <<page, task, session, assets, spinners>>

AskDeposit ==
  /\ page = "governance" /\ view.open /\ NoDialog
  /\ view.item \notin voting
  /\ view' = [view EXCEPT !.mode = "deposit", !.dialog = "ask"]
  /\ UNCHANGED <<page, task, session, assets, spinners>>

\* The password is right.
Asks ==
  /\ page = "governance" /\ view.dialog = "ask" /\ view.mode # "deposit"
  /\ view' = [view EXCEPT !.dialog = "confirm"]
  /\ UNCHANGED <<page, task, session, assets, spinners>>

\* The amount is filled in and, except on a Ledger, the password is right.
FillDeposit ==
  /\ page = "governance" /\ view.dialog = "ask" /\ view.mode = "deposit"
  /\ view' = [view EXCEPT !.dialog = "confirm"]
  /\ UNCHANGED <<page, task, session, assets, spinners>>

\* The dialog of a vote can be closed while the vote is being sent.
CancelGovernance ==
  /\ page = "governance" /\ ~NoDialog
  /\ view.dialog = "ask" \/ view.mode = "vote" \/ ~view.busy
  /\ view' = [view EXCEPT !.dialog = "none"]
  /\ UNCHANGED <<page, task, session, assets, spinners>>

Confirms(mode, started) ==
  /\ page = "governance" /\ view.dialog = "confirm" /\ view.mode = mode /\ ~view.busy
  /\ view' = [view EXCEPT !.busy = TRUE]
  /\ Starts({started})
  /\ UNCHANGED <<page, session, assets, spinners>>

\* onConfirm, submitProposalDeposit and onCreateProposalAction.
ConfirmVote == Confirms("vote", New("vote", view.item))
ConfirmDeposit == Confirms("deposit", New("deposit", view.item))
SubmitProposal == Confirms("proposal", Keeps("proposal", Nothing, wallet))
ConfirmGovernance == ConfirmVote \/ ConfirmDeposit \/ SubmitProposal

(* mutant: confirmLoading is not reset *)
SettledBusy(v, modes) ==
  [v EXCEPT !.dialog = IF v.mode \in modes THEN "none" ELSE v.dialog]

\* The dialogs `modes` are gone; the button can be clicked again.
Settled(v, modes) ==
  [v EXCEPT !.busy = FALSE, !.dialog = IF v.mode \in modes THEN "none" ELSE v.dialog]

\* Sent: the figures are read again before the user is told.
VoteSent(t) ==
  /\ Active(t, "vote")
  /\ view' = IF task[t].here THEN Figuring(view, task[t].item, voting) ELSE view
  /\ Becomes(t, "voted")
  /\ UNCHANGED <<page, session, assets, spinners>>

VoteFails(t) ==
  /\ Active(t, "vote") /\ Ends(t)
  /\ view' = IF task[t].here
             THEN Settled(view, IF view.dialog = "confirm" THEN {"vote"} ELSE {})
             ELSE view
  /\ UNCHANGED <<page, session, assets, spinners>>

VoteEnds(t) ==
  /\ Active(t, "voted") /\ Ends(t)
  /\ \E answered \in BOOLEAN:
       LET v == Tallied(t, answered)
       IN  view' = IF ~task[t].here THEN v
                   ELSE Settled(v, {"vote"} \union IF v.dialog = "ask" THEN {"proposal"} ELSE {})
  /\ UNCHANGED <<page, session, assets, spinners>>

\* Sent: the asset is read again, unless that fails, and the proposal 300 ms later.
DepositSent(t) ==
  /\ Active(t, "deposit")
  /\ view' = IF task[t].here THEN Settled(view, {"deposit"}) ELSE view
  /\ SetsDefault({}, stores.session, "session" \in late) \/ UNCHANGED assets
  /\ Becomes(t, "refresh proposal")
  /\ UNCHANGED <<page, session, spinners>>

\* An answer without a hash only frees the button; after an error the dialog stays as
\* well, unless the deposit was sent and the list could not be read again.
DepositFails(t) ==
  /\ Active(t, "deposit") /\ Ends(t)
  /\ \E closed \in {{}, {"deposit"}}:
       view' = IF task[t].here THEN Settled(view, closed) ELSE view
  /\ UNCHANGED <<page, session, assets, spinners>>

\* refreshProposal: the proposal that was open then is set again, with its figures.
\* The deposit may have brought it into its voting period.
ProposalComes(t) ==
  LET p == task[t].item
  IN  /\ Active(t, "refresh proposal")
      /\ voting' \in {voting, voting \union {p}}
      /\ IF p \in voting' THEN Becomes(t, "tally") ELSE Ends(t)
      /\ view' = IF task[t].here
                 THEN Figuring([view EXCEPT !.item = p], p, voting')
                 ELSE view
      /\ UNCHANGED <<page, wallet, unused, assets, spinners>>

ProposalSent(t) ==
  /\ Active(t, "proposal") /\ Ends(t)
  /\ view' = IF task[t].here THEN Settled(view, {"proposal", "vote"}) ELSE view
  /\ SetsDefault({}, task[t].wallet, task[t].old)
  /\ UNCHANGED <<page, session, spinners>>

ProposalFails(t) ==
  /\ Active(t, "proposal") /\ Ends(t)
  /\ view' = IF task[t].here THEN Settled(view, {"proposal", "vote"}) ELSE view
  /\ UNCHANGED <<page, session, assets, spinners>>

GovernanceStep(t) ==
  \/ TallyComes(t) \/ VoteSent(t) \/ VoteFails(t) \/ VoteEnds(t)
  \/ DepositSent(t) \/ DepositFails(t) \/ ProposalComes(t)
  \/ ProposalSent(t) \/ ProposalFails(t)
=============================================================================
