----------------------------- MODULE Settlement -----------------------------
(***************************************************************************)
(* How a settled market reaches the account and the log: the scanner       *)
(* (recovery/settlement_scanner.py), which asks Gamma about every market    *)
(* held and publishes MARKET_SETTLED once, and the account poll, whose      *)
(* positions replace the scanner's and are marked only where the data API   *)
(* already calls them redeemable (authority_refresher.py,                   *)
(* _enrich_redeemable_positions).  Every position is one of "yes".          *)
(***************************************************************************)
EXTENDS Integers, SequencesExt

CONSTANTS
    Held,        \* the markets in the order of the account's positions
    MaxPerRun,   \* markets a scan takes up
    MaxMoves,    \* bound: what Gamma changes its mind about
    MaxRestarts, \* bound
    None

HeldMarkets == Range(Held)

(* What a position may be marked as. *)
Marks == {"unmarked", "won", "lost"}

ASSUME NoneAssumption == None \notin Marks \cup {"yes", "no", "blank"}

VARIABLES
    venue,       \* what Gamma says of a market
    shown,       \* history: the outcomes Gamma favoured of a market that was closed
    moves,       \* bound: changes at Gamma so far
    redeemable,  \* markets the data API calls redeemable
    owned,       \* markets whose position is not redeemed yet
    account,     \* the positions of the account store and what they are marked as
    poll,        \* the positions a poll brings, between its answer and its write
    scan,        \* the scan under way
    published,   \* _published_settlements
    log,         \* the audit log: settlement:<condition>, the first one stays
    restarts     \* bound: restarts so far

gamma_vars == <<venue, shown, moves>>

settle_vars == <<gamma_vars, redeemable, owned, account, poll, scan, published, log, restarts>>

----------------------------------------------------------------------------
(* Gamma on a market: its phase, and the outcome its prices put at ninety cents  *)
(* or more.  A market closes before its outcome is known, and until that is      *)
(* final the prices may favour an outcome that loses.  A void one has no winner. *)
Decided == {"yes", "no"}
Favours == Decided \cup {"blank"}
States == [phase : {"open", "closed", "final"}, favours : Favours]

Steps(s) ==
    CASE s.phase = "open" -> States \ {s}
      [] s.phase = "closed" -> {t \in States : t.phase # "open"} \ {s}
      [] s.phase = "final" -> {}

IsOpen(s) == s.phase = "open"

IsDecided(s) == s.phase = "final" /\ s.favours \in Decided

(* Mutant: prices alone settle a market. *)
ResolvedByPrice(s) == IF IsOpen(s) /\ s.favours = "blank" THEN None ELSE s.favours

(* _resolve_from_gamma_payload, _winning_index: a market that is closed, with    *)
(* the outcome its prices favour or without one; that it is final is not asked.  *)
Resolved(s) == IF IsOpen(s) THEN None ELSE s.favours

(* apply_outcome_to_position *)
MarkOf(winner) == IF winner = "yes" THEN "won" ELSE "lost"

Marked(position, winner) ==
    IF winner \in Decided /\ position # None THEN MarkOf(winner) ELSE position

----------------------------------------------------------------------------
NoScan == [at |-> "idle", left |-> <<>>, winner |-> None]

SettleInit ==
    /\ venue = [m \in HeldMarkets |-> [phase |-> "open", favours |-> "blank"]]
    /\ shown = [m \in HeldMarkets |-> {}]
    /\ moves = 0
    /\ redeemable = {}
    /\ owned = HeldMarkets
    /\ account = [m \in HeldMarkets |-> "unmarked"]
    /\ poll = None
    /\ scan = NoScan
    /\ published = {}
    /\ log = [m \in HeldMarkets |-> None]
    /\ restarts = 0

VenueMoves(m, s) ==
    /\ moves < MaxMoves
    /\ moves' = moves + 1
    /\ s \in Steps(venue[m])
    /\ venue' = [venue EXCEPT ![m] = s]
    /\ shown' = [shown EXCEPT ![m] = IF IsOpen(s) THEN @ ELSE @ \cup ({s.favours} \cap Decided)]
    /\ UNCHANGED <<redeemable, owned, account, poll, scan, published, log, restarts>>

(* The data API calls a position redeemable some time after its market's       *)
(* decision, or never.                                                          *)
BecomesRedeemable(m) ==
    /\ IsDecided(venue[m])
    /\ redeemable' = redeemable \cup {m}
    /\ UNCHANGED <<gamma_vars, owned, account, poll, scan, published, log, restarts>>

Redeem(m) ==
    /\ m \in redeemable
    /\ owned' = owned \ {m}
    /\ UNCHANGED <<gamma_vars, redeemable, account, poll, scan, published, log, restarts>>

(* The poll: positions, then Gamma for those that are redeemable and have no    *)
(* price; Gamma may not answer.  Its write comes after further answers.         *)
PollAnswered(heard) ==
    /\ poll = None
    /\ heard \subseteq owned \cap redeemable
    /\ poll' = [m \in HeldMarkets |->
                   IF m \notin owned THEN None
                   ELSE IF m \in heard /\ Resolved(venue[m]) # None
                   THEN Marked("unmarked", Resolved(venue[m])) ELSE "unmarked"]
    /\ UNCHANGED <<gamma_vars, redeemable, owned, account, scan, published, log, restarts>>

PollWrites ==
    /\ poll # None
    /\ account' = poll
    /\ poll' = None
    /\ UNCHANGED <<gamma_vars, redeemable, owned, scan, published, log, restarts>>

----------------------------------------------------------------------------
(* run_once: the markets of the account's positions, as far as a run goes: it is *)
(* cut before those published are skipped.                                      *)
WithinRun ==
    LET has(m) == account[m] # None
        found == SelectSeq(Held, has)
    IN  SubSeq(found, 1, IF Len(found) < MaxPerRun THEN Len(found) ELSE MaxPerRun)

ScanStarts ==
    /\ scan.at = "idle"
    /\ scan' = [NoScan EXCEPT !.at = "next", !.left = WithinRun]
    /\ UNCHANGED <<gamma_vars, redeemable, owned, account, poll, published, log, restarts>>

(* Mutant: the scan ends at the first market that is not closed. *)
EndHere == [scan EXCEPT !.at = "next", !.left = <<>>]

(* continue *)
GoOn == [scan EXCEPT !.at = "next", !.left = Tail(@)]

SkipPublished ==
    /\ scan.at = "next" /\ scan.left # <<>>
    /\ Head(scan.left) \in published
    /\ scan' = [scan EXCEPT !.left = Tail(@)]
    /\ UNCHANGED <<gamma_vars, redeemable, owned, account, poll, published, log, restarts>>

(* The lookup fails, or finds the market open. *)
NotSettled ==
    /\ scan.at = "next" /\ scan.left # <<>>
    /\ Head(scan.left) \notin published
    /\ scan' = GoOn
    /\ UNCHANGED <<gamma_vars, redeemable, owned, account, poll, published, log, restarts>>

Looked ==
    /\ scan.at = "next" /\ scan.left # <<>>
    /\ Head(scan.left) \notin published
    /\ Resolved(venue[Head(scan.left)]) # None
    /\ scan' = [scan EXCEPT !.at = "publish", !.winner = Resolved(venue[Head(scan.left)])]
    /\ UNCHANGED <<gamma_vars, redeemable, owned, account, poll, published, log, restarts>>

(* _publish_settlement swallows its failure; then the positions of the market   *)
(* are marked and the market is one of the published, told or not.              *)
Settle(reported) ==
    /\ scan.at = "publish"
    /\ LET m == Head(scan.left)
       IN  /\ log' = [log EXCEPT ![m] = IF reported /\ @ = None THEN scan.winner ELSE @]
           /\ account' = [account EXCEPT ![m] = Marked(@, scan.winner)]
           /\ published' = published \cup {m}
    /\ scan' = [GoOn EXCEPT !.winner = None]
    /\ UNCHANGED <<gamma_vars, redeemable, owned, poll, restarts>>

ScanEnds ==
    /\ scan.at = "next" /\ scan.left = <<>>
    /\ scan' = NoScan
    /\ UNCHANGED <<gamma_vars, redeemable, owned, account, poll, published, log, restarts>>

(* A restart forgets what was published; the first poll fills the account again. *)
Restart ==
    /\ restarts < MaxRestarts
    /\ restarts' = restarts + 1
    /\ published' = {}
    /\ scan' = NoScan
    /\ poll' = None
    /\ account' = [m \in HeldMarkets |-> IF m \in owned THEN "unmarked" ELSE None]
    /\ UNCHANGED <<gamma_vars, redeemable, owned, log>>

SettleNext ==
    \/ \E m \in HeldMarkets, s \in States : VenueMoves(m, s)
    \/ \E m \in HeldMarkets : BecomesRedeemable(m) \/ Redeem(m)
    \/ \E heard \in SUBSET HeldMarkets : PollAnswered(heard)
    \/ PollWrites
    \/ ScanStarts \/ SkipPublished \/ NotSettled \/ Looked \/ ScanEnds
    \/ \E reported \in BOOLEAN : Settle(reported)
    \/ Restart

SettleSpec == SettleInit /\ [][SettleNext]_settle_vars

(* The scheduler runs the scan; Gamma answers it again and again.               *)
ScanGoesOn ==
    ScanStarts \/ SkipPublished \/ NotSettled \/ Looked \/ Settle(TRUE) \/ Settle(FALSE) \/ ScanEnds

SettleFairness ==
    /\ WF_settle_vars(ScanGoesOn)
    /\ \A m \in HeldMarkets : SF_settle_vars(Looked /\ Head(scan.left) = m)

FairSettleSpec == SettleSpec /\ SettleFairness

----------------------------------------------------------------------------
SettleTypeOK ==
    /\ venue \in [HeldMarkets -> States]
    /\ shown \in [HeldMarkets -> SUBSET Decided]
    /\ moves \in 0 .. MaxMoves
    /\ redeemable \subseteq HeldMarkets
    /\ owned \subseteq HeldMarkets
    /\ account \in [HeldMarkets -> Marks \cup {None}]
    /\ poll \in [HeldMarkets -> Marks \cup {None}] \cup {None}
    /\ scan.at \in {"idle", "next", "publish"}
    /\ published \subseteq HeldMarkets
    /\ log \in [HeldMarkets -> Favours \cup {None}]
    /\ restarts \in 0 .. MaxRestarts

Says(mark, m) ==
    /\ mark = "won" => "yes" \in shown[m]
    /\ mark = "lost" => "no" \in shown[m]

(* What a position is marked as, in the account, in a poll on its way and in    *)
(* the log, is what Gamma favoured once the market was closed: prices while it  *)
(* is open make no mark, and where the closed market's prices never favoured    *)
(* another outcome than the decision (shown has that one alone) the mark is the *)
(* decision.  That it is final is not promised: the code marks before.          *)
MarksAreTrue ==
    \A m \in HeldMarkets :
        /\ Says(account[m], m)
        /\ poll # None => Says(poll[m], m)
        /\ log[m] \in Decided => log[m] \in shown[m]

(* A market that closes while its position is held and stays among the first of *)
(* the account, as many as a run takes up, is settled in the end: neither open  *)
(* markets before it nor failed lookups keep the scan from it.                  *)
ClosedIsSettled ==
    \A m \in HeldMarkets :
        <>[](~IsOpen(venue[m]) /\ m \in Range(WithinRun)) => []<>(m \in published)

=============================================================================
