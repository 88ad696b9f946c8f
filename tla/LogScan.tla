------------------------------- MODULE LogScan -------------------------------
(***************************************************************************)
(* LogScanner.ScanBlock (internal/scanner/log_scanner.go): the native      *)
(* transfers and the token transfers of one block to registered accounts.  *)
(*                                                                         *)
(* A block is read with retry.Do; the candidates among its transactions    *)
(* are matched with one query; the sender of every match is looked up by   *)
(* goroutines of an errgroup; then the logs of the registered contracts    *)
(* are read, decoded and matched.  A call returns all of its events or an  *)
(* error.                                                                  *)
(*                                                                         *)
(* An item is a transaction ("tx"), a log ("log") or an internal call with *)
(* value ("call", found by the trace scanner) of a block of the chain.     *)
(* item.fit says of a transaction that it is a plain transfer of a         *)
(* positive value and of a log that its topics and data have the length    *)
(* its decoder needs.  Amounts, symbols and times are left out.            *)
(***************************************************************************)
EXTENDS Retry, FiniteSets

CONSTANTS
  Items,        \* the items the chain may hold
  Accounts,     \* the addresses that may be registered
  Registered,   \* those that are from the beginning
  Contracts,    \* the token contracts of the chain (ChainConfig.Contracts)
  Errors,       \* what a call to the node may fail with
  Transient,    \* those of them that pass
  MaxFaults     \* bound: failed calls and queries, cancellations, deep reorgs

ASSUME LogScanAssumption ==
  Registered \subseteq Accounts /\ Transient \subseteq Errors /\ MaxFaults \in Nat

VARIABLES
  chainType,    \* "erc20" or "eerc20" (chain_type of the chain)
  chain,        \* the items of the canonical chain
  accounts,     \* the accounts table
  scan,         \* where the call of ScanBlock is; "idle", "done", "failed" outside
  blk,          \* the block it scans
  try,          \* its outstanding calls to the node, each in retry.Do
  cand,         \* candidates that are not matched with accounts yet
  found,        \* the events so far
  ctxDone,      \* its context is done
  faults,
  hist          \* history of the call: accounts and items of its beginning, the
                \* number of transient errors, whether there was another failure

logVars == <<chainType, chain, accounts, scan, blk, try, cand, found, ctxDone, faults, hist>>

world == <<chainType, chain, accounts>>

ScanStates == {"idle", "block", "accounts", "senders", "logs", "receivers", "done", "failed"}

NoCall == [accounts |-> {}, items |-> {}, errs |-> 0, hard |-> FALSE]

LogInit ==
  /\ chainType \in {"erc20", "eerc20"}
  /\ chain = Items
  /\ accounts = Registered
  /\ scan = "idle"
  /\ blk = 0
  /\ try = [k \in {} |-> Started]
  /\ cand = {}
  /\ found = {}
  /\ ctxDone = FALSE
  /\ faults = 0
  /\ hist = NoCall

Fault == faults < MaxFaults /\ faults' = faults + 1

\* A failure that no retry is expected to absorb.
HardFault == Fault /\ hist' = [hist EXCEPT !.hard = TRUE]

Of(kind, b) == {x \in chain : x.kind = kind /\ x.block = b}

-----------------------------------------------------------------------------
(* Candidates, decoders, keys                                              *)

\* Slip: the position in the list of results, which is the order of arrival.
NativeLogIndexByArrival(x) == -1 - Cardinality(found)

NativeLogIndex(x) == -1 - x.tx

\* What UNIQUE (chain_id, tx_hash, log_index) compares.
Event(x) ==
  [item |-> x, tx |-> <<x.block, x.tx>>,
   logIndex |-> IF x.kind = "tx" THEN NativeLogIndex(x) ELSE x.pos]

\* decodersForChain: one decoder, of one topic, by the type of the chain.
DecoderTopic == IF chainType = "eerc20" THEN "PrivateTransfer" ELSE "Transfer"

FilterLogs(b) == {x \in Of("log", b) : x.contract \in Contracts /\ x.topic = DecoderTopic}

\* EERC.Decode: every log of the right length ends in DecryptAmount, which is not
\* implemented.  StandardERC20.Decode never fails.
DecodeFails(x) == x.topic = "PrivateTransfer" /\ x.fit

\* The candidates whose receiver is registered, by one query.
HasMany(S) == {x \in S : x.to \in accounts}

-----------------------------------------------------------------------------
(* Calls to the node                                                       *)

\* A call is named by the set of items it is about: {x} for the sender of x, {} for
\* the block and for its logs.
Ask(ids) == try' = [k \in ids |-> Started]

Whole == {{}}

Answered == \A k \in DOMAIN try : try[k].at = "ok"

\* The context of the calls: errgroup cancels it with the first error.
Cancelled == ctxDone \/ \E k \in DOMAIN try : try[k].at = "err"

\* fn of call k returns an error of the node.
CallFails(k, e) ==
  /\ try[k].at = "fn"
  /\ Fault
  /\ try' = [try EXCEPT ![k] = Failed(@, e)]
  /\ hist' = IF e \in Transient THEN [hist EXCEPT !.errs = @ + 1]
                                ELSE [hist EXCEPT !.hard = TRUE]
  /\ UNCHANGED <<world, scan, blk, cand, found, ctxDone>>

CallResumes(k) ==
  /\ try[k].at = "wait"
  /\ try' = [try EXCEPT ![k] = Resumed(@)]
  /\ UNCHANGED <<world, scan, blk, cand, found, ctxDone, faults, hist>>

CallGivesUp(k) ==
  /\ try[k].at \in {"fn", "wait"}
  /\ Cancelled
  /\ try' = [try EXCEPT ![k] = GivenUp(@)]
  /\ UNCHANGED <<world, scan, blk, cand, found, ctxDone, faults, hist>>

\* The answer to k arrives; a lookup of a sender appends its event (under mu).
CallAnswers(k) ==
  /\ try[k].at = "fn"
  /\ try' = [try EXCEPT ![k] = Succeeded(@)]
  /\ found' = found \cup {Event(x) : x \in k}
  /\ UNCHANGED <<world, scan, blk, cand, ctxDone, faults, hist>>

-----------------------------------------------------------------------------
(* The steps of ScanBlock                                                  *)

\* The call of ScanBlock(b).
CallScan(b) ==
  /\ blk' = b
  /\ scan' = "block"
  /\ Ask(Whole)
  /\ cand' = {}
  /\ found' = {}
  /\ hist' = [accounts |-> accounts, items |-> {x \in chain : x.block = b},
               errs |-> 0, hard |-> FALSE]

\* The caller is done with the result.
EndCall ==
  /\ scan' = "idle"
  /\ blk' = 0
  /\ Ask({})
  /\ cand' = {}
  /\ found' = {}
  /\ hist' = NoCall

\* parseTokenTransfers is called when the chain has contracts; its first call.
AskLogs ==
  IF Contracts = {} THEN scan' = "done" /\ Ask({})
                    ELSE scan' = "logs" /\ Ask(Whole)

\* parseNativeTransfers: the candidates, from memory.
BlockRead ==
  /\ scan = "block" /\ Answered
  /\ cand' = {x \in Of("tx", blk) : x.fit}
  /\ IF cand' = {} THEN AskLogs ELSE scan' = "accounts" /\ Ask({})
  /\ UNCHANGED <<world, blk, found, ctxDone, faults, hist>>

\* HasMany; one lookup of a sender for each match.
MatchAccounts ==
  /\ scan = "accounts"
  /\ scan' = "senders"
  /\ Ask({{x} : x \in HasMany(cand)})
  /\ cand' = {}
  /\ UNCHANGED <<world, blk, found, ctxDone, faults, hist>>

\* Slip: the error of g.Wait is dropped.
SendersDoneAnyway ==
  /\ scan = "senders"
  /\ \A k \in DOMAIN try : try[k].at \in {"ok", "err"}
  /\ AskLogs
  /\ UNCHANGED <<world, blk, cand, found, ctxDone, faults, hist>>

\* g.Wait returns without an error.
SendersDone ==
  /\ scan = "senders" /\ Answered
  /\ AskLogs
  /\ UNCHANGED <<world, blk, cand, found, ctxDone, faults, hist>>

\* The logs are decoded one by one; an error of a decoder fails the block.
LogsRead ==
  /\ scan = "logs" /\ Answered
  /\ Ask({})
  /\ LET logs == FilterLogs(blk) IN
       IF \E x \in logs : DecodeFails(x)
       THEN cand' = {} /\ scan' = "failed" /\ hist' = [hist EXCEPT !.hard = TRUE]
       ELSE /\ cand' = {x \in logs : x.fit}
            /\ scan' = IF cand' = {} THEN "done" ELSE "receivers"
            /\ UNCHANGED hist
  /\ UNCHANGED <<world, blk, found, ctxDone, faults>>

\* HasMany for the receivers of the decoded logs.
MatchReceivers ==
  /\ scan = "receivers"
  /\ scan' = "done"
  /\ found' = found \cup {Event(x) : x \in HasMany(cand)}
  /\ cand' = {}
  /\ UNCHANGED <<world, blk, try, ctxDone, faults, hist>>

\* A query of the accounts fails, by itself or because the context is done.
HasManyFails ==
  /\ scan \in {"accounts", "receivers"}
  /\ scan' = "failed"
  /\ cand' = {}
  /\ HardFault \/ (ctxDone /\ UNCHANGED <<faults, hist>>)
  /\ UNCHANGED <<world, blk, try, found, ctxDone>>

\* retry.Do returns an error; g.Wait does when every goroutine has ended.
CallsFailed ==
  /\ scan \in {"block", "senders", "logs"}
  /\ \E k \in DOMAIN try : try[k].at = "err"
  /\ \A k \in DOMAIN try : try[k].at \in {"ok", "err"}
  /\ scan' = "failed"
  /\ Ask({})
  /\ UNCHANGED <<world, blk, cand, found, ctxDone, faults, hist>>

ScanStep ==
  \/ BlockRead \/ MatchAccounts \/ SendersDone \/ LogsRead \/ MatchReceivers
  \/ HasManyFails \/ CallsFailed
  \/ \E k \in DOMAIN try : CallAnswers(k) \/ CallResumes(k) \/ CallGivesUp(k)

ScanFault == \E k \in DOMAIN try, e \in Errors : CallFails(k, e)

-----------------------------------------------------------------------------
(* Properties                                                              *)

\* The deposits of block b among items, for the accounts of a: plain transfers and
\* transfers of registered tokens of the standard the chain uses.
Due(items, b, a) ==
  {x \in items : /\ x.block = b /\ x.to \in a /\ x.fit
                 /\ \/ x.kind = "tx"
                    \/ /\ x.kind = "log" /\ x.contract \in Contracts
                       /\ x.topic = DecoderTopic}

\* ScanBlock returns all or nothing (log_scanner.go:63-96): a call that succeeds has
\* every deposit of its block to an account that was registered when it began, whatever
\* the order in which the lookups of senders answered and whatever was retried, and
\* nothing but deposits to registered accounts.
CompleteScan ==
  scan = "done" =>
    LET got == {e.item : e \in found} IN
      /\ Due(chain, blk, hist.accounts) \subseteq got
      /\ got \subseteq Due(hist.items, blk, accounts)

\* What retry.Do promises its callers (retry.go:22): a scan fails only after an error
\* that does not pass, the end of its context, or more transient errors than
\* MaxRetries. Few transient errors, wherever they fall among the parallel lookups,
\* cost nothing.
TransientTolerated == scan = "failed" /\ ~hist.hard => hist.errs > MaxRetries
=============================================================================
