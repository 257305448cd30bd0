------------------------------- MODULE MCHosts -------------------------------
(* The sides of two hosts: the hooks of one session with a retrieval gate,  *)
(* and the memory provider inside Hermes.  An instance that takes no part   *)
(* ("on" is FALSE) keeps the first of its initial states.                   *)
EXTENDS Integers, Sequences, FiniteSets

----------------------------------------------------------------------------
(* Two turns, a directory of two pages under two filters.                  *)

VARIABLES gates, order, hook, calls, gateInbox, pending, gateClosed, walk,
          gateLoad, expired, unseen

gateVars == << gates, order, hook, calls, gateInbox, pending, gateClosed,
               walk, gateLoad, expired, unseen >>

GateLoads ==
    LET Load(turns, many, ends, filters) ==
          [turns |-> turns, calls |-> many, expiries |-> ends, filters |-> filters] IN
    {Load(1, 2, 0, {"all", "due"}), Load(1, 1, 1, {"all"}), Load(2, 1, 0, {"all"}), Load(2, 0, 1, {"all"})}

Gate == INSTANCE RetrievalGate WITH
    Turns <- 2, Pages <- 2, Filters <- {"all", "due"}, Loads <- GateLoads,
    inbox <- gateInbox, closed <- gateClosed, load <- gateLoad

GateInit(on) == Gate!Init /\ (~on => gateLoad = CHOOSE any \in GateLoads : TRUE)
GateHolds == Gate!GateHolds

----------------------------------------------------------------------------
(* Three physical sessions and two turns of one conversation.              *)

CONSTANT Unknown

VARIABLES cur, aliases, links, deferred, jobOf, sync, rpc, told, parent, jobs,
          talkInbox, talkProcessed, given, acked, dropped, unlinked, fails,
          switches, talkLoad

providerVars == << cur, aliases, links, deferred, jobOf, sync, rpc, told,
    parent, jobs, talkInbox, talkProcessed, given, acked, dropped, unlinked,
    fails, switches, talkLoad >>

TalkLoads ==
    LET Load(turns, lost, work, kinds) ==
          [turns |-> turns, fails |-> lost, jobs |-> work, switches |-> kinds] IN
    {Load(1, 2, 1, << "compression", "compression" >>),
     Load(2, 1, 2, << "compression" >>), Load(2, 1, 1, << "resume" >>),
     Load(1, 1, 1, << "compression", "reset" >>),
     Load(1, 1, 1, << "initialize", "compression" >>),
     Load(1, 1, 1, << "shutdown" >>)}

Provider == INSTANCE HermesProvider WITH
    Sessions <- 1..3, Turns <- 1..2, None <- Unknown, Loads <- TalkLoads,
    MaxKept <- 2, inbox <- talkInbox, processed <- talkProcessed, load <- talkLoad

ProviderInit(on) == Provider!Init /\ (~on => talkLoad = CHOOSE any \in TalkLoads : TRUE)
ProviderHolds == Provider!ProviderHolds

----------------------------------------------------------------------------
(* Requests to remember a turn, along lines of sessions.                   *)

CONSTANT NoLine

VARIABLES continues, muted, privates, captured, requests, paid, commits, decisions, holder, doing,
          late, keepLoad, keepUsed

keepVars == << continues, muted, privates, captured, requests, paid, commits, decisions, holder, doing,
               late, keepLoad, keepUsed >>

Alone3 == [a |-> NoLine, b |-> NoLine, c |-> NoLine]
Continued == [Alone3 EXCEPT !.b = "a"]
Long == [Continued EXCEPT !.c = "b"]
Keeping(line, places) ==
    [parent |-> line, where |-> places, linking |-> {}, most |-> 2, requests |-> 1, captures |-> 1,
     revisions |-> 0, controls |-> 0, links |-> 0, calls |-> 1, passes |-> 2, failures |-> 0, crashes |-> 1]
Keepings == {
    [Keeping(Alone3, {<< "a", "t" >>}) EXCEPT !.revisions = 1],
    [Keeping(Continued, {<< "a", "t" >>, << "b", "t" >>}) EXCEPT !.controls = 1, !.passes = 1],
    [Keeping(Alone3, {<< "a", "t" >>}) EXCEPT !.controls = 2, !.crashes = 0, !.passes = 1],
    [Keeping(Continued, {<< "a", "t" >>, << "b", "t" >>}) EXCEPT !.links = 1, !.linking = {"b", "c"}, !.crashes = 0],
    [Keeping(Alone3, {<< "a", "t" >>, << "a", "u" >>}) EXCEPT !.most = 1, !.requests = 2, !.captures = 2, !.calls = 0, !.crashes = 0, !.passes = 2],
    [Keeping(Continued, {<< "a", "t" >>, << "b", "t" >>}) EXCEPT !.calls = 0, !.failures = 1, !.crashes = 2],
    [Keeping(Continued, {<< "a", "t" >>, << "b", "t" >>}) EXCEPT !.captures = 2, !.failures = 1, !.crashes = 0],
    [Keeping(Long, {<< "a", "t" >>, << "b", "t" >>, << "c", "t" >>}) EXCEPT !.controls = 1, !.calls = 0, !.passes = 1, !.crashes = 0]}

Keeper == INSTANCE Retention WITH Sessions <- {"a", "b", "c"}, Turns <- {"t", "u"},
    Host <- "host", Worker <- "worker", None <- NoLine, Loads <- Keepings,
    parent <- continues, off <- muted, hidden <- privates, heard <- captured, pending <- requests,
    runs <- paid, works <- commits, entries <- decisions, owner <- holder, job <- doing,
    slipped <- late, load <- keepLoad, used <- keepUsed

KeepInit(active) == Keeper!Init /\ (~active => keepLoad = CHOOSE l \in Keepings : TRUE)
RetentionHolds == Keeper!RetentionHolds
=============================================================================
