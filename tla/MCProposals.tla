----------------------------- MODULE MCProposals -----------------------------
(* The works of HostProposal: one per scene, with what its agent may read,  *)
(* propose and what a person changes meanwhile.                             *)
EXTENDS Integers, Sequences, FiniteSets, TLC

CONSTANT Unspecified

VARIABLES heads, policy, dossier, pages, scene, seen, remarks, newest, futile

proposalVars == << heads, policy, dossier, pages, scene, seen, remarks, newest, futile >>

Nil == [n \in {} |-> Unspecified]

Fact(title, body) ==
    [type |-> "fact", title |-> title, body |-> body, scopes |-> {"s"}, status |-> Unspecified,
     actionable |-> FALSE, assignee |-> Unspecified, due_date |-> Unspecified, completed_at |-> Unspecified,
     validity |-> "valid", merged_into |-> Unspecified, explicit |-> FALSE]
Todo(title, body, status) == [Fact(title, body) EXCEPT !.type = "todo", !.status = status]
Gone(title) == [Fact(title, << >>) EXCEPT !.validity = "retracted"]

Says(role, text) == [role |-> role, text |-> text, time |-> Unspecified]
Quote(source, word) == [source |-> source, quote |-> word, occurrence |-> Unspecified]
Again(source, word, k) == [Quote(source, word) EXCEPT !.occurrence = k]

Blank(action) ==
    [action |-> action, assertion |-> Unspecified, evidence |-> {}, fields |-> Nil, basis |-> Nil,
     patches |-> << >>, transition |-> "normal", target |-> Unspecified, duplicates |-> << >>,
     body |-> << >>, mapping |-> Nil, resolutions |-> {}, refs |-> {}]

Create(quotes, fields) ==
    [Blank("CREATE") EXCEPT !.assertion = "user_fact", !.evidence = quotes, !.fields = fields]
Update(m, quotes) ==
    [Blank("patch") EXCEPT !.assertion = "user_fact", !.evidence = quotes, !.target = m]
Replace(f, old, new, quotes) ==
    [op |-> "replace", fragment |-> f, old |-> old, new |-> new, evidence |-> quotes]
Cut(f, old, quotes) == [Replace(f, old, Unspecified, quotes) EXCEPT !.op = "retract"]
Adds(new, quotes) == [Replace(0, Unspecified, new, quotes) EXCEPT !.op = "append"]
Patch(m, quotes, patches) == [Update(m, quotes) EXCEPT !.patches = patches]
Change(m, quotes, fields) == [Update(m, quotes) EXCEPT !.fields = fields]
Retract(m, quotes) == [Blank("retract_memory") EXCEPT !.target = m, !.evidence = quotes]
Restore(m, quotes, body) ==
    [Blank("restore") EXCEPT !.target = m, !.evidence = quotes, !.body = body]
Merge(m, others, resolutions) ==
    [Blank("MERGE") EXCEPT !.target = m, !.duplicates = others, !.resolutions = resolutions]
Keep(field, m, quotes) == [field |-> field, keep |-> m, evidence |-> quotes]
Compact(m, body, mapping) ==
    [Blank("COMPACT") EXCEPT !.target = m, !.body = body, !.mapping = mapping]
Same(m, quotes) == [Blank("NO_CHANGE") EXCEPT !.target = m, !.evidence = quotes]
NoMemory(sources) == [Blank("NO_MEMORY") EXCEPT !.refs = sources]
Later(sources) == [Blank("DEFERRED") EXCEPT !.refs = sources]

Cited(item) ==
    LET all == item.evidence \cup UNION {item.basis[n] : n \in DOMAIN item.basis}
               \cup UNION {item.patches[k].evidence : k \in 1..Len(item.patches)}
               \cup UNION {r.evidence : r \in item.resolutions}
    IN item.refs \cup {b.source : b \in all}

(* An offer whose coverage says what its items cite. *)
Offer(items) ==
    LET ids == DOMAIN items  cited == [i \in ids |-> Cited(items[i])]
        sources == UNION {cited[i] : i \in ids} IN
    [items |-> items, coverage |-> [s \in sources |-> {i \in ids : s \in cited[i]}],
     place |-> [i \in ids |-> IF i = "i" THEN 1 ELSE 2], basis |-> {}]
One(item) == Offer([i \in {"i"} |-> item])
Second(item) == Offer([j \in {"j"} |-> item])
ByAgent(item) == [item EXCEPT !.assertion = "assistant_report"]
Two(item, other) == Offer([i \in {"i", "j"} |-> IF i = "i" THEN item ELSE other])

Known == {"a", "b", "n", "i", "j"}
Heads(a, b) == [m \in Known |-> CASE m = "a" -> a [] m = "b" -> b [] OTHER -> Unspecified]

OnlyOf(source, offer) == [offer EXCEPT !.coverage = [s \in {source} |-> offer.coverage[s]]]

User == Quote("e1", "yes")
Agent == Quote("e2", "done")
Turn == [e1 |-> Says("user", << "yes", "p2", "tomorrow" >>), e2 |-> Says("assistant", << "done", "yes" >>)]
Words == Fact("t", << "p", "q", "r", "s", "u" >>)

Base ==
    [sources |-> Turn, order |-> << "e1", "e2" >>, covered |-> {}, native |-> {"n"},
     mem |-> Heads(Words, Unspecified), asked |-> {"a", "b"}, purpose |-> "automatic",
     permissions |-> {"memory.retract", "memory.maintain"}, writeScopes |-> {"s"}, approved |-> {},
     days |-> [w \in {"may2"} |-> 2], reads |-> {<< "a" >>}, offers |-> {}, edited |-> Nil,
     edits |-> 0, configurable |-> FALSE]

Chore(status) == [type |-> "todo", title |-> "new", body |-> << "p2" >>, scopes |-> {"s"}, status |-> status]
Note == [type |-> "fact", title |-> "new", body |-> << "p2" >>, scopes |-> {"s"}]

Desks ==
    [patch |-> [Base EXCEPT !.edits = 1, !.edited = [m \in {"a"} |-> {Fact("mine", Words.body)}],
        !.offers = {
            Two(Patch("a", {User}, << Replace(1, "q", "p2", {User}), Cut(3, "u", {User}) >>), NoMemory({"e2"})),
            Two(Patch("a", {Agent}, << Cut(1, "p", {Agent}) >>), NoMemory({"e1"})),
            One(Patch("a", {User, Agent}, << Replace(2, "r", "x", {Agent}), Replace(2, "r", "y", {Agent}) >>)),
            Two(Later({"e1"}), NoMemory({"e2"})),
            Two(Patch("a", {User}, << Adds("p2", {User}) >>), Same("a", {Agent})),
            Two(Same("a", {Agent}), Patch("a", {User}, << Adds("p2", {User}) >>)),
            One(Same("a", {User})), [One(Same("a", {User})) EXCEPT !.coverage = [s \in {"e1", "e2"} |-> {"i"}]]}],
     rewrite |-> [Base EXCEPT !.mem = Heads(Fact("t", << "p", "q" >>), Unspecified), !.offers = {
            Two(Patch("a", {User}, << Replace(1, "p", "x", {User}), Replace(1, "q", "y", {User}) >>), NoMemory({"e2"})),
            Two(Patch("a", {User}, << Replace(1, "p", "x", {User}) >>),
                Patch("a", {Agent, User}, << Replace(1, "q", "y", {User}) >>)),
            Two(Patch("a", {User}, << Replace(1, "p", "x", {User}) >>), Later({"e2"})),
            One(Patch("a", {Agent, User}, << Replace(1, "q", "y", {User}) >>)),
            Second(ByAgent(Patch("a", {Agent}, << Replace(1, "x", "z", {Agent}) >>))),
            Second(ByAgent(Patch("a", {Agent}, << Replace(1, "q", "y", {Agent}) >>)))}],
     todo |-> [Base EXCEPT !.mem = Heads(Todo("t", << "p" >>, "completed"), Gone("g")), !.reads = {<< "a", "b" >>},
        !.sources.e1.time = 1, !.purpose = "explicit", !.offers = {
            Two(Change("a", {User}, [n \in {"status"} |-> "active"]), NoMemory({"e2"})),
            Two([Change("a", {User}, [n \in {"status"} |-> "active"]) EXCEPT !.transition = "reopen"],
                Restore("b", {Agent, User}, << "back" >>)),
            Two(Create({User, Quote("e1", "tomorrow")}, Chore("active") @@ [n \in {"due_date"} |-> 2]),
                Restore("b", {Agent}, << "back" >>)),
            Two(Create({User}, Note), Create({Agent, User}, Chore("completed") @@ [n \in {"completed_at"} |-> "done"])),
            Two(Create({User}, Chore("active") @@ [n \in {"due_date"} |-> 3]),
                ByAgent(Create({Agent}, Note))),
            Two(Restore("b", {User}, << "back" >>), NoMemory({"e2"})),
            Two([ByAgent(Change("a", {Agent}, [n \in {"status"} |-> "active"])) EXCEPT !.transition = "reopen"],
                Create({User}, [n \in DOMAIN Note |-> IF n = "type" THEN "todo" ELSE Note[n]])),
            Two(Create({User, Quote("e1", "p2")}, Chore("active") @@ [n \in {"completed_at"} |-> "p2"]), Later({"e2"})),
            Two(Retract("a", {User}), Retract("a", {Agent, User}))}],
     merge |-> [Base EXCEPT !.mem = Heads(Fact("t", << "p", "q" >>), [Fact("t2", << "p", "r", "s" >>) EXCEPT !.explicit = TRUE, !.scopes = {"s", "u"}]),
        !.writeScopes = {"s", "u"},
        !.reads = {<< "a", "b" >>, << "b" >>}, !.edits = 1,
        !.edited = [m \in {"b"} |-> {Fact("mine", << "w" >>)}], !.offers = {
            Two(Merge("a", << "b" >>, {Keep("title", "b", {User})}), NoMemory({"e2"})),
            Two(Merge("b", << "a" >>, {Keep("title", "a", {Agent})}), NoMemory({"e1"})),
            Two(Merge("a", << "b" >>, {}), NoMemory({"e1", "e2"})),
            Two(Merge("b", << "a" >>, {Keep("title", "b", {User})}), Later({"e2"})),
            Second(Merge("a", << "b" >>, {Keep("title", "a", {User, Agent})}))}],
     aliases |-> [Base EXCEPT !.reads = {<< "a" >>, << "b" >>},
        !.mem = Heads(Fact("t", << "p" >>), [Gone("t") EXCEPT !.merged_into = "a"]), !.offers = {
            Two(Restore("b", {User}, << "back" >>), NoMemory({"e2"})),
            Two(Merge("b", << "a" >>, {}), NoMemory({"e1", "e2"})),
            Two(Merge("a", << "b" >>, {}), NoMemory({"e1", "e2"})),
            Two(Same("b", {User}), NoMemory({"e2"}))}],
     compact |-> [Base EXCEPT !.purpose = "maintenance", !.sources = Nil, !.order = << >>,
        !.approved = {[target |-> "a", revision |-> Words, body |-> << "p", "s" >>]},
        !.edits = 1, !.edited = [m \in {"a"} |-> {Fact("mine", Words.body)}],
        !.offers = {[One(Compact("a", << "p", "s" >>, << "p", "s", "s" >>)) EXCEPT !.basis = {"a"}],
                    [One(Compact("a", << "p", "s", "x" >>, << "p", "s", "s" >>)) EXCEPT !.basis = {"a"}],
                    [One(Compact("a", << "p" >>, << "p", "p", "p" >>)) EXCEPT !.basis = {"a"}]}],
     native |-> [Base EXCEPT !.mem = [Heads(Words, Unspecified) EXCEPT !["n"] = Fact("n", << "p2" >>)],
        !.asked = {"a", "n"}, !.reads = {<< "n" >>}, !.edits = 1, !.edited = [m \in {"n"} |-> {Fact("n", << "w" >>)}],
        !.offers = {Two(Same("n", {User}), NoMemory({"e2"})), Two(Retract("n", {User}), NoMemory({"e2"})),
                    Two(Merge("a", << "n" >>, {}), NoMemory({"e1", "e2"}))}],
     hidden |-> [Base EXCEPT !.mem = [Heads(Words, Unspecified) EXCEPT !["n"] = Fact("n", << "p2" >>)],
        !.edits = 2, !.edited = [m \in {"a", "n"} |-> IF m = "a" THEN {Fact("mine", Words.body)}
            ELSE {Fact("n", << "w" >>), Fact("n", << "p2" >>)}],
        !.offers = {Two(Retract("a", {User}), Create({Agent, User}, Note))}],
     policy |-> [Base EXCEPT !.edits = 1, !.configurable = TRUE, !.covered = {"e1"}, !.permissions = {},
        !.offers = {OnlyOf("e2", Two(Retract("a", {User}), NoMemory({"e2"}))),
                    OnlyOf("e2", Two(Create({User}, Note), NoMemory({"e2"}))), One(Create({User}, Note))}]]

Proposal == INSTANCE HostProposal WITH
    None <- Unspecified, Mems <- Known, Worlds <- Desks, mem <- heads, config <- policy, work <- dossier,
    cursors <- pages, world <- scene, shown <- seen, edits <- remarks, fresh <- newest, vain <- futile

\* The worlds are of the form that the theorems assume.
ASSUME WorldsAreRight == Proposal!WorldsRight

ProposalInit(on) == Proposal!Init /\ (~on => scene = "policy")
ProposalHolds == Proposal!ProposalHolds
=============================================================================
