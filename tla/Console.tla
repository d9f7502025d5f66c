------------------------------- MODULE Console -------------------------------
(***************************************************************************)
(* The operator's panels: web-v5/src/screens/Operator.tsx, the sections of *)
(* dashboard/src/screens/OperatorScreen.tsx, and the routes they ask       *)
(* (routes/billing.ts, admin-apps.ts, admin-config.ts, admin-mail.ts,      *)
(* admin-users.ts, admin-devices.ts).  And four of the customer's, who     *)
(* shares his app with others: the dashboard's GroupsScreen.tsx and        *)
(* TemplatesScreen.tsx, the phones of web-v5/src/screens/Plan.tsx, and the *)
(* companies of its Apps.tsx, who may have it open in two tabs.            *)
(*                                                                         *)
(* Users have one panel open, each in a tab of his own.  A panel loads     *)
(* its rows, a button of a row asks for a change, and a change that was    *)
(* made is followed by another load, or the reply is shown. Requests are  *)
(* served one at a time, answered in any order, or lost on the way there   *)
(* or back.                                                                *)
(*                                                                         *)
(* Credentials are the Browser module's; what an approval awards is the    *)
(* Payments module's: here it is a row that is settled.                    *)
(***************************************************************************)
EXTENDS Integers, FiniteSets

CONSTANTS
    Tab,        \* users, each with his tab
    Row,        \* the rows of a panel
    Key,        \* the rows of "settings"
    Panel,      \* the panels that are opened
    Value,      \* terms of a package, apps of a phone, values of a key
    MaxPresses, \* bound: buttons pressed, and requests made without a screen
    Nil         \* no tab, row or rows

Panels == {"queue", "apps", "payments", "packages", "users", "devices", "settings",
           "mail", "approvals", "registry", "switch", "groups", "templates", "plan",
           "companies"}

ASSUME ConsoleAssumption ==
    Panel \subseteq Panels /\ MaxPresses \in Nat /\ 0 \in Value /\ Nil \notin Row \union Key \union Tab

VARIABLES
    panel,      \* the panel
    is,         \* the server's rows
    used,       \* the server: packages that a transaction has bought
    sees,       \* what a tab shows of the rows
    busy,       \* whether a tab's buttons wait for an answer
    awaiting,   \* whether a tab's Refresh does
    error,      \* whether a tab shows an error
    req,        \* the requests under way, served or not
    pressed,    \* how many buttons were pressed
    due,        \* history: a tab shows rows from before a change it was told of
    slip        \* history: and an older load came last, or the error was wiped away

tabVars == <<sees, busy, awaiting, error>>
consoleVars == <<panel, is, used, tabVars, req, pressed, due, slip>>

At(p) == panel = p
Item == IF At("settings") THEN Key ELSE Row
As(state, value) == [state |-> state, value |-> value]
Do(what, value) == [what |-> what, value |-> value]
Look == Do("look", 0)

State == {"unseen", "pending", "approved", "rejected", "matched", "unmatched", "live",
          "revoked", "active", "retired", "none", "enabled", "withheld", "set"}
(* The changes the clients have calls for. *)
QueueCalls    == {"approve", "reject"}
AppsCalls     == {"revoke", "unrevoke"}
PaymentCalls  == {"approve", "reject", "attach"}
PackageCalls  == {"create", "patch", "retire", "reactivate"}
UserCalls     == {"withhold", "enable"}
DeviceCalls   == {"bind"}
SettingsCalls == {"put"}
MailCalls     == {"put"}
ApprovalCalls == {"approve", "reject"}
RegistryCalls == {"register", "revoke", "unrevoke", "put"}
SwitchCalls   == {"put"}
GroupCalls    == {"make", "edit", "delete", "view"}
TemplateCalls == {"make", "edit", "delete"}
PlanCalls     == {"drop"}
CompanyCalls  == {"found", "rename", "disable"}

Calls ==
    [queue |-> QueueCalls, apps |-> AppsCalls, payments |-> PaymentCalls,
     packages |-> PackageCalls, users |-> UserCalls, devices |-> DeviceCalls,
     settings |-> SettingsCalls, mail |-> MailCalls, approvals |-> ApprovalCalls,
     registry |-> RegistryCalls, switch |-> SwitchCalls, groups |-> GroupCalls,
     templates |-> TemplateCalls, plan |-> PlanCalls, companies |-> CompanyCalls][panel]

Rows == [Item -> [state : State, value : Value]]

\* old: whether the tab was told of a change after the load was sent.
ConsoleTypeOK ==
    /\ panel \in Panel /\ is \in Rows /\ used \subseteq Item
    /\ sees \in [Tab -> Rows \union {Nil}] /\ pressed \in 0..MaxPresses
    /\ {busy, awaiting, error, due, slip} \subseteq [Tab -> BOOLEAN]
    /\ req \subseteq [n : 0..MaxPresses, by : Tab \union {Nil}, row : Item \union {Nil},
                      want : [what : Calls \union {"look"}, value : Value], old : BOOLEAN,
                      answer : {"none", "ok", "failed"}, rows : Rows \union {Nil}]

Sent(t, n, x, w) ==
    [n |-> n, by |-> t, row |-> x, want |-> w, old |-> FALSE, answer |-> "none", rows |-> Nil]
Load(t, n) == Sent(t, n, Nil, Look)
Looks(q) == q.want = Look

\* The rows a panel can begin with.
Begins ==
    [queue |-> {As("pending", 0)}, approvals |-> {As("pending", 0)},
     apps |-> {As("live", 0)}, registry |-> {As("none", 0), As("live", 0)},
     payments |-> {As("matched", 0), As("unmatched", 0)},
     packages |-> {As("none", 0), As("active", 0)},
     users |-> {As("enabled", 0)}, devices |-> {As("live", 0)},
     settings |-> {As("set", 0)}, mail |-> {As("none", 0)}, switch |-> {As("set", 0)},
     groups |-> {As("none", 0), As("live", 0)}, templates |-> {As("none", 0), As("live", 0)},
     plan |-> {As("live", 0)}, companies |-> {As("none", 0), As("live", 0)}]

\* A panel is opened: its load is under way.  The switch has none.
ConsoleInit ==
    /\ panel \in Panel /\ is \in [Item -> Begins[panel]] /\ used = {}
    /\ sees = [t \in Tab |-> Nil] /\ busy = [t \in Tab |-> FALSE]
    /\ awaiting = [t \in Tab |-> panel # "switch"] /\ error = busy
    /\ req = (IF panel = "switch" THEN {} ELSE {Load(t, 0) : t \in Tab})
    /\ pressed = 0 /\ due = busy /\ slip = busy

-----------------------------------------------------------------------------
(* What the buttons of a row offer                                          *)

BillingQueueView(v) == IF v.state = "pending" THEN {Do("approve", 0), Do("reject", 0)} ELSE {}

AppsView(v) ==
    IF v.state = "live" THEN {Do("revoke", 0)}
    ELSE IF v.state = "revoked" THEN {Do("unrevoke", 0)} ELSE {}

AttachPicker(v) == IF v.state = "unmatched" THEN {Do("attach", 0)} ELSE {}

PaymentsView(v) ==
    IF v.state \notin {"matched", "unmatched"} THEN {}
    ELSE {Do("reject", 0)} \union AttachPicker(v)
         \union (IF v.state = "matched" THEN {Do("approve", 0)} ELSE {})

\* The form on top of the panel, there before the rows are.
CreateForm == {Do("create", n) : n \in Value}

\* A row's form sends all of its terms; its other button says what the row is not.
PackagesView(v) ==
    IF v.state \notin {"active", "retired"} THEN {}
    ELSE {Do("patch", n) : n \in Value}
         \union {Do(IF v.state = "active" THEN "retire" ELSE "reactivate", 0)}

UsersView(v) ==
    IF v.state = "unseen" THEN {}
    ELSE {Do(IF v.state = "enabled" THEN "withhold" ELSE "enable", 0)}

\* 0 is the fleet.
DevicesView(v) == IF v.state = "live" THEN {Do("bind", n) : n \in Value \ {v.value}} ELSE {}

SettingsView(v) == IF v.state = "unseen" THEN {} ELSE {Do("put", n) : n \in Value}

\* The form does not wait for what it shows.
MailSettingsView == {Do("put", n) : n \in Value}

KillSwitch == {Do("put", n) : n \in Value}

\* The registry's form, there before the apps are; of an app, its webhook.
RegistryView(v) ==
    {Do("register", n) : n \in Value} \union AppsView(v)
    \union (IF v.state \in {"live", "revoked"} THEN {Do("put", n) : n \in Value} ELSE {})

\* New groups and new templates, before the rows are there; of a row, its own.
MakeForm == {Do("make", n) : n \in Value}

OwnView(v) ==
    MakeForm \union (IF v.state = "live" THEN {Do("edit", n) : n \in Value} \union {Do("delete", 0)}
                     ELSE {})

\* The customer's phones: a deleted one has no button.
DeviceListView(v) == IF v.state = "live" THEN {Do("drop", 0)} ELSE {}

\* Creating a company, whatever is shown; of a company, a name it does not have.
CompaniesView(v) ==
    {Do("found", n) : n \in Value}
    \union (IF v.state \in {"live", "withheld"} THEN {Do("rename", n) : n \in Value \ {v.value}}
            ELSE {})
    \union (IF v.state = "live" THEN {Do("disable", 0)} ELSE {})

Offers(v) ==
    [queue |-> BillingQueueView(v), approvals |-> BillingQueueView(v),
     apps |-> AppsView(v), registry |-> RegistryView(v), payments |-> PaymentsView(v),
     packages |-> PackagesView(v) \union CreateForm, users |-> UsersView(v),
     devices |-> DevicesView(v), settings |-> SettingsView(v), mail |-> MailSettingsView,
     switch |-> KillSwitch, groups |-> OwnView(v), templates |-> OwnView(v),
     plan |-> DeviceListView(v), companies |-> CompaniesView(v)][panel]

-----------------------------------------------------------------------------
(* The routes                                                               *)

\* POST billing/approve, and the payments' own: what is settled stays so.
Settle(v, w) ==
    IF v.state \in {"pending", "matched", "unmatched"}
    THEN As(IF w.what = "reject" THEN "rejected" ELSE "approved", v.value) ELSE Nil

\* POST apps: an id is registered once.
Register(v, w) == IF v.state = "none" THEN As("live", w.value) ELSE Nil

\* POST apps/:id/revoke and unrevoke: a second time is a conflict.
Revoke(v)   == IF v.state = "live" THEN As("revoked", v.value) ELSE Nil
Unrevoke(v) == IF v.state = "revoked" THEN As("live", v.value) ELSE Nil

\* PATCH apps/:id/webhook.
Webhook(v, w) == IF v.state = "none" THEN Nil ELSE As(v.state, w.value)

\* POST packages: makes a package, or sets all of one, which is active again.
Upsert(w) == As("active", w.value)

\* PATCH packages/:code: what the body names, of a package there is.
Patch(v, w) ==
    IF v.state = "none" THEN Nil
    ELSE IF w.what = "reactivate" THEN As("active", v.value) ELSE As(v.state, w.value)

\* POST packages/:code/retire: a second time does nothing.
Retire(v) == IF v.state = "none" THEN Nil ELSE As("retired", v.value)

\* POST users/:id/disable and enable: a second time is no conflict.
Toggle(v, w) == As(IF w.what = "withhold" THEN "withheld" ELSE "enabled", v.value)

\* POST devices/:id/bind.
Bind(v, w) == As(v.state, w.value)

\* PUT config/:key.
PutConfig(w) == As("set", w.value)

\* PUT mail-config.
PutMail(w) == As("set", w.value)

\* POST kill-switch: the same state again is no conflict.
Flip(w) == As("set", w.value)

\* POST contact-groups and message-templates: a name is taken once.
Make(v, w) == IF v.state = "none" THEN As("live", w.value) ELSE Nil

\* PATCH, and a group's phones; DELETE; GET of a group: of one there is.
Edit(v, w) == IF v.state = "none" THEN Nil ELSE As("live", w.value)
Erase(v)   == IF v.state = "none" THEN Nil ELSE As("none", 0)
Detail(v)  == IF v.state = "none" THEN Nil ELSE v

\* DELETE apps/devices/:id: a second time is no conflict.
Unbind(v) == As("revoked", v.value)

\* POST auth/companies: a new one.
Found(v, w) == IF v.state = "none" THEN As("live", w.value) ELSE Nil

\* PATCH auth/companies/:id, a disabled one's too, and disable: a second time is no
\* conflict.
Rename(v, w) == IF v.state = "none" THEN Nil ELSE As(v.state, w.value)
Disable(v)   == IF v.state = "none" THEN Nil ELSE As("withheld", v.value)

\* What a route makes of a row, or Nil if it refuses.
Route(v, w) ==
    CASE w.what \in {"approve", "reject", "attach"} -> Settle(v, w)
      [] w.what = "register" -> Register(v, w)
      [] w.what = "revoke" -> Revoke(v)
      [] w.what = "unrevoke" -> Unrevoke(v)
      [] w.what = "create" -> Upsert(w)
      [] w.what \in {"patch", "reactivate"} -> Patch(v, w)
      [] w.what = "retire" -> Retire(v)
      [] w.what \in {"withhold", "enable"} -> Toggle(v, w)
      [] w.what = "bind" -> Bind(v, w)
      [] w.what = "make" -> Make(v, w)
      [] w.what = "edit" -> Edit(v, w)
      [] w.what = "delete" -> Erase(v)
      [] w.what = "view" -> Detail(v)
      [] w.what = "drop" -> Unbind(v)
      [] w.what = "found" -> Found(v, w)
      [] w.what = "rename" -> Rename(v, w)
      [] w.what = "disable" -> Disable(v)
      [] w.what = "put" -> IF At("registry") THEN Webhook(v, w)
                           ELSE IF At("settings") THEN PutConfig(w)
                           ELSE IF At("mail") THEN PutMail(w) ELSE Flip(w)

Replace(q, r) == req' = (req \ {q}) \union {r}

Known(states) == [x \in Item |-> IF is[x].state \in states THEN is[x] ELSE As("unseen", 0)]

\* GET billing/queue, which both screens ask: what is settled is gone from it.
PendingRows == Known({"pending"})

\* GET apps, revoked ones too.
AppRows == Known({"live", "revoked"})

\* GET payments, whatever has become of them.
PaymentRows == Known({"matched", "unmatched", "approved", "rejected"})

\* GET billing/packages, retired ones too.
PackageRows == Known({"active", "retired"})

\* GET users.
UserRows == Known({"enabled", "withheld"})

\* GET devices, but for the revoked.
DeviceRows == Known({"live"})

\* GET config/:key, the fallback if nothing was put.
ConfigRows == Known({"set"})

\* GET mail-config, which also says that there is none.
MailRows == Known({"none", "set"})

\* GET contact-groups, the newest of them, and message-templates.
GroupRows == Known({"live"})
TemplateRows == Known({"live"})

\* GET apps/devices, revoked ones too.
BoundRows == Known({"live", "revoked"})

\* GET auth/companies, disabled ones too; the wallet and the linked apps are asked for
\* along with it.
CompanyRows == Known({"live", "withheld"})

Answers ==
    [queue |-> PendingRows, approvals |-> PendingRows, apps |-> AppRows, registry |-> AppRows,
     payments |-> PaymentRows, packages |-> PackageRows, users |-> UserRows,
     devices |-> DeviceRows, settings |-> ConfigRows, mail |-> MailRows, switch |-> is,
     groups |-> GroupRows, templates |-> TemplateRows, plan |-> BoundRows,
     companies |-> CompanyRows][panel]

\* A load is served: the rows as they are.
Listed(q) ==
    /\ Looks(q) /\ Replace(q, [q EXCEPT !.answer = "ok", !.rows = Answers])
    /\ UNCHANGED is

\* A change is served, or refused.  A reply that nobody waits for is dropped.
Change(q) ==
    /\ ~Looks(q)
    /\ LET v == Route(is[q.row], q.want)
           now == IF v = Nil THEN is ELSE [is EXCEPT ![q.row] = v]
       IN  /\ is' = now
           /\ IF q.by = Nil THEN req' = req \ {q}
              ELSE Replace(q, [q EXCEPT !.answer = IF v = Nil THEN "failed" ELSE "ok",
                                        !.rows = IF panel \in {"settings", "mail", "switch"}
                                                 THEN now ELSE Nil])

Serve(q) ==
    /\ q.answer = "none" /\ (Listed(q) \/ Change(q))
    /\ UNCHANGED <<panel, used, tabVars, pressed, due, slip>>

\* A request, or its answer, is lost.
Lose(q) ==
    /\ q.answer # "failed"
    /\ IF q.by = Nil THEN req' = req \ {q}
       ELSE Replace(q, [q EXCEPT !.answer = "failed", !.rows = Nil])
    /\ UNCHANGED <<panel, is, used, tabVars, pressed, due, slip>>

\* A package is bought; the row is needed from then on.
Bought(x) ==
    /\ At("packages") /\ is[x].state = "active" /\ x \notin used
    /\ used' = used \union {x}
    /\ UNCHANGED <<panel, is, tabVars, req, pressed, due, slip>>

\* DELETE packages/:code, which no screen asks.
Delete(x) ==
    /\ At("packages") /\ is[x].state # "none" /\ x \notin used
    /\ pressed < MaxPresses /\ pressed' = pressed + 1
    /\ is' = [is EXCEPT ![x] = As("none", 0)]
    /\ UNCHANGED <<panel, used, tabVars, req, due, slip>>

\* POST devices/:id/revoke, which no screen asks.
RevokeDevice(x) ==
    /\ panel \in {"devices", "plan"} /\ is[x].state = "live"
    /\ pressed < MaxPresses /\ pressed' = pressed + 1
    /\ is' = [is EXCEPT ![x].state = "revoked"]
    /\ UNCHANGED <<panel, used, tabVars, req, due, slip>>

-----------------------------------------------------------------------------
(* A button is pressed                                                      *)

Seen(t, x) == IF sees[t] = Nil THEN As("unseen", 0) ELSE sees[t][x]

\* The request of a button that a row of the screen has.
SendsOne(t, calls) ==
    /\ pressed < MaxPresses /\ pressed' = pressed + 1
    /\ \E x \in Item : \E w \in Offers(Seen(t, x)) :
           w.what \in calls /\ req' = req \union {Sent(t, pressed + 1, x, w)}

Sends(t) == SendsOne(t, Calls)

\* The error goes, and with it the sign that the rows are from before.
Clears(t) ==
    /\ error' = [error EXCEPT ![t] = FALSE]
    /\ slip' = [slip EXCEPT ![t] = @ \/ (error[t] /\ due[t])]

Waits(t) == ~busy[t] /\ busy' = [busy EXCEPT ![t] = TRUE]

\* Approve and Reject of the queue wait for nothing.
QueueAct(t) ==
    /\ At("queue") /\ Sends(t) /\ Clears(t)
    /\ UNCHANGED <<panel, is, used, sees, busy, awaiting, due>>

\* Their prompt is cancelled, after the error went.
QueueCancel(t) ==
    /\ At("queue") /\ error[t] /\ \E x \in Item : Offers(Seen(t, x)) # {}
    /\ Clears(t)
    /\ UNCHANGED <<panel, is, used, sees, busy, awaiting, req, pressed, due>>

AppsAct(t) ==
    /\ At("apps") /\ Sends(t) /\ Clears(t)
    /\ UNCHANGED <<panel, is, used, sees, busy, awaiting, due>>

PaymentsAct(t) ==
    /\ At("payments") /\ Waits(t) /\ Sends(t) /\ Clears(t)
    /\ UNCHANGED <<panel, is, used, sees, awaiting, due>>

PackagesAct(t) ==
    /\ At("packages") /\ Waits(t) /\ Sends(t) /\ Clears(t)
    /\ UNCHANGED <<panel, is, used, sees, awaiting, due>>

UsersAct(t) ==
    /\ At("users") /\ Waits(t) /\ Sends(t) /\ Clears(t)
    /\ UNCHANGED <<panel, is, used, sees, awaiting, due>>

\* The prompt or the confirmation is cancelled, after the error went.
UsersCancel(t) ==
    /\ At("users") /\ error[t] /\ ~busy[t] /\ sees[t] # Nil
    /\ Clears(t)
    /\ UNCHANGED <<panel, is, used, sees, busy, awaiting, req, pressed, due>>

\* A reason, or a form, is left empty: an error of the screen's own.
NoReason(t) ==
    /\ panel \in {"payments", "users", "groups", "templates"} /\ ~busy[t] /\ ~error[t]
    /\ \E x \in Item : {"reject", "withhold", "make"} \intersect {w.what : w \in Offers(Seen(t, x))} # {}
    /\ error' = [error EXCEPT ![t] = TRUE]
    /\ UNCHANGED <<panel, is, used, sees, busy, awaiting, req, pressed, due, slip>>

DevicesAct(t) ==
    /\ At("devices") /\ Waits(t) /\ Sends(t) /\ Clears(t)
    /\ UNCHANGED <<panel, is, used, sees, awaiting, due>>

\* Save sends every key, each in a request of its own.
SettingsSave(t) ==
    /\ At("settings") /\ sees[t] # Nil /\ Waits(t) /\ Clears(t)
    /\ pressed < MaxPresses /\ pressed' = pressed + 1
    /\ \E f \in [Item -> Value] :
           req' = req \union {Sent(t, pressed + 1, x, Do("put", f[x])) : x \in Item}
    /\ UNCHANGED <<panel, is, used, sees, awaiting, due>>

MailSave(t) ==
    /\ At("mail") /\ Waits(t) /\ Sends(t) /\ Clears(t)
    /\ UNCHANGED <<panel, is, used, sees, awaiting, due>>

\* The dashboard keeps an earlier error until its list is loaded again.
ApprovalsAct(t) ==
    /\ At("approvals") /\ Waits(t) /\ Sends(t)
    /\ UNCHANGED <<panel, is, used, sees, awaiting, error, due, slip>>

RegistryAct(t) ==
    /\ At("registry") /\ Waits(t) /\ Sends(t)
    /\ UNCHANGED <<panel, is, used, sees, awaiting, error, due, slip>>

SwitchFlip(t) ==
    /\ At("switch") /\ Waits(t) /\ Sends(t)
    /\ UNCHANGED <<panel, is, used, sees, awaiting, error, due, slip>>

\* Groups and templates keep it as well.
GroupsAct(t) ==
    /\ At("groups") /\ Waits(t) /\ Sends(t)
    /\ UNCHANGED <<panel, is, used, sees, awaiting, error, due, slip>>

TemplatesAct(t) ==
    /\ At("templates") /\ Waits(t) /\ Sends(t)
    /\ UNCHANGED <<panel, is, used, sees, awaiting, error, due, slip>>

\* View waits for nothing.
View(t) ==
    /\ At("groups") /\ pressed < MaxPresses /\ pressed' = pressed + 1
    /\ \E x \in Item : /\ Seen(t, x).state = "live"
                       /\ req' = req \union {Sent(t, pressed + 1, x, Do("view", 0))}
    /\ UNCHANGED <<panel, is, used, sees, busy, awaiting, error, due, slip>>

\* The question before a phone's deletion clears the error (so does a purchase, which is
\* left out here).
PlanAsk(t) ==
    /\ At("plan") /\ error[t] /\ \E x \in Item : Offers(Seen(t, x)) # {}
    /\ Clears(t)
    /\ UNCHANGED <<panel, is, used, sees, busy, awaiting, req, pressed, due>>

\* "Yes, delete" does not; it waits for the answer about its own phone.
PlanDelete(t) ==
    /\ At("plan") /\ pressed < MaxPresses /\ pressed' = pressed + 1
    /\ \E x \in Item : \E w \in Offers(Seen(t, x)) :
           /\ ~\E q \in req : q.by = t /\ q.row = x
           /\ req' = req \union {Sent(t, pressed + 1, x, w)}
    /\ UNCHANGED <<panel, is, used, sees, busy, awaiting, error, due, slip>>

\* Create waits for the company before; Rename and Disable wait for nothing.
CompanyCreate(t) ==
    /\ At("companies") /\ Waits(t) /\ SendsOne(t, {"found"}) /\ Clears(t)
    /\ UNCHANGED <<panel, is, used, sees, awaiting, due>>

CompanyAct(t) ==
    /\ At("companies") /\ SendsOne(t, {"rename", "disable"}) /\ Clears(t)
    /\ UNCHANGED <<panel, is, used, sees, busy, awaiting, due>>

\* Refresh; the queue's and the plan's wait for a load.
Refresh(t) ==
    /\ At("apps") \/ (panel \in {"queue", "plan"} /\ ~awaiting[t])
    /\ pressed < MaxPresses /\ pressed' = pressed + 1
    /\ req' = req \union {Load(t, pressed + 1)} /\ awaiting' = [awaiting EXCEPT ![t] = TRUE]
    /\ UNCHANGED <<panel, is, used, sees, busy, error, due, slip>>

-----------------------------------------------------------------------------
(* An answer comes                                                          *)

\* The dashboard, whose buttons wait for the load after the change too.
Awaits == panel \in {"approvals", "registry", "groups", "templates"}

\* The loads of a tab that were sent before a change it is told of.
Aged(t, rs) == {IF Looks(r) /\ r.by = t THEN [r EXCEPT !.old = TRUE] ELSE r : r \in rs}

\* Mutant: a panel that does not load after a change.
AsksNothing(t, n) == {}

\* The load that follows a change.
Reload(t, n) == {Load(t, n)}

\* The changes that clear the error before their load.
Heals(w) == w.what = "make" \/ (w.what = "edit" /\ At("templates"))

\* The calls that do not keep the buttons waiting, nor let them go.
Idle(w) == w.what \in {"view", "rename", "disable"}

\* A change was made: the rows are loaded again.
Told(q) ==
    /\ q.answer = "ok" /\ ~Looks(q) /\ q.want.what # "view"
    /\ panel \notin {"settings", "mail", "switch"}
    /\ req' = Aged(q.by, req \ {q}) \union Reload(q.by, q.n)
    /\ awaiting' = [awaiting EXCEPT ![q.by] = TRUE]
    /\ busy' = [busy EXCEPT ![q.by] = @ /\ (Awaits \/ Idle(q.want))]
    /\ error' = [error EXCEPT ![q.by] = @ /\ ~Heals(q.want)]
    /\ due' = [due EXCEPT ![q.by] = TRUE] /\ slip' = [slip EXCEPT ![q.by] = FALSE]
    /\ UNCHANGED <<panel, is, used, sees, pressed>>

\* A group's numbers are shown.
Viewed(q) ==
    /\ q.answer = "ok" /\ q.want.what = "view" /\ Clears(q.by)
    /\ req' = req \ {q}
    /\ UNCHANGED <<panel, is, used, sees, busy, awaiting, pressed, due>>

\* The requests of a tab's save.
Saves(t) == {r \in req : r.by = t /\ ~Looks(r)}

\* All that was saved is answered: the replies are shown.
Saved(t) ==
    /\ panel \in {"settings", "mail", "switch"}
    /\ Saves(t) # {} /\ \A r \in Saves(t) : r.answer = "ok"
    /\ req' = Aged(t, req \ Saves(t)) /\ busy' = [busy EXCEPT ![t] = FALSE]
    /\ sees' = [sees EXCEPT ![t] = [x \in Item |->
           IF \E r \in Saves(t) : r.row = x
           THEN (CHOOSE r \in Saves(t) : r.row = x).rows[x] ELSE Seen(t, x)]]
    /\ error' = [error EXCEPT ![t] = @ /\ ~At("switch")]
    /\ due' = [due EXCEPT ![t] = FALSE] /\ slip' = [slip EXCEPT ![t] = FALSE]
    /\ UNCHANGED <<panel, is, used, awaiting, pressed>>

\* A change was refused or lost.  What else was saved goes on without the screen.
Failed(q) ==
    /\ q.answer = "failed" /\ ~Looks(q)
    /\ LET alone == IF At("settings") THEN Saves(q.by) ELSE {q}
       IN  req' = (req \ alone) \union {[r EXCEPT !.by = Nil] : r \in {r \in alone : r.answer = "none"}}
    /\ error' = [error EXCEPT ![q.by] = TRUE]
    /\ busy' = [busy EXCEPT ![q.by] = @ /\ Idle(q.want)]
    /\ UNCHANGED <<panel, is, used, sees, awaiting, pressed, due, slip>>

\* The panels whose error goes when a load succeeds.
Relieves ==
    panel \in {"queue", "apps", "settings", "approvals", "registry", "groups", "templates", "plan"}

\* The load of a change ends what waits for it.
Ends(q) ==
    /\ req' = req \ {q} /\ awaiting' = [awaiting EXCEPT ![q.by] = FALSE]
    /\ busy' = [busy EXCEPT ![q.by] = @ /\ ~(Awaits /\ q.n > 0)]

Loaded(q) ==
    /\ q.answer = "ok" /\ Looks(q) /\ Ends(q)
    /\ sees' = [sees EXCEPT ![q.by] = q.rows]
    /\ error' = [error EXCEPT ![q.by] = @ /\ ~Relieves]
    /\ due' = [due EXCEPT ![q.by] = q.old] /\ slip' = [slip EXCEPT ![q.by] = q.old]
    /\ UNCHANGED <<panel, is, used, pressed>>

LoadFailed(q) ==
    /\ q.answer = "failed" /\ Looks(q) /\ Ends(q)
    /\ error' = [error EXCEPT ![q.by] = TRUE]
    /\ UNCHANGED <<panel, is, used, sees, pressed, due, slip>>

-----------------------------------------------------------------------------
Presses(t) ==
    \/ QueueAct(t) \/ QueueCancel(t) \/ AppsAct(t) \/ PaymentsAct(t) \/ PackagesAct(t)
    \/ UsersAct(t) \/ UsersCancel(t) \/ NoReason(t) \/ DevicesAct(t) \/ SettingsSave(t)
    \/ MailSave(t) \/ ApprovalsAct(t) \/ RegistryAct(t) \/ SwitchFlip(t) \/ Refresh(t)
    \/ GroupsAct(t) \/ TemplatesAct(t) \/ View(t) \/ PlanAsk(t) \/ PlanDelete(t)
    \/ CompanyCreate(t) \/ CompanyAct(t)

ConsoleNext ==
    \/ \E t \in Tab : Presses(t) \/ Saved(t)
    \/ \E q \in req : \/ Serve(q) \/ Lose(q) \/ Told(q) \/ Viewed(q) \/ Failed(q)
                      \/ Loaded(q) \/ LoadFailed(q)
    \/ \E x \in Item : Bought(x) \/ Delete(x) \/ RevokeDevice(x)

ConsoleSpec == ConsoleInit /\ [][ConsoleNext]_consoleVars

-----------------------------------------------------------------------------
(* A tab that waits for nothing and shows no error shows the rows as they   *)
(* were when the server made the last change it was told of, or later:      *)
(* whatever was lost, refused or answered out of order has either been made *)
(* up for by another load or left an error (Operator.tsx:418, 454, 901).    *)
(* Excepted are a load from before the change that comes after the newer    *)
(* one, and an error that another button wiped away, not a newer load;      *)
(* where loads never overlap, there is no exception (OperatorScreen.tsx:204,*)
(* Operator.tsx:1041).                                                      *)
AtRest(t) == ~\E q \in req : q.by = t
Orderly == panel \in {"approvals", "settings", "switch"}

ScreenCatchesUp ==
    \A t \in Tab : AtRest(t) /\ ~error[t] => ~due[t] \/ (slip[t] /\ ~Orderly)
=============================================================================
