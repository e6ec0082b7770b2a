---------------------------------- MODULE Api ----------------------------------
(***************************************************************************)
(* The interface for people (api/mod.rs), with the token it asks for       *)
(* (main.rs, read_or_create_token), the orders a human gives with it       *)
(* (policy/temporary.rs), and the page a browser is shown instead of a     *)
(* blocked name (api/block_page.rs), which asks for none.  The process may *)
(* be killed between any two steps and started again; of all this only the *)
(* token's file is left then.                                              *)
(*                                                                         *)
(* What an order does to a question under way is in Policy.  What the      *)
(* handlers that change nothing show is left out, except how much of it.   *)
(***************************************************************************)
EXTENDS Integers, FiniteSets, FiniteSetsExt

CONSTANTS
  Requests,   \* connections
  Domains,    \* what is written as a domain: [name, blank]
  Seconds,    \* how long an order is to hold
  MaxGrant,   \* MAX_GRANT
  Clients,    \* the names of clients, with an address each
  Hosts,      \* what a browser may send as the host
  Causes,     \* host -> why it is blocked, as block_cause says
  Files,      \* what the token's file may hold before the first start
  MaxTime,    \* bound on the clock
  MaxOrders,  \* bound on the orders
  MaxStarts   \* bound on the starts

VARIABLES
  file,     \* the token's file: what it is and was at first, its token (0: empty),
            \* whether others may read it
  process,  \* "down", where its start is, or "serving"
  token,    \* what the process asks for, 0 without any
  now,      \* the monotonic clock
  table,    \* what is allowed, and what is denied: name -> when it ends
  order,    \* an order under way: nothing, or [kind, name, ttl, until]
  reply,    \* the last reply
  starts,   \* starts so far
  orders,   \* orders so far
  told,     \* history: the tokens somebody has been served for
  promised  \* history: what the last order for a name has promised

tokenVars == <<file, process, token, starts, told>>
orderVars == <<table, order, orders, promised>>
vars == <<tokenVars, now, orderVars, reply>>

Kinds == {"allow", "deny"}
NoTables == [k \in Kinds |-> <<>>]

Init ==
  /\ file \in Files
  /\ process = "down" /\ token = 0 /\ starts = 0 /\ told = {}
  /\ now = 0
  /\ table = NoTables /\ promised = NoTables /\ orders = 0
  /\ order = [r \in Requests |-> {}] /\ reply = "none"

Tick ==
  /\ now < MaxTime /\ now' = now + 1
  /\ UNCHANGED <<tokenVars, orderVars, reply>>

-----------------------------------------------------------------------------
(* read_or_create_token: a text that can be read, ... *)
Start ==
  /\ process = "down" /\ starts < MaxStarts
  /\ starts' = starts + 1
  /\ process' = IF file.is = "text" THEN "tightening" ELSE "opening"
  /\ UNCHANGED <<file, token, told, now, orderVars, reply>>

(* ... with its permissions, is the token unless it is empty. *)
Tighten ==
  /\ process = "tightening"
  /\ file' = [file EXCEPT !.open = FALSE]
  /\ IF file.text = 0 THEN process' = "opening" /\ UNCHANGED token
     ELSE process' = "serving" /\ token' = file.text
  /\ UNCHANGED <<starts, told, now, orderVars, reply>>

(* An old file stays as open as it is; a new one is made for us alone. *)
CutOff ==
  [file EXCEPT !.is = "text", !.text = 0, !.open = file.open /\ file.is # "missing"]

(* Mutation: the token is in use before it is on the disk. *)
CreateServing ==
  /\ process = "opening"
  /\ token' = starts
  /\ file' = CutOff
  /\ process' = "serving"
  /\ UNCHANGED <<starts, told, now, orderVars, reply>>

(* Otherwise one is drawn; the file is cut off, ... *)
Create ==
  /\ process = "opening"
  /\ token' = starts
  /\ file' = CutOff
  /\ process' = "writing"
  /\ UNCHANGED <<starts, told, now, orderVars, reply>>

(* ... and written.  (Tokens are numbered by the start that has drawn them.) *)
Write ==
  /\ process = "writing"
  /\ file' = [file EXCEPT !.text = token]
  /\ process' = "serving"
  /\ UNCHANGED <<token, starts, told, now, orderVars, reply>>

(* Killed, stopped, or a step of the start has failed. *)
End ==
  /\ process # "down"
  /\ process' = "down" /\ token' = 0
  /\ table' = NoTables /\ promised' = NoTables
  /\ order' = [r \in Requests |-> {}] /\ reply' = "none"
  /\ UNCHANGED <<file, starts, told, now, orders>>

-----------------------------------------------------------------------------
(* parse_grant: the same for both kinds of orders. *)
ParseGrant(domain, seconds) ==
  {[name |-> domain.name, ttl |-> Min({seconds, MaxGrant})] :
     x \in {x \in {domain} : ~x.blank /\ seconds > 0}}

(* authenticate: a whole layer around the routes of the API. *)
Authenticated(presented) == presented = token

Refuse(r, presented) ==
  /\ process = "serving" /\ order[r] = {} /\ ~Authenticated(presented)
  /\ reply' = "unauthorized"
  /\ UNCHANGED <<tokenVars, now, orderVars>>

Admitted(r, presented) ==
  /\ process = "serving" /\ order[r] = {} /\ Authenticated(presented)
  /\ told' = told \cup {presented}
  /\ UNCHANGED <<file, process, token, starts, now>>

(* grant, deny: Temporary reads the clock before it takes the lock, ... *)
Order(r, presented, kind, domain, seconds) ==
  LET parsed == ParseGrant(domain, seconds)
  IN  /\ Admitted(r, presented) /\ orders < MaxOrders
      /\ orders' = orders + 1
      /\ order' = [order EXCEPT ![r] =
           {[kind |-> kind, name |-> p.name, ttl |-> p.ttl, until |-> now + p.ttl] : p \in parsed}]
      /\ reply' = IF parsed = {} THEN "bad request" ELSE reply
      /\ UNCHANGED <<table, promised>>

(* An entry of a table: replaced, or one more. *)
Put(entries, o) ==
  [n \in DOMAIN entries \cup {o.name} |-> IF n = o.name THEN o.until ELSE entries[n]]

(* ... and what has ended is cleared away at once. *)
Entered(entries, o) ==
  LET more == Put(entries, o)
  IN  [n \in {x \in DOMAIN more : more[x] > now} |-> more[n]]

Enter(r) ==
  \E o \in order[r] :
    /\ table' = [table EXCEPT ![o.kind] = Entered(@, o)]
    /\ promised' = [promised EXCEPT ![o.kind] = Put(@, o)]
    /\ order' = [order EXCEPT ![r] = {}]
    /\ reply' = "ok"
    /\ UNCHANGED <<tokenVars, now, orders>>

Without(entries, name) == [n \in DOMAIN entries \ {name} |-> entries[n]]

(* revoke, undeny: also of what nobody has ordered. *)
Withdraw(r, presented, kind, domain) ==
  /\ Admitted(r, presented)
  /\ table' = [table EXCEPT ![kind] = Without(@, domain.name)]
  /\ promised' = [promised EXCEPT ![kind] = Without(@, domain.name)]
  /\ reply' = "no content"
  /\ UNCHANGED <<order, orders>>

(* grants, denials: what has not ended, and for how much longer. *)
Active(entries) == [n \in {x \in DOMAIN entries : entries[x] > now} |-> entries[n] - now]

(* Runtime::explain: for a client by its name, or for the server itself.   *)
ExplainedFor(client) == IF client = {} THEN {"loopback"} ELSE client \cap Clients

Read(r, presented, client) ==
  /\ Admitted(r, presented)
  /\ reply' = IF ExplainedFor(client) = {} THEN "bad request" ELSE "ok"
  /\ UNCHANGED orderVars

(* page: no token is asked for.  The port is gone from what parses; `escape` *)
(* and the template are left out.                                          *)
HostName(host) == {n \in {host.name} : host.given /\ host.parses /\ n # ""}

Page(r, host) ==
  /\ process = "serving" /\ order[r] = {}
  /\ IF HostName(host) = {} THEN reply' = "bad request"
     ELSE \E name \in HostName(host) : reply' = Causes[name]
  /\ UNCHANGED <<tokenVars, now, orderVars>>

Presented == {0, starts, file.text} \cup told

Next ==
  \/ Tick \/ Start \/ Tighten \/ Create \/ Write \/ End
  \/ \E r \in Requests :
       \/ Enter(r)
       \/ \E host \in Hosts : Page(r, host)
       \/ \E presented \in Presented :
            \/ Refuse(r, presented)
            \/ \E client \in SUBSET (Clients \cup {"unknown"}) :
                 Cardinality(client) <= 1 /\ Read(r, presented, client)
            \/ \E kind \in Kinds, domain \in Domains :
                 \/ Withdraw(r, presented, kind, domain)
                 \/ \E seconds \in Seconds : Order(r, presented, kind, domain, seconds)

Spec == Init /\ [][Next]_vars
-----------------------------------------------------------------------------
(* The type invariant: nobody is served before there is a token. *)
TypeOK ==
  /\ process \in {"down", "tightening", "opening", "writing", "serving"}
  /\ file.is \in {"missing", "binary", "text"}
  /\ process = "serving" => token # 0
  /\ process # "serving" => table = NoTables
  /\ \A r \in Requests : Cardinality(order[r]) <= 1

(***************************************************************************)
(* main.rs:954-962: the file is the password.  Wherever the process is     *)
(* killed and however often it is started again, everybody who is let in   *)
(* has shown the same token, which is the one in the file from the first   *)
(* moment on; and a file that is new or that could be read is not open to  *)
(* others while it holds a token in use.                                   *)
(***************************************************************************)
TokenSurvives ==
  /\ Cardinality(told) <= 1
  /\ process = "serving" => file.text = token /\ told \subseteq {token}
  /\ (process = "serving" /\ file.open) => file.was = "binary"

(***************************************************************************)
(* api/mod.rs:553-560, policy/temporary.rs:50: what was promised in a reply *)
(* holds for as long as it said, unless somebody else orders otherwise for *)
(* the same name: no other order's tidying up takes it away, however late  *)
(* that order comes; and nothing holds for longer than may be asked for.   *)
(***************************************************************************)
OrdersHold ==
  \A kind \in Kinds :
    /\ \A n \in DOMAIN promised[kind] :
         promised[kind][n] > now => n \in DOMAIN Active(table[kind])
    /\ \A n \in DOMAIN table[kind] : table[kind][n] - now <= MaxGrant
=============================================================================
