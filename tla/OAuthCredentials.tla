--------------------------- MODULE OAuthCredentials ---------------------------
(***************************************************************************)
(* Logins with a browser, a device code or a pasted code (oauth.py, the    *)
(* login screen of tui/app.py), the file of credentials (credentials.py)   *)
(* and the refresh of a token by the requests that need one                *)
(* (provider_runtime.py).  One account; the issuer may replace the refresh *)
(* token each time and then refuses the ones before.                       *)
(***************************************************************************)
EXTENDS Naturals, FiniteSets

CONSTANTS None, Torn, Logins, Requests,
          Device,      \* the logins with a device code
          MaxTokens,   \* bound: tokens that the issuer hands out
          MaxPolls     \* polls of a device code until its deadline

Credentials == [access : 0..MaxTokens, refresh : 0..MaxTokens]
Codes == [of : Logins, bare : BOOLEAN]

OAuthAssumption ==
    /\ MaxTokens \in Nat /\ MaxPolls \in Nat
    /\ None # Torn /\ {None, Torn} \cap (Logins \cup Codes \cup Credentials) = {}

VARIABLES
    login,     \* login -> "idle", "wait", "exchange", "poll", "token", "done", "failed", "closed"
    port,      \* the login whose server listens
    future,    \* login -> "open", "set", "off": the callback it waits for
    posted,    \* callbacks that a thread has handed to the loop
    pasted,    \* login -> None, or the login whose code was pasted, with its state or bare
    code,      \* login -> what it exchanges: [of, bare]
    polls,     \* login -> polls of the device code
    store,     \* credentials.json: [access, refresh], None, or Torn
    tokens,    \* the last token that the issuer handed out
    accepted,  \* the refresh token that the issuer accepts
    expired,   \* access tokens up to this one are expired
    request,   \* request -> [at, credential]
    odd        \* observed: "overlap", "late", "torn"

vars == <<login, port, future, posted, pasted, code, polls, store, tokens, accepted, expired, request, odd>>

Flow == <<login, port, future, posted, pasted, code, polls>>
Issuer == <<tokens, accepted, expired>>

Init ==
    /\ login = [l \in Logins |-> "idle"] /\ port = None
    /\ future = [l \in Logins |-> "open"] /\ posted = {} /\ pasted = [l \in Logins |-> None]
    /\ code = [l \in Logins |-> None] /\ polls = [l \in Logins |-> 0]
    /\ store = None /\ tokens = 0 /\ accepted = 0 /\ expired = 0
    /\ request = [r \in Requests |-> [at |-> "idle", credential |-> None]] /\ odd = {}

Moves(l, to) == login' = [login EXCEPT ![l] = to]
Sets(r, at, credential) == request' = [request EXCEPT ![r] = [at |-> at, credential |-> credential]]
Expired(c) == c.access <= expired
Grants(replaces) ==
    /\ tokens < MaxTokens /\ tokens' = tokens + 1
    /\ accepted' = IF replaces THEN tokens' ELSE accepted
    /\ UNCHANGED expired
Refreshing == {r \in Requests : request[r].at \in {"ask", "answer"}}

-----------------------------------------------------------------------------
(* Login with a browser *)

\* login_openai_codex: the local server listens unless its port is taken.
Begin(l) ==
    /\ login[l] = "idle" /\ l \notin Device
    /\ Moves(l, "wait")
    /\ port' = IF port = None THEN l ELSE port
    /\ UNCHANGED <<future, posted, pasted, code, polls, store, Issuer, request, odd>>

\* Mutant: the callback of any login is taken.
MatchesAny(of, l) == TRUE

\* do_GET compares the state.
Matches(of, l) == of = l

\* A browser calls the port, perhaps for a login that was begun before, perhaps twice.
Callback(of) ==
    /\ port # None /\ login[of] # "idle" /\ Matches(of, port) /\ future[port] = "open"
    /\ posted' = posted \cup {[to |-> port, of |-> of]}
    /\ UNCHANGED <<login, port, future, pasted, code, polls, store, Issuer, request, odd>>

\* The loop sets the future; a second time raises in the loop and changes nothing.
Deliver(p) ==
    /\ p \in posted /\ posted' = posted \ {p}
    /\ IF future[p.to] = "open" THEN future' = [future EXCEPT ![p.to] = "set"] /\ code' = [code EXCEPT ![p.to] = [of |-> p.of, bare |-> FALSE]]
       ELSE UNCHANGED <<future, code>>
    /\ UNCHANGED <<login, port, pasted, polls, store, Issuer, request, odd>>

\* on_input_submitted
Paste(l, of, bare) ==
    /\ login[l] = "wait" /\ pasted[l] = None /\ login[of] # "idle"
    /\ pasted' = [pasted EXCEPT ![l] = [of |-> of, bare |-> bare]]
    /\ UNCHANGED <<login, port, future, posted, code, polls, store, Issuer, request, odd>>

Released(l) == IF port = l THEN None ELSE port

\* _wait_for_authorization_code: whichever came, either when both did; the state of a pasted code
\* must be that of the flow, if it has one.
Take(l) ==
    /\ login[l] = "wait"
    /\ future' = [future EXCEPT ![l] = IF @ = "open" THEN "off" ELSE @]
    /\ \/ /\ future[l] = "set"
          /\ Moves(l, "exchange") /\ UNCHANGED <<port, code>>
       \/ /\ pasted[l] # None
          /\ IF pasted[l].bare \/ pasted[l].of = l
             THEN Moves(l, "exchange") /\ code' = [code EXCEPT ![l] = pasted[l]] /\ UNCHANGED port
             ELSE Moves(l, "failed") /\ port' = Released(l) /\ UNCHANGED code
    /\ UNCHANGED <<posted, pasted, polls, store, Issuer, request, odd>>

\* _save, which the end of the process may cut short
Saves(credential) ==
    \/ store' = credential /\ UNCHANGED odd
    \/ store' = Torn /\ odd' = odd \cup {"torn"}

\* Mutant: the server is left listening.
LeavesOpen(l) == port

\* The server is closed whatever happened.
Leaves(l) == Released(l)

\* exchange_openai_codex_authorization_code, which the issuer refuses for the code of another flow
Exchange(l) ==
    /\ login[l] = "exchange"
    /\ port' = Leaves(l)
    /\ \/ /\ code[l].of = l /\ store # Torn
          /\ Grants(TRUE) /\ Moves(l, "done")
          /\ Saves([access |-> tokens', refresh |-> tokens'])
       \/ Moves(l, "failed") /\ UNCHANGED <<store, odd, Issuer>>
    /\ UNCHANGED <<future, posted, pasted, code, polls, request>>

-----------------------------------------------------------------------------
(* Login with a device code *)

BeginDevice(l) ==
    /\ login[l] = "idle" /\ l \in Device
    /\ Moves(l, "poll")
    /\ UNCHANGED <<port, future, posted, pasted, code, polls, store, Issuer, request, odd>>

\* poll_github_copilot_device_flow: pending, slow down, a token, an error, or the deadline
Poll(l) ==
    /\ login[l] = "poll"
    /\ polls' = [polls EXCEPT ![l] = @ + 1]
    /\ \/ polls'[l] < MaxPolls /\ UNCHANGED login
       \/ Moves(l, "token")
       \/ Moves(l, "failed")
    /\ UNCHANGED <<port, future, posted, pasted, code, store, Issuer, request, odd>>

\* refresh_github_copilot_token
Token(l) ==
    /\ login[l] = "token"
    /\ \/ /\ store # Torn /\ Grants(TRUE) /\ Moves(l, "done")
          /\ Saves([access |-> tokens', refresh |-> tokens'])
       \/ Moves(l, "failed") /\ UNCHANGED <<store, odd, Issuer>>
    /\ UNCHANGED <<port, future, posted, pasted, code, polls, request>>

\* action_cancel: the screen closes and its worker ends.
Cancel(l) ==
    /\ login[l] \in {"wait", "exchange", "poll", "token", "failed"}
    /\ Moves(l, "closed")
    /\ port' = Released(l)
    /\ future' = [future EXCEPT ![l] = IF @ = "open" THEN "off" ELSE @]
    /\ UNCHANGED <<posted, pasted, code, polls, store, Issuer, request, odd>>

-----------------------------------------------------------------------------
(* Requests *)

\* get_oauth: a token that is not expired is used, another one is refreshed first.
Resolve(r) ==
    /\ request[r].at = "idle" /\ store \notin {None, Torn}
    /\ Sets(r, IF Expired(store) THEN "ask" ELSE "use", store)
    /\ odd' = IF Expired(store) /\ Refreshing # {} THEN odd \cup {"overlap"} ELSE odd
    /\ UNCHANGED <<Flow, store, Issuer>>

\* Mutant: the refresh token of before is kept.
KeptOld(old, new) == old

\* next_refresh_token
Kept(old, new) == new

\* The issuer answers, with another refresh token or not; or it refuses.
Answer(r) ==
    LET c == request[r].credential IN
    /\ request[r].at = "ask"
    /\ \/ /\ c.refresh = accepted
          /\ \E replaces \in BOOLEAN :
                 /\ Grants(replaces)
                 /\ Sets(r, "answer", [access |-> tokens', refresh |-> IF replaces THEN Kept(c.refresh, tokens') ELSE c.refresh])
       \/ Sets(r, "idle", None) /\ UNCHANGED Issuer
    /\ UNCHANGED <<Flow, store, odd>>

\* set_oauth, whatever the file holds by then
Save(r) ==
    LET late == IF store = None \/ (store # Torn /\ store.refresh > request[r].credential.refresh) THEN {"late"} ELSE {} IN
    /\ request[r].at = "answer" /\ store # Torn
    /\ Sets(r, "use", request[r].credential)
    /\ \/ store' = request[r].credential /\ odd' = odd \cup late
       \/ store' = Torn /\ odd' = odd \cup {"torn"}
    /\ UNCHANGED <<Flow, Issuer>>

Finish(r) ==
    /\ request[r].at = "use" \/ (request[r].at = "answer" /\ store = Torn)
    /\ Sets(r, "idle", None)
    /\ UNCHANGED <<Flow, store, Issuer, odd>>

Logout ==
    /\ store \notin {None, Torn}
    /\ \/ store' = None /\ UNCHANGED odd
       \/ store' = Torn /\ odd' = odd \cup {"torn"}
    /\ UNCHANGED <<Flow, Issuer, request>>

Expire ==
    /\ expired < tokens /\ expired' = tokens
    /\ UNCHANGED <<Flow, store, tokens, accepted, request, odd>>

-----------------------------------------------------------------------------
Next ==
    \/ \E l \in Logins : \/ Begin(l) \/ Callback(l) \/ Take(l) \/ Exchange(l)
                         \/ BeginDevice(l) \/ Poll(l) \/ Token(l) \/ Cancel(l)
    \/ \E l, of \in Logins, bare \in BOOLEAN : Paste(l, of, bare)
    \/ \E p \in posted : Deliver(p)
    \/ \E r \in Requests : Resolve(r) \/ Answer(r) \/ Save(r) \/ Finish(r)
    \/ Logout \/ Expire

Spec == Init /\ [][Next]_vars

-----------------------------------------------------------------------------
\* The types of the variables.
TypeOK ==
    /\ port \in Logins \cup {None} /\ tokens \in 0..MaxTokens /\ accepted \in 0..tokens
    /\ odd \subseteq {"overlap", "late", "torn"}

\* A login exchanges a code of its own, unless one without a state was pasted.
CodeIsOwn == \A l \in Logins : login[l] = "exchange" => code[l].of = l \/ code[l].bare

\* The port is held by a login that waits or exchanges, and by no one when those ended.
PortIsReleased == port # None => login[port] \in {"wait", "exchange"}

\* The stored refresh token is the one the issuer accepts, unless two refreshes overlapped, one
\* ended after a logout or a login, or the credential of a request is not saved yet.
StoredIsAccepted ==
    store \notin {None, Torn} /\ odd = {} /\ Refreshing = {} /\ (\A r \in Requests : request[r].at # "answer")
        => store.refresh = accepted

-----------------------------------------------------------------------------
(* The inductive invariant behind them *)

Shapes ==
    /\ login \in [Logins -> {"idle", "wait", "exchange", "poll", "token", "done", "failed", "closed"}]
    /\ future \in [Logins -> {"open", "set", "off"}] /\ posted \subseteq [to : Logins, of : Logins]
    /\ pasted \in [Logins -> Codes \cup {None}] /\ code \in [Logins -> Codes \cup {None}]
    /\ store \in Credentials \cup {None, Torn}
    /\ request \in [Requests -> [at : {"idle", "ask", "answer", "use"}, credential : Credentials \cup {None}]]

\* What a login has been called back with is its own.
CallbacksMatch ==
    /\ \A p \in posted : p.of = p.to
    /\ \A l \in Logins : /\ login[l] \in {"idle", "wait"} /\ future[l] = "set" => code[l] # None /\ code[l].of = l
                         /\ login[l] = "exchange" => code[l] # None /\ future[l] # "open"

\* Nobody has a token that was not handed out; who refreshes has a credential.
TokensAreGiven ==
    /\ store \notin {None, Torn} => store.refresh <= tokens
    /\ \A r \in Requests : /\ request[r].credential # None => request[r].credential.refresh <= tokens
                           /\ request[r].at \in {"ask", "answer"} => request[r].credential # None

\* One request refreshes at a time, and its answer is what the issuer accepts, unless the file was replaced.
RefreshesAreSerial ==
    odd = {} =>
        /\ store # Torn
        /\ \A r, s \in Refreshing : r = s
        /\ store # None /\ (\A r \in Requests : request[r].at # "answer") => store.refresh = accepted
        /\ \A r \in Requests : request[r].at = "answer" =>
               \/ request[r].credential.refresh = accepted
               \/ store = None
               \/ store.refresh > request[r].credential.refresh

IInv ==
    /\ TypeOK /\ Shapes /\ CallbacksMatch /\ TokensAreGiven /\ RefreshesAreSerial
    /\ CodeIsOwn /\ PortIsReleased
===============================================================================
