------------------------------- MODULE WalletPage -------------------------------
(* The page a browser shows of the wallet server (qv-wallet: server_ui.rs, with *)
(* the routes and answers of server.rs).  Every call of the page is a request   *)
(* that the server handles some time later and whose answer comes back some     *)
(* time after that, in any order and not always; a handler of the page goes on  *)
(* when its answer is there, and others have run in between.                    *)
(*                                                                              *)
(* A wallet is a user and an account.  What a panel shows is whose data it is   *)
(* and of which version.  Layout, wording and the text in forms are left out.   *)
EXTENDS Integers, FiniteSets, Bags

CONSTANTS Users, Local,     \* Local: the user of a server with one keystore
          Tokens, Outputs, Panels, None, Blank,
          MaxAccount, MaxWrites, MaxPending   \* bounds

VARIABLES
    multi,      \* the server keeps a keystore per user and sessions
    keystore,   \* per user: the accounts it holds, none if there is no file
    open,       \* per token, and at None for the one slot: the open wallet
    issued,     \* tokens given out so far
    version,    \* per panel: how often what it shows was written
    token,      \* the page's session token, in the browser's local storage
    page,       \* what the page shows
    pending,    \* requests and timers whose handlers have yet to go on
    disturbed   \* history: see Disturbs

vars == <<multi, keystore, open, issued, version, token, page, pending, disturbed>>

Opening == {"unlock", "lock", "login", "register", "register_import", "logout", "switch"}
Writing == {"send", "contacts_add", "contacts_remove"}
Changing == Opening \cup Writing

\* The handler that waits is named by the path; where is what the request is about.
Request(path, where, tok) ==
    [path |-> path, where |-> where, tok |-> tok, status |-> "sent", data |-> None]
ask(panels, tok) == {Request(p, None, tok) : p \in panels \cap Panels}
In(bag, paths) == {m \in BagToSet(bag) : m.path \in paths}

BlankPage == [open |-> FALSE, wallet |-> None, view |-> "none", panel |-> [p \in Panels |-> None],
              failed |-> {}, mnemonic |-> FALSE, disclose |-> None, misnamed |-> FALSE]

Init ==
    /\ multi \in BOOLEAN
    /\ keystore = [u \in Users |-> {}]
    /\ open = [t \in Tokens \cup {None} |-> None] /\ issued = {}
    /\ version = [p \in Panels |-> 0]
    /\ token = None /\ page = BlankPage /\ disturbed = FALSE
    /\ pending = SetToBag({Request("status", None, None)})

(* A request that changes which wallet is open or what it holds was under way   *)
(* together with another; disturbed also says that such a request, or the       *)
(* status that would tell the page of it, was lost.                             *)
Disturbs(bag) == BagCardinality(bag) > 1 /\ In(bag, Changing) # {}

server == <<multi, keystore, open, issued, version>>

-------------------------------------------------------------------------------
(* The server.                                                                 *)
require_active(tok) == open[IF multi THEN tok ELSE None]
answer(m, status, data) ==
    /\ pending' = (pending (-) SetToBag({m})) (+) SetToBag({[m EXCEPT !.status = status, !.data = data]})
    /\ UNCHANGED <<multi, token, page, disturbed>>
holds(p, w) == [wallet |-> w, at |-> IF p = "accounts" THEN keystore[w[1]] ELSE version[p]]

handle_status(m) ==
    /\ m.path \in {"status", "lock_status"}
    /\ answer(m, "ok", [wallet |-> require_active(m.tok), keystore_exists |-> multi \/ keystore[Local] # {}])
    /\ UNCHANGED <<keystore, open, issued, version>>

\* accounts, contacts, history, balance, utxos, pools and the fingerprint's code: of the
\* active wallet.  The keystore, a file or the node may fail.
handle_list(m) ==
    /\ m.path \in Panels
    /\ LET w == require_active(m.tok)
       IN  \/ w = None /\ answer(m, "unauthorized", None)
           \/ w # None /\ (answer(m, "ok", holds(m.path, w)) \/ answer(m, "failed", None))
    /\ UNCHANGED <<keystore, open, issued, version>>

\* A session for the user, if the password is right; registering makes the keystore.
handle_auth(m) ==
    /\ m.path \in {"login", "register", "register_import"}
    /\ \/ \E t \in Tokens \ issued :
            /\ multi /\ (m.path = "login") = (keystore[m.where] # {})
            /\ answer(m, "ok", t) /\ issued' = issued \cup {t}
            /\ open' = [open EXCEPT ![t] = <<m.where, 0>>]
            /\ keystore' = [keystore EXCEPT ![m.where] = @ \cup {0}] /\ UNCHANGED version
       \/ /\ answer(m, IF m.path = "login" /\ multi THEN "unauthorized" ELSE "failed", None)
          /\ UNCHANGED <<keystore, open, issued, version>>

handle_single(m) ==
    /\ m.path \in {"create", "unlock", "lock"}
    /\ \/ /\ ~multi /\ m.path = "create" /\ keystore[Local] = {}
          /\ keystore' = [keystore EXCEPT ![Local] = {0}]
          /\ answer(m, "ok", m.where) /\ UNCHANGED <<open, issued, version>>
       \/ /\ ~multi /\ m.path = "unlock" /\ keystore[Local] # {}
          /\ open' = [open EXCEPT ![None] = <<Local, 0>>]
          /\ answer(m, "ok", None) /\ UNCHANGED <<keystore, issued, version>>
       \/ /\ ~multi /\ m.path = "lock"
          /\ open' = [open EXCEPT ![None] = None]
          /\ answer(m, "ok", None) /\ UNCHANGED <<keystore, issued, version>>
       \/ /\ multi \/ m.path # "lock"
          /\ answer(m, IF ~multi /\ m.path = "unlock" THEN "unauthorized" ELSE "failed", None)
          /\ UNCHANGED <<keystore, open, issued, version>>

handle_auth_logout(m) ==
    /\ m.path = "logout" /\ answer(m, "ok", None)
    /\ open' = [open EXCEPT ![m.tok] = None]
    /\ UNCHANGED <<keystore, issued, version>>

handle_switch_account(m) ==
    /\ m.path = "switch"
    /\ LET w == require_active(m.tok)
       IN  \/ /\ w # None /\ answer(m, "ok", None)
              /\ open' = [open EXCEPT ![IF multi THEN m.tok ELSE None] = <<w[1], m.where>>]
              /\ keystore' = [keystore EXCEPT ![w[1]] = @ \cup {m.where}]
              /\ UNCHANGED <<issued, version>>
           \/ /\ answer(m, IF w = None THEN "unauthorized" ELSE "failed", None)
              /\ UNCHANGED <<keystore, open, issued, version>>

\* Payments are recorded in the history, contacts in the book; the faucet, a swap and a
\* disclosure change neither.
handle_order(m) ==
    /\ m.path \in Writing \cup {"faucet", "swap", "disclose", "download"}
    /\ LET w == require_active(m.tok)
           changed == (IF m.path = "send" THEN {"history"} ELSE IF m.path \in Writing THEN {"contacts"} ELSE {})
                      \cap Panels
       IN  \/ /\ w # None /\ answer(m, "ok", m.where) /\ \A p \in changed : version[p] < MaxWrites
              /\ version' = [p \in Panels |-> IF p \in changed THEN version[p] + 1 ELSE version[p]]
           \/ /\ answer(m, IF w = None THEN "unauthorized" ELSE "failed", None)
              /\ UNCHANGED version
    /\ UNCHANGED <<keystore, open, issued>>

router == \E m \in BagToSet(pending) :
            /\ m.status = "sent"
            /\ \/ handle_status(m) \/ handle_list(m) \/ handle_auth(m) \/ handle_single(m)
               \/ handle_auth_logout(m) \/ handle_switch_account(m) \/ handle_order(m)

\* A session runs out, or the server was started again.
Expire == /\ \E t \in DOMAIN open : open[t] # None /\ open' = [open EXCEPT ![t] = None]
          /\ UNCHANGED <<multi, keystore, issued, version, token, page, pending, disturbed>>

\* The connection breaks before the request or the answer is through.
Lose == /\ \E m \in BagToSet(pending) :
              /\ m.status \notin {"failed", "due"}
              /\ pending' = (pending (-) SetToBag({m}))
                            (+) SetToBag({[m EXCEPT !.status = "failed", !.data = None]})
              /\ disturbed' = (disturbed \/ m.path \in Changing)
        /\ UNCHANGED <<server, token, page>>

-------------------------------------------------------------------------------
(* The page's handlers.  A click sends; the handler goes on with the answer m. *)
click(requests) ==
    /\ BagCardinality(pending) < MaxPending \/ Disturbs(pending (+) SetToBag(requests))
    /\ pending' = pending (+) SetToBag(requests)
    /\ disturbed' = (disturbed \/ Disturbs(pending'))
    /\ UNCHANGED <<server, token>>
Click(path, where) == click({Request(path, where, token)}) /\ UNCHANGED page
Idle(paths) == In(pending, paths) = {}

Answered(path) == {m \in In(pending, {path}) : m.status # "sent"}
goes_on(m, tok, requests) ==
    /\ pending' = (pending (-) SetToBag({m})) (+) SetToBag(requests)
    /\ disturbed' = (disturbed \/ Disturbs(pending') \/ (m.path = "status" /\ m.status = "failed"))
    /\ token' = tok
    /\ UNCHANGED server

\* An answer 401 drops the token, whichever token was sent.
api(m) == IF m.status = "unauthorized" THEN None ELSE token
refresh(tok) == {Request("status", None, tok)}

\* On an open wallet every panel is asked for; a locked one is only hidden.
refreshStatus ==
    \E m \in Answered("status") :
        \/ m.status = "failed" /\ goes_on(m, token, {}) /\ UNCHANGED page
        \/ /\ m.status = "ok" /\ m.data.wallet # None
           /\ page' = [page EXCEPT !.open = TRUE, !.wallet = m.data.wallet, !.view = "none"]
           /\ goes_on(m, token, ask(Panels, token))
        \/ /\ m.status = "ok" /\ m.data.wallet = None
           /\ page' = [page EXCEPT !.open = FALSE,
                         !.view = IF multi THEN "login" ELSE IF m.data.keystore_exists THEN "unlock" ELSE "create",
                         !.panel = [p \in Panels |-> IF p = "fp-qr" THEN Blank ELSE @[p]]]
           /\ goes_on(m, token, {})

\* What a panel shows after its answer.  One that could not be read says so (failed) and is
\* left as it was or emptied.
filled(m) == [page EXCEPT !.panel[m.path] = m.data, !.failed = @ \ {m.path}]
emptied(m) == [page EXCEPT !.panel[m.path] = Blank, !.failed = @ \cup {m.path}]
kept(m) == [page EXCEPT !.failed = @ \cup {m.path}]
refreshBalance(m) == IF m.status = "ok" THEN filled(m) ELSE emptied(m)
refreshUtxos(m) == IF m.status = "ok" THEN filled(m) ELSE kept(m)
refreshPools(m) == IF m.status = "ok" THEN filled(m) ELSE kept(m)
refreshAccounts(m) == IF m.status = "ok" THEN filled(m) ELSE kept(m)
refreshHistory(m) == IF m.status = "ok" THEN filled(m) ELSE kept(m)
refreshContacts(m) == IF m.status = "ok" THEN filled(m) ELSE kept(m)
loadFingerprintQr(m) == IF m.status = "ok" THEN filled(m) ELSE emptied(m)

\* Without the check of the answer that api makes.
authFetch(m) == token

refreshPanel(p) ==
    \E m \in Answered(p) :
        /\ page' = CASE p = "balance" -> refreshBalance(m) [] p = "utxos" -> refreshUtxos(m)
                     [] p = "pools" -> refreshPools(m) [] p = "accounts" -> refreshAccounts(m)
                     [] p = "history" -> refreshHistory(m) [] p = "contacts" -> refreshContacts(m)
                     [] p = "fp-qr" -> loadFingerprintQr(m)
        /\ goes_on(m, IF p = "fp-qr" THEN authFetch(m) ELSE api(m), {})
btn_refresh(p) == page.open /\ p \notin {"accounts", "fp-qr"} /\ click(ask({p}, token)) /\ UNCHANGED page

-------------------------------------------------------------------------------
(* Opening and closing a wallet.  All but the lock ask for the status if the   *)
(* request succeeded.                                                          *)
done(path, tok(_), shown(_)) ==
    \E m \in Answered(path) :
        \/ m.status = "ok" /\ goes_on(m, tok(m), refresh(tok(m))) /\ page' = shown(m)
        \/ m.status # "ok" /\ goes_on(m, api(m), {}) /\ UNCHANGED page
Same(m) == page
Given(m) == m.data
Words(m) == [page EXCEPT !.mnemonic = TRUE]
Created(m) == IF m.data = "new" THEN Words(m) ELSE page

btn_unlock == (page.view = "unlock" /\ Click("unlock", None)) \/ done("unlock", api, Same)
btn_create == (page.view = "create" /\ Click("create", "new")) \/ done("create", api, Created)
btn_import == page.view = "import" /\ Click("create", "phrase")
show_import == /\ page.view \in {"unlock", "create"} /\ page' = [page EXCEPT !.view = "import"]
               /\ UNCHANGED <<server, token, pending, disturbed>>
back_to_unlock == page.view = "import" /\ click(refresh(token)) /\ UNCHANGED page

auth_tab(v) == /\ page.view \in {"login", "register"} \ {v} /\ page' = [page EXCEPT !.view = v]
               /\ UNCHANGED <<server, token, pending, disturbed>>
btn_login == (page.view = "login" /\ \E u \in Users : Click("login", u)) \/ done("login", Given, Same)
btn_register ==
    \/ page.view = "register" /\ \E u \in Users : Click("register", u) \/ Click("register_import", u)
    \/ done("register", Given, Words) \/ done("register_import", Given, Same)
btn_mnemonic_done == /\ page.mnemonic /\ page' = [page EXCEPT !.mnemonic = FALSE]
                     /\ UNCHANGED <<server, token, pending, disturbed>>

\* The mode decides between log-out and lock; the status follows in every case, and the
\* token is dropped even if the log-out did not arrive.
btn_lock ==
    \/ page.open /\ Click("lock_status", None)
    \/ \E m \in Answered("lock_status") :
          /\ goes_on(m, api(m), IF m.status # "ok" THEN refresh(api(m))
                                ELSE {Request(IF multi THEN "logout" ELSE "lock", None, token)})
          /\ UNCHANGED page
    \/ \E m \in Answered("logout") : goes_on(m, None, refresh(None)) /\ UNCHANGED page
    \/ \E m \in Answered("lock") : goes_on(m, api(m), refresh(api(m))) /\ UNCHANGED page

Listed == IF "accounts" \in Panels /\ page.open /\ page.panel["accounts"] \notin {None, Blank}
            THEN page.panel["accounts"].at ELSE {}
nextAccount == CHOOSE n \in 1..(MaxAccount + 1) : n - 1 \in Listed /\ \A a \in Listed : a < n
account_picker == (\E a \in Listed : Click("switch", a)) \/ done("switch", api, Same)
btn_new_account == Listed # {} /\ nextAccount <= MaxAccount /\ Click("switch", nextAccount)

-------------------------------------------------------------------------------
(* Orders.  A button is disabled while its order is under way; the faucet and  *)
(* the swap wait before they look again.                                       *)
order(path, then, later) ==
    \/ page.open /\ Idle({path}) /\ Click(path, None)
    \/ \E m \in Answered(path) :
        /\ goes_on(m, api(m), IF m.status # "ok" THEN {}
                              ELSE IF later THEN {[Request("timer", then, None) EXCEPT !.status = "due"]}
                              ELSE ask(then, api(m)))
        /\ UNCHANGED page
btn_send == order("send", {"balance", "utxos", "history"}, FALSE)
btn_faucet_go == order("faucet", {"balance", "utxos", "history"}, TRUE)
btn_swap == order("swap", {"pools", "balance", "utxos"}, TRUE)
setTimeout == \E m \in Answered("timer") : goes_on(m, token, ask(m.where, token)) /\ UNCHANGED page

\* The buttons of the contacts stay enabled.
contact(path) ==
    \/ page.open /\ Click(path, None)
    \/ \E m \in Answered(path) :
        goes_on(m, api(m), IF m.status = "ok" THEN ask({"contacts"}, api(m)) ELSE {}) /\ UNCHANGED page
btn_contacts_add == contact("contacts_add")
contactRemoveBtn == contact("contacts_remove")

\* Files of the view key or the address, and the codes of the address.
fetched(what, tok(_)) ==
    \/ page.open /\ Click("download", what)
    \/ \E m \in Answered("download") : m.where = what /\ goes_on(m, tok(m), {}) /\ UNCHANGED page
btn_download_view_key == fetched("view-key", authFetch)
btn_download_qvaddr == fetched("qvaddr", authFetch)
btn_show_full_qr == fetched("codes", api)

-------------------------------------------------------------------------------
(* A disclosure: the output is remembered when the panel is opened, sent, and  *)
(* read again for the file's name when the answer is there.                    *)
Touch(out) ==
    /\ page' = [page EXCEPT !.disclose = out]
    /\ disturbed' = (disturbed \/ ~Idle({"disclose"}))
    /\ UNCHANGED <<server, token, pending>>
openDisclosePanel(out) == page.open /\ Touch(out)
btn_disclose_cancel == page.open /\ page.disclose # None /\ Touch(None)
btn_disclose_create ==
    \/ page.open /\ page.disclose # None /\ Click("disclose", page.disclose)
    \/ \E m \in Answered("disclose") :
        /\ goes_on(m, api(m), {})
        /\ page' = IF m.status = "ok" /\ page.disclose # None
                     THEN [page EXCEPT !.misnamed = @ \/ page.disclose # m.data, !.disclose = None]
                     ELSE page

\* The page is loaded again: only the token is kept.
Reload == /\ pending = EmptyBag /\ page # BlankPage /\ page' = BlankPage
          /\ pending' = SetToBag(refresh(token))
          /\ UNCHANGED <<server, token, disturbed>>

Next == \/ router \/ Expire \/ Lose \/ Reload
        \/ refreshStatus \/ setTimeout
        \/ \E p \in Panels : refreshPanel(p) \/ btn_refresh(p)
        \/ btn_unlock \/ btn_create \/ btn_import \/ show_import \/ back_to_unlock
        \/ (\E v \in {"login", "register"} : auth_tab(v)) \/ btn_login \/ btn_register \/ btn_mnemonic_done
        \/ btn_lock \/ account_picker \/ btn_new_account
        \/ btn_send \/ btn_faucet_go \/ btn_swap \/ btn_contacts_add \/ contactRemoveBtn
        \/ btn_download_view_key \/ btn_download_qvaddr \/ btn_show_full_qr
        \/ (\E out \in Outputs : openDisclosePanel(out)) \/ btn_disclose_cancel \/ btn_disclose_create

Spec == Init /\ [][Next]_vars

-------------------------------------------------------------------------------
AtRest == pending = EmptyBag /\ ~disturbed

(* When nothing is under way, the page shows the wallet that its token opens,  *)
(* and every panel the newest data of that wallet or else has said that it     *)
(* could not be read (the balance and the code are then empty, never those of  *)
(* another wallet), provided that no request that changes the wallet           *)
(* overlapped another (refreshStatus and the handlers that call it).           *)
ShowsOneWallet ==
    AtRest =>
        /\ require_active(token) # None => page.open /\ page.wallet = require_active(token)
        /\ page.open => \A p \in Panels :
               \/ page.panel[p] = holds(p, page.wallet)
               \/ p \in page.failed /\ (p \in {"balance", "fp-qr"} => page.panel[p] = Blank)

(* No session stays behind on the server that the page has no token of: the    *)
(* log-out precedes the drop of the token, and a token is dropped by itself    *)
(* only for a session that is gone (api, btn-lock, btn-login).                 *)
NoSessionBehind == AtRest => \A t \in Tokens : open[t] # None => t = token

(* A disclosure is saved under the name of the output it is of, unless the     *)
(* panel was opened or closed while it was made (btn-disclose-create).         *)
SavedUnderItsName == ~disturbed => ~page.misnamed

PageSound == ShowsOneWallet /\ NoSessionBehind /\ SavedUnderItsName
===============================================================================
