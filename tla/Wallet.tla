--------------------------------- MODULE Wallet ---------------------------------
(* The wallet's keystore and its local server (qv-wallet: server.rs,         *)
(* session.rs, keystore.rs, address_book.rs, main.rs).  The server runs with *)
(* one keystore and one unlocked slot, or with a keystore per user and       *)
(* sessions that expire.  Handlers run in parallel, and each reads and       *)
(* writes files without a lock: a request is a few steps, in between which   *)
(* other requests, a command-line process or a crash may come.               *)
(*                                                                           *)
(* A mnemonic and a view key are named by when they were made; a stealth     *)
(* address is that of a mnemonic, an account and a view key.  An encrypted   *)
(* file is its plaintext and the password that opens it.                     *)
EXTENDS Integers, FiniteSets

CONSTANTS Users, Local,       \* Local: the user whose keystore the CLI and single mode use
          Accounts, Passwords, ShortPasswords, DEVNET_TEST_MNEMONIC, Phrases,
          Labels, Tokens, Requests, None, Torn,
          session_ttl,
          MaxTime, MaxViews   \* bounds

VARIABLES
    backend,    \* "single" or "multi"
    keystore,   \* per user: None, Torn or [password, mnemonic, view_keypairs]
    contacts,   \* per user: None or [password, labels]
    sessions,   \* per token: None or an open wallet with its last use
    unlocked,   \* the slot of single mode: None or an open wallet
    issued,     \* tokens given out so far
    request,    \* the requests being served
    now, fresh, \* the clock; view keys and mnemonics made so far
    overlapped  \* history: two requests were once in progress together

vars == <<backend, keystore, contacts, sessions, unlocked, issued, request,
          now, fresh, overlapped>>

idle == [op |-> "none"]
Busy == {r \in Requests : request[r] # idle}

AppState_new ==
    /\ backend \in {"single", "multi"}
    /\ keystore = [u \in Users |-> None] /\ contacts = [u \in Users |-> None]
    /\ sessions = [t \in Tokens |-> None] /\ unlocked = None /\ issued = {}
    /\ request = [r \in Requests |-> idle]
    /\ now = 0 /\ fresh = 0 /\ overlapped = FALSE

(* A handler that starts work that takes several steps.                    *)
Begin(r, work) ==
    /\ request[r] = idle
    /\ request' = [request EXCEPT ![r] = work]
    /\ overlapped' = (overlapped \/ Busy # {})

Open(u, a, secret, pw) ==
    [user |-> u, account |-> a, mnemonic |-> secret.mnemonic,
     view |-> secret.view_keypairs[a], password |-> pw, last_seen |-> now]

-----------------------------------------------------------------------------
(* session.rs *)
expired(e) == now - e.last_seen > session_ttl

SessionStore_insert(entry) ==
    \E t \in Tokens \ issued :
        /\ issued' = issued \cup {t}
        /\ sessions' = [sessions EXCEPT ![t] = [entry EXCEPT !.last_seen = now]]

(* Only a session that is still there is updated.                          *)
replace_always(t, entry) == sessions' = [sessions EXCEPT ![t] = [entry EXCEPT !.last_seen = now]]
replace(t, entry) ==
    sessions' = IF sessions[t] = None THEN sessions
                ELSE [sessions EXCEPT ![t] = [entry EXCEPT !.last_seen = now]]

touch(t) ==
    sessions' = IF sessions[t] = None THEN sessions
                ELSE IF expired(sessions[t]) THEN [sessions EXCEPT ![t] = None]
                ELSE [sessions EXCEPT ![t].last_seen = now]

remove(t) == sessions' = [sessions EXCEPT ![t] = None]

(* The open wallet a request acts for; using a session renews it.          *)
Active(t) == IF backend = "single" THEN unlocked
             ELSE IF sessions[t] # None /\ expired(sessions[t]) THEN None ELSE sessions[t]
require_active(t) ==
    IF backend = "single" THEN UNCHANGED sessions ELSE t \in issued /\ touch(t)

require_single == backend = "single"
require_multi == backend = "multi"

-----------------------------------------------------------------------------
(* keystore.rs *)
Exists(u) == keystore[u] # None
load(u, pw) == Exists(u) /\ keystore[u] # Torn /\ keystore[u].password = pw
with_account(u, a) ==
    LET views == keystore[u].view_keypairs
    IN  [mnemonic |-> keystore[u].mnemonic,
         view_keypairs |-> [b \in DOMAIN views \cup {a} |-> IF b \in DOMAIN views THEN views[b] ELSE fresh]]

new_secret(mnemonic) == [mnemonic |-> mnemonic, view_keypairs |-> [a \in {0} |-> fresh]]

(* An account opened for the first time gets a fresh view key, which is    *)
(* saved in a later step together with everything that was loaded.         *)
unlock_account_unsaved(r, op, t, u, a, pw) ==
    LET secret == with_account(u, a)
    IN  /\ Begin(r, [op |-> op, stage |-> "finish", token |-> t, user |-> u,
                     account |-> a, password |-> pw, secret |-> secret])
        /\ fresh < MaxViews /\ fresh' = fresh + 1

unlock_account(r, op, t, u, a, pw) ==
    LET missing == a \notin DOMAIN keystore[u].view_keypairs
        secret == with_account(u, a)
    IN  /\ Begin(r, [op |-> op, stage |-> IF missing THEN "save" ELSE "finish", token |-> t,
                     user |-> u, account |-> a, password |-> pw, secret |-> secret])
        /\ missing => fresh < MaxViews
        /\ fresh' = IF missing THEN fresh + 1 ELSE fresh

(* fs::write of the encrypted secret.                                      *)
save(r) ==
    /\ request[r] # idle /\ request[r].stage = "save"
    /\ LET w == request[r] IN
        keystore' = [keystore EXCEPT ![w.user] =
            [password |-> w.password, mnemonic |-> w.secret.mnemonic,
             view_keypairs |-> w.secret.view_keypairs]]
    /\ request' = [request EXCEPT ![r].stage = "finish"]
    /\ UNCHANGED <<backend, contacts, sessions, unlocked, issued, now, fresh, overlapped>>

-----------------------------------------------------------------------------
(* New wallets.  The check that there is none precedes the write.          *)
create(r, op, u, pw, mnemonic) ==
    /\ ~Exists(u) /\ pw \notin ShortPasswords
    /\ Begin(r, [op |-> op, stage |-> "save", token |-> None, user |-> u, account |-> 0,
                 password |-> pw, secret |-> new_secret(mnemonic)])
    /\ fresh < MaxViews /\ fresh' = fresh + 1
    /\ UNCHANGED <<backend, keystore, contacts, sessions, unlocked, issued, now>>

handle_create(r, pw) == require_single /\ create(r, "create", Local, pw, fresh)
handle_import(r, pw, phrase) == require_single /\ create(r, "create", Local, pw, phrase)
handle_auth_register(r, u, pw, mnemonic) ==
    require_multi /\ create(r, "register", u, pw, mnemonic)
cmd_init(r, pw) == create(r, "cli", Local, pw, fresh)
cmd_import(r, pw, phrase) == create(r, "cli", Local, pw, phrase)
cmd_devnet_import(r, pw) == create(r, "cli", Local, pw, DEVNET_TEST_MNEMONIC)

(* Opening a wallet: single mode, a user's login, the command line.        *)
opening(r, op, t, u, a, pw) ==
    /\ load(u, pw) /\ unlock_account(r, op, t, u, a, pw)
    /\ UNCHANGED <<backend, keystore, contacts, unlocked, issued, now>>
handle_unlock(r, a, pw) ==
    require_single /\ opening(r, "unlock", None, Local, a, pw) /\ UNCHANGED sessions
handle_auth_login(r, u, a, pw) ==
    require_multi /\ opening(r, "login", None, u, a, pw) /\ UNCHANGED sessions
unlock_and_derive(r, a, pw) ==
    opening(r, "cli", None, Local, a, pw) /\ UNCHANGED sessions

handle_switch_account(r, t, a) ==
    /\ Active(t) # None /\ Active(t).account # a
    /\ require_active(t)
    /\ opening(r, "switch", t, Active(t).user, a, Active(t).password)

(* The last step: the open wallet goes to the slot, to a new session or to *)
(* the session that asked; the command line only shows the address.        *)
finish(r) ==
    LET w == request[r]
        entry == Open(w.user, w.account, w.secret, w.password)
    IN  /\ w # idle /\ w.stage = "finish"
        /\ request' = [request EXCEPT ![r] = idle]
        /\ CASE w.op \in {"register", "login"} ->
                    SessionStore_insert(entry) /\ UNCHANGED unlocked
             [] w.op = "unlock" \/ (w.op = "switch" /\ backend = "single") ->
                    unlocked' = entry /\ UNCHANGED <<sessions, issued>>
             [] w.op = "switch" /\ backend = "multi" ->
                    replace(w.token, entry) /\ UNCHANGED <<unlocked, issued>>
             [] w.op \in {"create", "cli"} -> UNCHANGED <<sessions, unlocked, issued>>
        /\ UNCHANGED <<backend, keystore, contacts, now, fresh, overlapped>>

handle_lock ==
    /\ require_single /\ unlocked # None /\ unlocked' = None
    /\ UNCHANGED <<backend, keystore, contacts, sessions, issued, request, now, fresh, overlapped>>
handle_auth_logout(t) ==
    /\ require_multi /\ sessions[t] # None /\ remove(t)
    /\ UNCHANGED <<backend, keystore, contacts, unlocked, issued, request, now, fresh, overlapped>>

(* Requests that only look at the active wallet: renewing its session is   *)
(* all they change.                                                        *)
look(t) ==
    /\ require_multi /\ sessions[t] # None /\ touch(t)
    /\ UNCHANGED <<backend, keystore, contacts, unlocked, issued, request, now, fresh, overlapped>>

-----------------------------------------------------------------------------
(* address_book.rs: load, change, save.                                    *)
Book(u) == IF contacts[u] = None THEN {} ELSE contacts[u].labels
load_or_empty(u, pw) == contacts[u] # None => contacts[u].password = pw
Contacts_save(r) ==
    /\ request[r] # idle /\ request[r].stage = "contacts"
    /\ contacts' = [contacts EXCEPT ![request[r].user] =
                        [password |-> request[r].password, labels |-> request[r].book]]
    /\ request' = [request EXCEPT ![r] = idle]
    /\ UNCHANGED <<backend, keystore, sessions, unlocked, issued, now, fresh, overlapped>>

change_contacts(r, t, book) ==
    /\ Active(t) # None /\ require_active(t)
    /\ load_or_empty(Active(t).user, Active(t).password)
    /\ Begin(r, [op |-> "contacts", stage |-> "contacts", user |-> Active(t).user,
                 password |-> Active(t).password, book |-> book])
    /\ UNCHANGED <<backend, keystore, contacts, unlocked, issued, now, fresh>>
handle_contacts_add(r, t, label) ==
    /\ Active(t) # None /\ label \notin Book(Active(t).user)
    /\ change_contacts(r, t, Book(Active(t).user) \cup {label})
handle_contacts_remove(r, t, label) ==
    /\ Active(t) # None /\ label \in Book(Active(t).user)
    /\ change_contacts(r, t, Book(Active(t).user) \ {label})

-----------------------------------------------------------------------------
Tick == /\ now < MaxTime /\ now' = now + 1
        /\ UNCHANGED <<backend, keystore, contacts, sessions, unlocked, issued, request,
                       fresh, overlapped>>

(* The machine stops: open wallets and requests are gone, and a file that  *)
(* was being written may be left neither old nor new.                      *)
Crash ==
    /\ Busy # {} \/ unlocked # None \/ \E t \in Tokens : sessions[t] # None
    /\ sessions' = [t \in Tokens |-> None] /\ unlocked' = None
    /\ request' = [r \in Requests |-> idle]
    /\ LET writing == {request[r].user : r \in {q \in Busy : request[q].stage = "save"}}
       IN  \E torn \in SUBSET writing :
            keystore' = [u \in Users |-> IF u \in torn THEN Torn ELSE keystore[u]]
    /\ UNCHANGED <<backend, contacts, issued, now, fresh, overlapped>>

Init == AppState_new

Next ==
    \/ \E r \in Requests : save(r) \/ finish(r) \/ Contacts_save(r)
    \/ \E r \in Requests, pw \in Passwords \cup ShortPasswords :
        \/ handle_create(r, pw) \/ cmd_init(r, pw) \/ cmd_devnet_import(r, pw)
        \/ \E p \in Phrases : handle_import(r, pw, p) \/ cmd_import(r, pw, p)
        \/ \E u \in Users, m \in Phrases \cup {fresh} : handle_auth_register(r, u, pw, m)
        \/ \E a \in Accounts :
            \/ handle_unlock(r, a, pw) \/ unlock_and_derive(r, a, pw)
            \/ \E u \in Users : handle_auth_login(r, u, a, pw)
    \/ handle_lock
    \/ \E t \in Tokens :
        \/ handle_auth_logout(t) \/ look(t)
        \/ \E r \in Requests :
            \/ \E a \in Accounts : handle_switch_account(r, t, a)
            \/ \E l \in Labels : handle_contacts_add(r, t, l) \/ handle_contacts_remove(r, t, l)
    \/ Tick \/ Crash

Spec == Init /\ [][Next]_vars

-----------------------------------------------------------------------------
(* Once a session is gone (logged out, expired or lost in a crash) nothing *)
(* brings it back, whatever was in progress for it: replace, in            *)
(* handle_switch_account, finishes after the log-out.                      *)
LogoutFinal == \A t \in issued : sessions[t] = None => sessions'[t] = None

(* While requests do not overlap, every open wallet is the one that its    *)
(* keystore opens: same mnemonic, same view key, the password that opens   *)
(* it.  An account therefore has one stealth address, whichever of create, *)
(* register, login, unlock and switch met it first, crashes included.      *)
Opens(e) == /\ load(e.user, e.password) /\ keystore[e.user].mnemonic = e.mnemonic
            /\ e.account \in DOMAIN keystore[e.user].view_keypairs
            /\ keystore[e.user].view_keypairs[e.account] = e.view
SameAddress == /\ \A t \in Tokens : sessions[t] # None => Opens(sessions[t])
               /\ unlocked # None => Opens(unlocked)
SerialSameAddress == ~overlapped => SameAddress
================================================================================
