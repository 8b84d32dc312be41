---------------------------- MODULE SessionStore ----------------------------
(***************************************************************************)
(* Who is signed in, as the browser sees it: stores/auth.ts, the guards    *)
(* RequireAuth and RedirectIfAuth of App.tsx that decide which of its      *)
(* operations can be called, and the session cookie that login and logout  *)
(* set and delete and every request carries.                               *)
(*                                                                         *)
(* Nothing cancels a request, and the answers come in any order.  A token  *)
(* is the user it was made for; a session that was restored from the       *)
(* cookie ("cookie-session") is the user the answer named.                 *)
(***************************************************************************)
EXTENDS Naturals, Sequences, SequencesExt

CONSTANTS
    User,
    NoUser,
    MaxRequests, \* bound: requests in flight
    MaxReloads   \* bound: how often the page is loaded again

ASSUME SessionAssumption ==
    /\ NoUser \notin User
    /\ MaxRequests \in Nat \ {0}
    /\ MaxReloads \in Nat

VARIABLES
    cookie,    \* the session cookie of the browser
    token, user, loading, error, restored,    \* the store
    requests,  \* requests in flight, in the order they were sent
    reloads,   \* how often the page was loaded again
    signedOut, \* history: somebody signed out and nobody tried to sign in since
    late       \* history: an answer overtook another, came after the sign-out of the
               \* one it was for, or did not come

store == <<token, user, loading, error, restored>>
sessionVars == <<cookie, store, requests, reloads, signedOut, late>>

\* as: who asks to sign in, or whose cookie the request carries
Requests == [op : {"restore", "login", "me", "register", "logout"}, as : User \cup {NoUser}]
Request(op, as) == [op |-> op, as |-> as]

Anyone == User \cup {NoUser}

SessionTypeOK ==
    /\ cookie \in Anyone /\ token \in Anyone /\ user \in Anyone
    /\ loading \in BOOLEAN /\ error \in BOOLEAN /\ restored \in BOOLEAN
    /\ requests \in Seq(Requests)
    /\ reloads \in 0..MaxReloads
    /\ signedOut \in BOOLEAN /\ late \in BOOLEAN

\* The app is mounted, with or without a cookie of an earlier visit, and asks who it is.
SessionInit ==
    /\ cookie \in Anyone
    /\ token = NoUser /\ user = NoUser
    /\ loading = FALSE /\ error = FALSE /\ restored = FALSE
    /\ requests = <<Request("restore", cookie)>>
    /\ reloads = 0
    /\ signedOut = FALSE /\ late = FALSE

-----------------------------------------------------------------------------
Room == Len(requests) < MaxRequests
Send(call) == requests' = Append(requests, call)

\* The forms are shown while nobody is signed in, their button works unless loading.
MayEnter == restored /\ token = NoUser /\ ~loading /\ Room

Login(u) ==
    /\ MayEnter
    /\ loading' = TRUE /\ error' = FALSE
    /\ signedOut' = FALSE
    /\ Send(Request("login", u))
    /\ UNCHANGED <<cookie, token, user, restored, reloads, late>>

Register(u) ==
    /\ MayEnter
    /\ loading' = TRUE /\ error' = FALSE
    /\ signedOut' = FALSE
    /\ Send(Request("register", u))
    /\ UNCHANGED <<cookie, token, user, restored, reloads, late>>

\* a sign-out that does not wait for the store: the guards are gone
MutAnyLogout ==
    /\ Room
    /\ token' = NoUser /\ user' = NoUser /\ error' = FALSE /\ restored' = TRUE
    /\ signedOut' = TRUE
    /\ Send(Request("logout", cookie))
    /\ UNCHANGED <<cookie, loading, reloads, late>>

\* a sign-out that leaves the user where it is
MutLogout ==
    /\ restored /\ token # NoUser /\ Room
    /\ token' = NoUser /\ error' = FALSE /\ restored' = TRUE
    /\ signedOut' = TRUE
    /\ Send(Request("logout", cookie))
    /\ UNCHANGED <<cookie, user, loading, reloads, late>>

\* The button is in the shell, which is shown to who is signed in.
Logout ==
    /\ restored /\ token # NoUser /\ Room
    /\ token' = NoUser /\ user' = NoUser /\ error' = FALSE /\ restored' = TRUE
    /\ signedOut' = TRUE
    /\ Send(Request("logout", cookie))
    /\ UNCHANGED <<cookie, loading, reloads, late>>

-----------------------------------------------------------------------------
\* The i-th request is answered; sent are the requests its answer leads to.
Received(i, sent) ==
    /\ requests' = RemoveAt(requests, i) \o sent
    /\ late' = (late \/ i # 1)

SignInFailed ==
    /\ token' = NoUser /\ user' = NoUser /\ loading' = FALSE /\ error' = TRUE
    /\ restored' = TRUE

\* The browser keeps the cookie of the answer, and asks with it who has signed in.
LoginAnswered(i) ==
    /\ requests[i].op = "login"
    /\ \/ /\ cookie' = requests[i].as
          /\ token' = requests[i].as /\ loading' = FALSE /\ restored' = TRUE
          /\ Received(i, <<Request("me", requests[i].as)>>)
          /\ UNCHANGED <<user, error>>
       \/ SignInFailed /\ Received(i, <<>>) /\ UNCHANGED cookie
    /\ UNCHANGED <<reloads, signedOut>>

MeAnswered(i) ==
    /\ requests[i].op = "me"
    /\ \/ /\ requests[i].as # NoUser
          /\ user' = requests[i].as
          /\ UNCHANGED <<token, loading, error, restored>>
       \/ SignInFailed
    /\ requests' = RemoveAt(requests, i)
    /\ late' = (late \/ i # 1 \/ token # requests[i].as)
    /\ UNCHANGED <<cookie, reloads, signedOut>>

\* registration goes on as a login
RegisterAnswered(i) ==
    /\ requests[i].op = "register"
    /\ \/ /\ loading' = TRUE /\ error' = FALSE
          /\ Received(i, <<Request("login", requests[i].as)>>)
       \/ loading' = FALSE /\ error' = TRUE /\ Received(i, <<>>)
    /\ UNCHANGED <<cookie, token, user, restored, reloads, signedOut>>

\* A failure is not noticed, and the cookie stays.
LogoutAnswered(i) ==
    /\ requests[i].op = "logout"
    /\ \/ cookie' = NoUser /\ Received(i, <<>>)
       \/ requests' = RemoveAt(requests, i) /\ late' = TRUE /\ UNCHANGED cookie
    /\ UNCHANGED <<store, reloads, signedOut>>

RestoreAnswered(i) ==
    /\ requests[i].op = "restore"
    /\ \/ /\ requests[i].as # NoUser
          /\ user' = requests[i].as
          /\ token' = IF token = NoUser THEN requests[i].as ELSE token
       \/ token' = NoUser /\ user' = NoUser
    /\ restored' = TRUE
    /\ Received(i, <<>>)
    /\ UNCHANGED <<cookie, loading, error, reloads, signedOut>>

Answer ==
    \E i \in DOMAIN requests :
        \/ LoginAnswered(i) \/ MeAnswered(i) \/ RegisterAnswered(i)
        \/ LogoutAnswered(i) \/ RestoreAnswered(i)

\* The page is loaded again: the store starts afresh and no answer reaches it any more.
\* A sign-out that was on its way may have been cut off, the cookie with it.
Reload ==
    /\ reloads < MaxReloads
    /\ reloads' = reloads + 1
    /\ token' = NoUser /\ user' = NoUser
    /\ loading' = FALSE /\ error' = FALSE /\ restored' = FALSE
    /\ requests' = <<Request("restore", cookie)>>
    /\ late' = (late \/ \E i \in DOMAIN requests : requests[i].op = "logout")
    /\ UNCHANGED <<cookie, signedOut>>

\* The cookie's max_age is over.
Expire ==
    /\ cookie # NoUser
    /\ cookie' = NoUser
    /\ late' = TRUE
    /\ UNCHANGED <<store, requests, reloads, signedOut>>

SessionNext ==
    \/ \E u \in User : Login(u) \/ Register(u)
    \/ Logout \/ Answer \/ Reload \/ Expire

SessionSpec == SessionInit /\ [][SessionNext]_sessionVars

-----------------------------------------------------------------------------
\* Unless an answer was late or lost, the user whom the screens show is the one whose
\* cookie the requests carry and whose token the store took.
SessionIsOne ==
    token # NoUser /\ ~late => cookie = token /\ user \in {token, NoUser}

\* Who has signed out stays signed out, also when the page is loaded again, until
\* somebody signs in; unless the answer that deletes the cookie was late or lost.
SignedOutStaysOut == signedOut /\ ~late => token = NoUser

=============================================================================
