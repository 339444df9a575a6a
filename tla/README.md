# staw-backend, in TLA+

The repository is a multi-tenant OAuth 2.0 authorization server: Express
handlers over PostgreSQL (Prisma) and Redis (ioredis). This directory models its
core, the authorization code flow with PKCE, and beside it the worker that mails
invites and the strings the server generates and accepts. It checks them with TLC on
small instances and proves with TLAPS, for instances of any size, what the flow, its
store, the mail queue and the character classes promise.

Paths below are relative to the repository root; line numbers are those of the
commit the models were written from.

## 1. The system

| Component | State it keeps | Operations | Correct when |
|---|---|---|---|
| PKCE values (`src/pkg/oauth2/crypto/token.ts`, `model.ts:96-125`) | none | authorization code, scopes granted | a code depends on challenge, method and secret only; a client gets requested scopes the server knows, or the defaults |
| PKCE state store (`src/pkg/cache`) | states in Redis under their verifier, with an expiry; commands in flight | `set`, `get` | a state that `get` has returned is never found again; what is found was stored under the key asked for |
| Authorization endpoint (`authorization-handler.ts`, `response-types/code.ts`) | one request | `GET /oauth2/:serverAlias/v1/authorize` | a redirect with a code goes out only for a registered redirect URI and scopes the server knows |
| Token endpoint (`token-handler.ts`, `grant-types/*`) | one request, the client row it has read | `POST /oauth2/:serverAlias/v1/token` | a token is for the client, redirect URI, code and scope of one authorization |
| Routes and error middleware (`oauth2/index.ts`, `middleware.ts`, `*-error.ts`) | none | dispatch, answer errors | every request is answered once |
| Database (`prisma/schema.prisma`, `model.ts:43-73`) | sites, servers, scopes, clients | three reads | a client is found only under its own site |
| Validators (`src/internal/validation`) | none | `is.*` | a parameter has the characters the comments list |
| Start-up (`src/index.ts`, `src/pkg/http/http.ts`, `context.ts`) | the process | mount the OAuth2 routes and `/health` | |
| Mail worker (`worker/mail`) | a queue in memory | dispatch, handler, its callback | each mail is tried once, in its turn; one that fails holds up none behind it |
| Random strings (`src/internal/crypto`, `crypto/token.ts:7-47`) | none | bytes to characters, digests to base64url | every index is in range, every character reachable; what was generated is accepted when it comes back |
| Sign-up and invitations, session and sign-in, dashboard, API stub, configuration, logger, seeds, tools | invites in the database, sessions in memory | routes that nothing mounts | see section 5 |

Interaction. `src/index.ts` starts one process with one Redis connection.
A browser is sent to `/authorize`; the handler reads site, server and client,
stores a PKCE state in Redis under the `state` parameter and redirects with a
code. The client posts the code to `/token` and sends as `code_verifier` what was
`state` before; the handler finds and deletes the stored state, computes the code
again, and compares. The two requests share nothing but Redis and the row of the
client.

The mail worker is a queue in the memory of the process: whoever calls `dispatch`
puts a mail into it, and a handler gives one mail at a time to SendGrid. Its only
caller is sign-up, which cannot run in this commit (section 5).

What is hard:

* `get` is two commands, GET and DEL, with an await between. Several lookups
  and authorizations are in one pipeline at once.
* `savePKCEState` (`model.ts:92-94`) drops the promise of `set`: the redirect is
  sent before Redis has the state, and a failure of SETEX reaches nobody.
* the key is the client's `state` parameter: authorizations can share it.
* the connection can break (ioredis writes unanswered commands again) or be given
  up (commands are rejected); the process can die. Redis remembers.
* a state expires after 60 seconds, at any point of a lookup.
* the row of the client is read before the lookup and used after it.
* a stored state does not say which server of the site authorized it, and the token
  request may go to another.
* the mail queue has one handler: what it does with a mail that fails decides over all
  mails behind it.
* an index is computed in floating point, and the classes of `is.*` are regular
  expressions with characters in them that were meant as punctuation.

PROJECT.json lists these hazards by line with the properties that cover them.

## 2. Modules

| Module | What it is |
|---|---|
| `PKCE` | the values of the flow: state object, code, scopes |
| `GrantLedger` | abstract specification of the store: a grant is opened, claimed while open, closed; a lookup returns it only when it is closed |
| `PKCEStateStore` | the store, command by command; implements `GrantLedger` |
| `AuthorizationServer` | both endpoints over `PKCEStateStore`; implements `GrantLedger` too |
| `CodeFlow` | abstract specification of the flow: authorize, ask, redeem or deny, with no parameters checked, no store and no pipeline; extends `GrantLedger`, implemented by `AuthorizationServer` |
| `MailWorker` | the queue of mails and its one handler |
| `Characters` | generated strings, character by character, and the classes of `is.*` |
| `MCGrantLedger`, `MCPKCEStateStore`, `MCExchange`, `MCRequests`, `MCMailWorker`, `MCCharacters` | instances for TLC |
| `GrantLedgerProofs`, `PKCEStateStoreProofs`, `AuthorizationServerProofs`, `LookupProofs`, `CodeFlowProofs`, `MailWorkerProofs`, `CharactersProofs` | theorems |

`AuthorizationServer` EXTENDS `PKCEStateStore` and conjoins its actions with the
state of the requests: `Setters` are the authorization requests, `Getters` the
token requests. Definitions whose name ends in `_Something` beside a definition of
the first part of the name are deliberately broken variants of it; nothing uses
them, they serve to show that a property can tell the difference.

### PKCEStateStore

| Model | Code |
|---|---|
| `redis`, `ttl` | the keys of the Redis database and their remaining time |
| `queue` | commands written by ioredis and not answered yet, in order |
| `replies` | answers to the first `Len(replies)` of them, on their way back |
| `saved[s]`, `wanted[g]` | the arguments of calls of `set` and `get` |
| `phase[g]` | the await at which a call of `get` is: "get" (line 26), "del" (line 28), or over |
| `found[g]` | `data` of line 26, as the call of `set` that wrote it |
| `Set`, `Get` | `set` and `get` up to their first await |
| `ReplySetex`, `ReplyGet`, `ReplyDel` | what runs when that await ends |
| `ExecSetex`, `ExecGet`, `ExecDel`, `Tick` | Redis (external) |
| `ConnectionLost`, `Flush` | ioredis (external): resend, give up |

Redis and ioredis are not in the repository. The model keeps of them: commands
of one connection are executed and answered in the order they were written;
after a broken connection every unanswered command is written again in that
order, those included that were executed; when ioredis gives up, or the process
exits, unanswered commands are dropped. Abstracted: a command that was on the
wire when the connection broke was executed before the resend or not at all;
Redis error replies; eviction. JSON there and back is the identity on an object
of strings, so a stored value is represented by the call that stored it.

### AuthorizationServer

A request runs from one await on I/O to the next: arrival (`AuthorizeArrive`,
`TokenArrive`: body parser, constructor of `OAuthRequest` and the checks that read
nothing), the database reads with what follows them (`AuthorizeRead`,
`TokenRead`), and the two awaits in `get` (`TokenHearGet`, `TokenHearDel`). The three
reads are one step: sites and servers do not change, and the row of the client
is the last of them. What a token request keeps of that row until after the
lookup is `seen`.

Checks are sequences of records in the order of the code (`AuthorizeChecks`,
`CodeGrantChecks`, ...): the first that fails decides the answer. A parameter is
`Nil`, `Malformed` (its validator fails), or a member of a small set.
`ReadFails` is the 500 of the middleware; `CacheGivesUp` rejects the commands in
flight, which answers lookups with 500 and, if a SETEX is among them, ends the
process, because nobody handles that rejection and Node 16 exits; `Crash` is any
other death. `EditClient` changes a client's row from outside: no code of the server
does.

Scopes are sets of names. `joinThenSplit` is what becomes of them between the two
requests: the join by spaces at `code.ts:83` and the split at
`authorization-code.ts:108` give back the words of each name (`Words`), which differ
from the name when a scope in the database has a space in it, and for no scope at all
the one scope "". What a client asks for has been split before and is single words
(`ServerConstants`).

Abstractions: the code, an HMAC, is the triple it is computed from; a client sends
only codes it was redirected with (`Delivered`); parameters are single strings, not
arrays or objects; descriptions, headers, lifetimes and the random tokens
themselves are left out (nothing stores or reads them).

`Flow` in `AuthorizationServer` is `CodeFlow` under a mapping: a grant is an
authorization, its terms what was saved, `told` what its redirect says, `asked` the
form of a token request, `token` the scope and whether there is a refresh token of the
answer. `CodeFlow` has no clients, secrets or failures of machines; a state that is
overwritten, expired or lost is a grant that lapses.

### MailWorker

| Model | Code |
|---|---|
| `tasks`, `sending`, `answer` | the `async.queue` of `mail.ts:27-30`, the task its handler is at, how `Mail.send` has settled |
| `attempts[m]` | how often SendGrid was asked for a mail |
| `dispatchedIn[m]`, `crashes` | the process a mail was given to, by the number of deaths before it |
| `Dispatch` | `send_invite`: `queue.push` |
| `Process` | the queue, idle, starts its handler with the next task; the handler up to its await |
| `Callback` | `.then(callback)` and `.catch(callback)`: the queue goes on with the next task, or rests |
| `Settle` | SendGrid answers, or the request fails (external) |
| `Crash` | the process dies and the queue with it (external) |

A mail stands for a call of `dispatch` with its parameters; a mail is dispatched at
most once. Left out: the text of the mail.

### Characters

A string is built one character at a time, and of it the state keeps its length and
the classes all its characters are of: `within` by the regular expressions, `listed`
by the grammars in the comments above them. `RandomCharacter` takes any octet
through `Index` to a character of the alphabet, `HashedCharacter` any character of
base64 through `base64URLEncode`, `TypedCharacter` is a client's. `Index` is
`floor(octet / (256 / n))` as IEEE doubles give it: for alphabets of 1 to 256
characters it differs from the exact quotient only where `RoundedDown` says, which
neither alphabet of the code meets. `is.uri` is the URL check of a library and stays
abstract, in `AuthorizationServer`, as "well formed or not".

## 3. What is checked

| Run | Module, instance | Properties | States, time |
|---|---|---|---|
| `ledger` | `MCGrantLedger`: 3 grants, 4 lookups | `NoClaimAfterReturn` | 3,556, 3 s |
| `store` | `MCPKCEStateStore`: 2 sets, 3 gets, 2 keys, 2 ticks, 2 failures | `StoreTypeOK`, `FoundUnderWanted`, `NoCallWaitsInVain`, `LedgerKept`, `AnswersComeCloser` | 392,608, 85 s |
| `exchange` | `MCExchange`: 2 authorizations that share a key, at 2 servers, 3 token requests, 2 ticks, 2 failures | `WaitsOnlyForItsLookup`, `TokenBackedByGrant`, `ScopesAsAuthorized`, `NoLookupAfterToken`, `NullOnlyWhenClosed`, `FlowKept` | 418,600, 170 s |
| `exchange_live` | one server, 2 token requests, 1 failure, no symmetry | `EveryRequestEnds` | 75,968, 90 s |
| `requests` | `MCRequests`: 2 authorizations and 1 token request of any shape, 3 servers, 2 clients, 1 change of a client | `ServerTypeOK`, `TokenBackedByGrant`, `ScopesAsAuthorized` | 2,874,805, 190 s |
| `mails` | `MCMailWorker`: 4 mails, 2 crashes | `MailTypeOK`, `MailedOnce`, `MailsMoveUp`, `EveryMailTried` | 10,304, 2 s |
| `characters` | `MCCharacters`: all octets and alphabets, strings of a client up to 3 characters from both sides of every range's ends | `CharactersTypeOK`, `IssuedIsAccepted`, `EvenlySpread`, `ClassesAsListed` | 581, 6 s |
| `one_token` | `MCExchange`, no failures | `OneTokenPerGrant`: violated | |
| `gone_early` | `MCExchange`, no failures | `GoneOnlyWhenDue`: violated | |
| `public_secret` | `MCRequests`, no changes | `PublicNeedsNoSecret`: violated | |
| `response_types` | `MCRequests`, no changes | `ResponseTypesEnforced`: violated | |
| `unreserved` | `MCCharacters`, strings of a client | `UnreservedAsListed`: violated | |

What the passing runs show:

* `LedgerKept`: whatever the interleaving, expiry, overwriting and loss of
  answers, a state that `get` has returned is out of reach of every later `get`.
  `AuthorizationServer` keeps this, since it touches the store through its actions
  only.
* `FoundUnderWanted`: a lookup finds what was stored under its verifier.
* `NoCallWaitsInVain`, `AnswersComeCloser`: the safety behind "no lookup hangs". Wherever
  a lookup is between its awaits, the command whose answer resumes it is in the
  pipeline, also after answers were lost and commands dropped; that command never
  moves back, each answer heard brings it closer, and each execution until its own does.
  Only a broken connection has anything executed twice.
* `TokenBackedByGrant`: a token of the code grant is for the client, redirect URI,
  verifier, code and scope of one authorization whose redirect went out, even
  though states are overwritten, rows are edited and processes die between.
* `NoLookupAfterToken`: once a token is out, no lookup finds its state again.
* `NullOnlyWhenClosed`: although the redirect does not wait for SETEX, a client
  whose code came from one authorization only is never refused because the state is
  not there *yet*.
* `FlowKept`: the two endpoints together do nothing that `CodeFlow` does not: a token
  is issued for a grant found open, closed by then, and worth what was granted.
  It contains `LedgerKept`.
* `ScopesAsAuthorized`: a token has the scopes its authorization asked for, all of them
  known to the server that authorized, or the words of that server's defaults, or ""
  if it has none; which server the token is asked of, and what the form says, does not
  matter. `exchange` has it under races and at two servers, `requests` with all three
  cases.
* `WaitsOnlyForItsLookup` and `EveryRequestEnds`: no request hangs.
* `MailedOnce`: a mail is tried at most once, and one that the living process was given
  is in the queue or was tried; none slips out.
* `EveryMailTried`: a mail that fails does not stop those behind it. `MailsMoveUp` is the
  safety behind it: a mail keeps its place or moves up, and the one the handler is at is
  not taken up again once SendGrid has settled it.
* `IssuedIsAccepted`: what the server generates passes the validators it meets, can be
  part of a Basic header, and goes unescaped into a URL. `EvenlySpread`: every
  character of an alphabet occurs, none for two octets more than another.
  `ClassesAsListed`: the expressions accept what their comments list, and refuse the
  rest, but for `unreserved43_128`.

What the violated ones show: two token requests that overlap both get a token for
one code (`pkce-state-store.ts:26-28`); the DEL of one lookup can remove the state of
a newer authorization under the same key; public clients cannot use the token
endpoint without a secret (`grant-type.ts:22`); `response_types` is never read; a
code challenge of one character, or with a "|" in it, passes `unreserved43_128`, whose
comment asks for 43 to 128 unreserved characters.

Seen in the models without a run of their own: a server with no default scope
authorizes a request that names none and its token has the one scope ""
(`code.ts:83`; `ScopesAsAuthorized` says so); a default scope with a space in it
becomes two scopes, and "refresh_token" among its words gives a refresh token.

Bounds. `Setters` and `Getters` bound the requests of a behaviour, `Lifetime` the
ticks a state lives (the code has 60 seconds; two ticks let a state expire
before, between and after the commands of a lookup), `MaxFaults` the failures of
connection or process, `MaxEdits` the changes of clients. Two authorizations are
what overwriting needs, two lookups what the race needs, a third lookup is one that
starts when those two are through; two failures are a failure during the recovery
from one. `MCRequests` replaces one parameter at a time of a sound query and a sound
form (the queries of the other two servers name another state as well). Calls run out, so the runs end in states without a successor and deadlock is
not checked; that requests do not get stuck is `EveryRequestEnds`. Symmetry
permutes requests (and keys and challenges where all are alike) in runs of safety
properties only.

In `mails` one mail is with the handler, others wait behind it, and one is dispatched
while they do; two crashes let a process with mails in its queue follow one that lost
its own. `MCCharacters` takes code points at and next to every
end of a range, between which membership does not change; the length of a client's
string matters to no class, beyond being empty or not.

Fairness (`FairSpec` of `AuthorizationServer`): weak fairness of the handlers (Node
runs what is ready), of answers heard, and of execution by Redis. Nothing forces a client to send a
request, time to pass, or anything to fail. Each is continuously enabled until
it happens or the process dies, so weak fairness is what an event loop gives.
`MailFairSpec` is the same for the queue with its handler (`Work`) and for SendGrid
(`Settle`), whose library calls end with an answer or an error; nobody has to dispatch
a mail.

## 4. What is proved

For all values of the constants that satisfy the named ASSUMEs (`PKCEAssumption`,
`StoreAssumption`, `GrantLedgerAssumption`, `ServerAssumption`, `MailAssumption`,
`CharactersAssumption`):

* `ReturnedNeverClaimed`: `LedgerSpec => NoClaimAfterReturn`. The invariant is
  `LedgerTypeOK /\ ReturnedIsClosed`: only a closed grant is returned, closed is for
  good, and a claim needs an open grant.
* `StoreTypeCorrect`: `StoreSpec => []StoreTypeOK`.
* `StoreFindsWhatWasAsked`: `StoreSpec => []FoundUnderWanted`. This is not inductive:
  `found` comes from an answer, the answer from Redis, and the DEL that matters is
  somewhere in the pipeline. `StoreInv` adds that no command is twice in the queue
  (`NoCommandTwice`), that each belongs to a call at that await (`CommandsOfCalls`), what
  is stored and carried (`StoredUnderVerifier`, `CarriedToWanted`), and where the DEL
  of a lookup stands (`DelBehindSetex`, `DelIsFinal`).
* `LookupsAreInLine`: `StoreSpec => []NoCallWaitsInVain`, relative to `StoreInv`:
  an answer that is heard takes one command off the pipeline, that of
  the call it resumes, and a call that goes on to its DEL writes one.
* `LookupsComeCloser`: `StoreSpec => AnswersComeCloser`. By `NoCommandTwice` the command a
  lookup awaits has one place before and one after a step, so each kind of step moves
  it as it moves the pipeline: writing not at all, hearing by one.
* `StoreImplementsLedger`: `StoreSpec => LedgerKept`. The mapping calls a grant open
  while its SETEX is unanswered, or its state is stored, or an answer carries it. A
  lookup returns when its DEL is answered; then that DEL is at the head, so the SETEX
  of the state is no longer queued (`DelBehindSetex`) and the state is neither
  stored nor carried (`DelIsFinal`). A broken connection discards all answers, which
  makes `DelIsFinal` hold of nothing until the DEL is executed again: that is why it
  speaks of executed DELs only.
* `ServerTypeCorrect`, `WaitsForLookups`, `TokensAreBacked`: `Spec => []ServerTypeOK`,
  `[]WaitsOnlyForItsLookup`, `[]TokenBackedByGrant`. The inductive invariant is
  `ServerInv`: to `StoreInv` and these three it adds what each request says of itself
  (`AuthorizationInv`: a state is saved only by a request whose checks passed and
  whose redirect, with the code for that state's challenge, is out; `TokenInv`: the
  verifier looked up is the one in the form, the client row was read, a token goes
  out only when the lookup is through or was never made) and
  `Ledger!ReturnedIsClosed`. A step of one request leaves the others alone
  (`OthersKept`), so each handler has one lemma about its own request; the failures,
  which touch many, have theirs (`FlushInv`).
* `ServerImplementsLedger`: `Spec => LedgerKept`. Every step of the server is a step
  of the store or leaves it alone (`ServerSteps`), which needs that what /authorize
  saves passed its checks; the rest is `StepsOfTheLedger`.
* `RequestsAreInLine`, `RequestsComeCloser`: the same of the composed server: a request
  that waits on Redis has its command in the pipeline (by `NoCallWaitsInVain` and
  `WaitsOnlyForItsLookup`), and `Spec => AnswersComeCloser`. Here a lookup that is rejected
  ends together with its command (`CacheGivesUp`), and a failure may end the process.
* `NoLookupFindsASpentGrant`: `Spec => NoLookupAfterToken`, because a token whose
  lookup found a grant means that grant is closed, and a claim needs an open one.
* `NothingTooEarly`: `Spec => NullOnlyWhenClosed`. `LookupInv` adds to `ServerInv` that a
  code in a token request is one some redirect has told (`CodesDelivered`), and of a
  GET whose only matching redirect is that of an authorization (`GetsBehind`): its
  SETEX, if unanswered, is ahead of the GET (`Ahead`), and once the GET has found
  nothing the state is neither stored nor carried by a later answer (`GoneByThen`).
  A new GET is behind because the redirect that told its code was out, so its SETEX
  was written before (`GetIsBehind`); what is written again after a break keeps its
  order (`StoreKeepsAhead`).
* `ServerKeepsFlow`: `Spec => FlowKept`, the refinement of the whole flow. Each step of the
  server is mapped: those that say nothing (a request refused, an answer carried, a
  client edited) leave `terms`, `told`, `asked` and `token` as they were and are a step of
  the ledger or none (`SameLedger`, the `...Quiet` lemmas); `AuthorizeRead` is `Authorize`,
  `TokenRead` is `Ask`, `TokenHearGet` with nothing is `Deny`, `TokenHearDel` is `Redeem` or `Deny`
  by the checks that follow it. That a token corresponds to the terms needs
  `ServerInv`, which ties the saved state to the query it came from.
* `ScopesAuthorized`: `Spec => []ScopesAsAuthorized`, from `TokenBackedByGrant` and what
  `AuthorizationInv` says of the scope that was saved.
* `MailTypeCorrect`, `MailsTriedOnce`: `MailSpec => []MailTypeOK`, `[]MailedOnce`. The
  two together, `MailInv`, are inductive: `MailedOnce` says of each mail that it is
  untried and once in the queue, or tried and no longer there, so the one the handler
  takes next was not tried before.
* `QueueMovesUp`: `MailSpec => MailsMoveUp`. It needs that no mail is twice in the
  queue (`MailedOnce`), so that a mail has one place before and one after each step.
* `CharactersTypes`, `ServerAcceptsItsOwn`, `ExpressionsMatchComments`: over all code points
  and any length. `CharactersInv` keeps, of a string under construction, that it is
  within each class its value is used in. `IndexInRange` and `EveryIndexOccurs` are the
  arithmetic of `randomString` for every alphabet of 1 to 256 characters.
* `CharactersEvenlySpread`: `CharactersSpec => []EvenlySpread`. The octets of a character
  are an interval (those whose quotient has its index as floor), an interval has as many
  elements as its ends are apart, and for alphabets of 36 and 66 characters those
  numbers are 7 or 8 and 3 or 4.

Only model-checked: the liveness properties (`EveryRequestEnds`, `EveryMailTried`),
since the prover has no fairness and no ENABLED. What is proved is their safety: a
request that waits has its command in line, that command only comes closer, and mails
move up. The negative results are counterexamples of TLC.

## 5. Not modelled

* Sign-up and invitations (`http/auth/sign-up`, `http/auth/invite`). No request gets past
  their first lines: `PostSignUpSchema` and `InviteParamsSchema` are commented out
  (`validation.ts:153-160`), so `validate` has no schema to ask and every request is a
  400; imports of `sign-up.ts` do not resolve; nothing sets `req.site` or the
  `req.endpoint` that the redirects of `invite.ts` need; the schema requires two names of
  an invite (`schema.prisma:105-107`) that sign-up does not give; and
  `http/auth/index.ts:9-10` has both routers commented out. A model would be of a
  program that is not in this commit.
* Session and sign-in (`src/pkg/session`, `http/auth/sign-in`): `http.ts` does not mount
  `Auth`, which holds the sign-in route, and nothing calls `Session.init`, without which
  passport has no strategy; `req.subdomain`, which the strategy reads, is never set.
  What remains of this repository's own are two reads of a user; the session and its
  states are express-session's and passport's.
* Dashboard, API stub, views: rendering without state, not mounted either.
* Configuration and logger: constants from the environment at start-up, and output.
* Seeds and tools: scripts run by hand, one at a time, against an empty database.
* nginx, docker, migrations: no code of the program.
* Of what is modelled: token strings (generated, and neither stored nor read), the
  text of errors and mails, HMAC and SHA-256 (taken to be injective), `is.uri`.
