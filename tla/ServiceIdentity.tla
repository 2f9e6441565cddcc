-------------------------- MODULE ServiceIdentity --------------------------
(***************************************************************************)
(* Who a service believes is calling (pkg/servicetoken and the middlewares *)
(* of the four services), while the operator moves the fleet from the      *)
(* shared secret (HS256) to a key pair (Ed25519) with no service stopping: *)
(* "distribui as chaves aos verificadores primeiro, o emissor troca depois"*)
(* (servicetoken.go:249).  A process reads its keys once, when it starts;  *)
(* a call may be signed by one process and read by the next.               *)
(*                                                                         *)
(* Left out: a token's two minutes of life (a call is answered within      *)
(* them), and DEV_MODE, which devguard refuses wherever the database, the  *)
(* origins or APP_ENV look like production.  One call is followed at a     *)
(* time: calls do not change what a service believes.                      *)
(***************************************************************************)
EXTENDS Naturals, FiniteSets

Verifiers == {"catalog", "auth", "payment"}
Order == "order"
Services == Verifiers \union {Order}
UserRoles == {"admin", "store_operator", "customer"}

\* The keys a token can be signed with; "user" is the JWT_SECRET.
Key == {"hmac", "ed25519", "user"}

VARIABLES
    env,      \* service -> the service keys its environment declares
    loaded,   \* service -> the keys its process loaded; Down when it refused to start
    request,     \* the call followed: a door and the token it carries, or NoCall
    answer    \* what the last call was answered: a call and whether it entered
identityVars == <<env, loaded, request, answer>>

Down == {"down"}
NoCall == [door |-> "none"]

-----------------------------------------------------------------------------
(* What the environment becomes at start. *)

\* servicetoken.SecretFromEnv: outside DEV_MODE a missing secret is an error.
SecretFromEnv(keys) == "hmac" \in keys

\* Mutant: once the public key is there the old secret is not read any more.
VerifierFromEnvOneKey(keys) == IF "ed25519" \in keys THEN {"ed25519"} ELSE keys

\* servicetoken.VerifierFromEnv: the public key and the secret, whichever there is.
VerifierFromEnv(keys) == keys

\* servicetoken.SignerFromEnv: the private key when there is one, else the secret.
SignerFromEnv(keys) == IF "ed25519" \in keys THEN {"ed25519"} ELSE keys

\* The three strict services call SecretFromEnv first, key pair or not.
LoadStrict(keys) == IF SecretFromEnv(keys) THEN VerifierFromEnv(keys) ELSE Down
LoadOrder(keys) == IF SecretFromEnv(keys) THEN SignerFromEnv(keys) ELSE Down
\* The payment service starts whatever it was given.
LoadPayment(keys) == VerifierFromEnv(keys)

Load(s) ==
    IF s = "payment" THEN LoadPayment(env[s])
    ELSE IF s = Order THEN LoadOrder(env[s]) ELSE LoadStrict(env[s])

-----------------------------------------------------------------------------
(* The doors: a middleware of a service and the user roles it names. *)

\* servicetoken.Verifier.Parse: the algorithm picks the key, which must be there.
Parse(s, t) == t.key \in loaded[s] /\ t.key # "user" /\ t.role = "service"

\* parseJWTClaims, then the refusal of a user's token that says it is a service.
ParseJWTClaims(t) == t.key = "user" /\ t.role # "service"

RequireAnyUser(t) == ParseJWTClaims(t)
RequireRole(roles, t) == ParseJWTClaims(t) /\ t.role \in roles
RequireService(s, t) == Parse(s, t)
RequireServiceOrRoles(s, roles, t) == Parse(s, t) \/ RequireRole(roles, t)
\* auth-service: InternalAuth, then RequireRole("admin") for whoever is a person.
InternalAuth(s, roles, t) == Parse(s, t) \/ (ParseJWTClaims(t) /\ t.role \in roles)
\* order-service's own two, which refuse every service.
OrderRequireUser(t) == ParseJWTClaims(t)
OrderRequireRole(roles, t) == ParseJWTClaims(t) /\ t.role \in roles

Doors ==
    [at : {"catalog", "auth"}, guard : {"internal"}, roles : {{"admin"}}]
    \union [at : {"catalog"}, guard : {"internal"}, roles : {{"admin", "store_operator"}}]
    \union [at : {"payment"}, guard : {"service"}, roles : {{}}]
    \union [at : {"catalog", Order}, guard : {"role"}, roles : {{"admin"}}]
    \union [at : {"catalog", Order}, guard : {"any"}, roles : {UserRoles}]

Enters(d, t) ==
    \/ d.guard = "service" /\ RequireService(d.at, t)
    \/ d.guard = "internal" /\ \/ d.at = "catalog" /\ RequireServiceOrRoles(d.at, d.roles, t)
                               \/ d.at = "auth" /\ InternalAuth(d.at, d.roles, t)
    \/ d.guard = "role" /\ \/ d.at = "catalog" /\ RequireRole(d.roles, t)
                           \/ d.at = Order /\ OrderRequireRole(d.roles, t)
    \/ d.guard = "any" /\ \/ d.at = "catalog" /\ RequireAnyUser(t)
                          \/ d.at = Order /\ OrderRequireUser(t)

-----------------------------------------------------------------------------
IdentityInit ==
    /\ env = [s \in Services |-> {"hmac"}]
    /\ loaded = [s \in Services |-> {"hmac"}]
    /\ request = NoCall
    /\ answer = NoCall

\* The order-service calls another service: Signer.Issue signs with what it has.
Issue(d) ==
    /\ request = NoCall /\ loaded[Order] # Down /\ d.guard \in {"internal", "service"}
    /\ \E k \in loaded[Order] :
          request' = [door |-> d, token |-> [key |-> k, role |-> "service"]]
    /\ answer' = NoCall
    /\ UNCHANGED <<env, loaded>>

\* A person's token, as the auth-service signed it.
UserCalls(d, r) ==
    /\ request = NoCall
    /\ request' = [door |-> d, token |-> [key |-> "user", role |-> r]]
    /\ answer' = NoCall
    /\ UNCHANGED <<env, loaded>>

\* The middleware of the process that is there when the call arrives.
Judge ==
    /\ request # NoCall /\ loaded[request.door.at] # Down
    /\ answer' = [door |-> request.door, token |-> request.token,
                  entered |-> Enters(request.door, request.token)]
    /\ request' = NoCall
    /\ UNCHANGED <<env, loaded>>

\* Nobody listens at the service's port: the call ends with no answer.
NobodyAnswers ==
    /\ request # NoCall /\ loaded[request.door.at] = Down
    /\ request' = NoCall
    /\ UNCHANGED <<env, loaded, answer>>

\* A service is started again, at any moment: a deployment, a crash.
Restart(s) ==
    /\ loaded[s] # Load(s)
    /\ loaded' = [loaded EXCEPT ![s] = Load(s)]
    /\ UNCHANGED <<env, request, answer>>

\* The order of the migration: the public key to the verifiers, in any order;
GivePublicKey(v) ==
    /\ env' = [env EXCEPT ![v] = @ \union {"ed25519"}]
    /\ env' # env
    /\ UNCHANGED <<loaded, request, answer>>

\* ... the private key to the issuer once they all run with it;
GivePrivateKey ==
    /\ \A v \in Verifiers : "ed25519" \in loaded[v]
    /\ env' = [env EXCEPT ![Order] = @ \union {"ed25519"}]
    /\ env' # env
    /\ UNCHANGED <<loaded, request, answer>>

\* ... and the secret away, once nothing signed with it is under way.
DropSecret(s) ==
    /\ loaded[Order] = {"ed25519"}
    /\ request # NoCall => request.token.key # "hmac"
    /\ env' = [env EXCEPT ![s] = @ \ {"hmac"}]
    /\ env' # env
    /\ UNCHANGED <<loaded, request, answer>>

IdentityNext ==
    \/ \E d \in Doors : Issue(d) \/ \E r \in UserRoles \union {"service"} : UserCalls(d, r)
    \/ Judge \/ NobodyAnswers
    \/ \E s \in Services : Restart(s) \/ DropSecret(s)
    \/ \E v \in Verifiers : GivePublicKey(v)
    \/ GivePrivateKey

IdentitySpec == IdentityInit /\ [][IdentityNext]_identityVars
-----------------------------------------------------------------------------
Token == [key : Key, role : UserRoles \union {"service"}]
IdentityTypeOK ==
    /\ env \in [Services -> SUBSET {"hmac", "ed25519"}]
    /\ loaded \in [Services -> (SUBSET {"hmac", "ed25519"}) \union {Down}]
    /\ request = NoCall \/ request \in [door : Doors, token : Token]
    /\ answer = NoCall \/ answer \in [door : Doors, token : Token, entered : BOOLEAN]

\* Who may enter a door, whatever key the fleet is at: the order-service the
\* doors between services, a person the doors that name one of its roles.
Entitled(d, t) ==
    \/ t.key # "user" /\ d.guard \in {"internal", "service"}
    \/ t.key = "user" /\ t.role \in d.roles

\* All through the migration, whichever process has been restarted and whenever
\* a call was signed, a service that answers lets in exactly the callers that
\* are entitled: no call between services is refused on the way ("dá pra migrar
\* sem downtime") and no user's token passes for a service.
NoCallIsMisjudged ==
    answer # NoCall => (answer.entered <=> Entitled(answer.door, answer.token))
=============================================================================
