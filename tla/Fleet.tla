------------------------------- MODULE Fleet --------------------------------
(***************************************************************************)
(* From the environment and ~/.shed/config.yaml to the hosts a client      *)
(* talks to: Env::from_process (tauri/src-tauri/src/env.rs), the endpoint  *)
(* of a server (core/shed-core/src/config.rs), the HTTP client and its TLS *)
(* pin (http.rs, tls.rs), and the choice of a host                         *)
(* (core/shed-app/src/backend.rs).                                         *)
(*                                                                         *)
(* A URL is its scheme and where it leads; a certificate stands for its    *)
(* own fingerprint.  What is found, or not, is a set of at most one.       *)
(***************************************************************************)
EXTENDS Naturals

CONSTANTS
  NoValue,    \* Option::None
  Empty       \* the empty string

NoConfig == [servers |-> << >>, default_server |-> NoValue]

(* ShedConfig::load: a missing file is an empty config. *)
load(files, path) == IF path \in DOMAIN files THEN files[path] ELSE NoConfig
-----------------------------------------------------------------------------
(* is_http_url_with_host, resolved_endpoint. *)
is_http_url_with_host(url) == url.scheme \in {"http", "https"} /\ url.to # Empty

resolved_endpoint(s) ==
  IF s.api_url # Empty /\ is_http_url_with_host(s.api_url)
  THEN [base_url |-> s.api_url, pin |-> s.pin]
  ELSE [base_url |-> [scheme |-> "http", to |-> s.host], pin |-> s.pin]

(* Mutant of NewClient: the pin is looked at when the handshake comes. *)
NewClient_Late(base_url, name, token, pin, minter) ==
  <<[base_url |-> base_url, name |-> name, token |-> token, pin |-> pin, minter |-> minter]>>

(* Client::new: refused, or a client: a pin needs https. *)
NewClient(base_url, name, token, pin, minter) ==
  IF pin # Empty /\ base_url.scheme # "https" THEN << >>
  ELSE <<[base_url |-> base_url, name |-> name, token |-> token, pin |-> pin,
          minter |-> minter]>>

(* bearer: a client with a minter sends a minted token or none. *)
bearer(client, minted) ==
  IF client.minter THEN minted ELSE IF client.token # Empty THEN client.token ELSE NoValue

(* build_http_client and the pin's verifier: plain HTTP needs nothing, a   *)
(* pinned client takes exactly its leaf, another one what the platform     *)
(* trusts.                                                                 *)
Connects(client, hop) ==
  \/ hop.url.scheme = "http"
  \/ hop.url.scheme = "https" /\ IF client.pin # Empty THEN hop.cert = client.pin ELSE hop.trusted

(* The hops of a request that are made: the first one to the base URL, and *)
(* redirects as long as they lead to https.                                *)
Hops(client, hops) ==
  LET made == {n \in DOMAIN hops :
                 \A i \in 1..n : /\ i > 1 => hops[i].url.scheme = "https"
                                 /\ i < n => Connects(client, hops[i])}
  IN  {hops[n] : n \in {m \in made : Connects(client, hops[m])}}
-----------------------------------------------------------------------------
(* Env::from_process: in test mode an unset path is no path. *)
from_process(env) ==
  [test_mode |-> env.test_mode, mock |-> env.mock,
   config_path |-> IF env.config # Empty THEN env.config
                   ELSE IF env.test_mode THEN Empty ELSE "home"]

(* from_config_with_minter: a server whose client is refused has none; the *)
(* others keep their order, and here their place.                          *)
ClientOf(s, mock, minter) ==
  IF mock # NoValue THEN NewClient(mock, s.name, Empty, Empty, FALSE)
  ELSE LET r == resolved_endpoint(s)
       IN  NewClient(r.base_url, s.name, s.control_token, r.pin, minter)

from_config_with_minter(config, mock, minter) ==
  [clients |-> [i \in {j \in DOMAIN config.servers :
                       ClientOf(config.servers[j], mock, minter) # << >>}
                  |-> ClientOf(config.servers[i], mock, minter)[1]],
   ssh_targets |-> [i \in DOMAIN config.servers |->
                      [name |-> config.servers[i].name, to |-> config.servers[i].host]],
   default_server |-> config.default_server]

NoBackend == [clients |-> << >>, ssh_targets |-> << >>, default_server |-> NoValue]

from_env_parts_with_minter(env, files, minter) ==
  IF env.test_mode /\ env.mock = NoValue THEN NoBackend
  ELSE from_config_with_minter(load(files, env.config_path), env.mock, minter)

(* resolve_entry: by name; without one the default server, else the first. *)
by_name(items, n) == {i \in DOMAIN items : items[i].name = n}

FirstOf(items, found) ==
  {items[i] : i \in {j \in found : \A k \in found : j <= k}}

resolve_entry(items, default_server, host) ==
  IF host # NoValue THEN FirstOf(items, by_name(items, host))
  ELSE IF default_server # NoValue /\ by_name(items, default_server) # {}
  THEN FirstOf(items, by_name(items, default_server))
  ELSE FirstOf(items, DOMAIN items)

client_for(backend, host) == resolve_entry(backend.clients, backend.default_server, host)
ssh_target_for(backend, host) ==
  resolve_entry(backend.ssh_targets, backend.default_server, host)
=============================================================================
