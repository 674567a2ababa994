------------------------------- MODULE Cuentas ------------------------------
(***************************************************************************)
(* Accounts and sessions: AuthService (password and Google login, logout), *)
(* BloqueoService (failed attempts, lockout, unlock), RecoveryService,     *)
(* SessionService and UsersService.cambiarEstado().                        *)
(*                                                                         *)
(* The Usuario row and EventoAuditoria live in PostgreSQL; the counters,   *)
(* the sessions, their per-user index and the recovery tokens in Redis.    *)
(* A handler is a sequence of steps, each one transaction or one Redis     *)
(* command (or MULTI), and it may fail between any two of them: the        *)
(* exception, or the crash of the process, leaves what was already done.   *)
(* A handler names the session or the token it creates.                    *)
(***************************************************************************)
EXTENDS Integers, FiniteSets

CONSTANTS
  Peticiones,   \* requests; also ids of the sessions and of the tokens they create
  Usuarios,
  Claves,       \* passwords
  Subs,         \* Google subject identifiers
  Cuerpos,      \* request bodies, see Cuerpo
  Inicial,      \* the Usuario rows the system starts with
  IntentosMax,  \* LOGIN_INTENTOS_MAX
  Nulo

\* One request: who it is about, the password in the body, and its other datum.
Cuerpo == [tipo: {"login", "google", "desbloquear", "estado", "recuperar", "confirmar", "logout"},
           usuario: Usuarios, clave: Claves \cup {Nulo},
           dato: Subs \cup Peticiones \cup {"activo", "inactivo", Nulo}]

Fila == [estado: {"activo", "inactivo", "bloqueado"}, hasta: {"nulo", "futuro", "pasado"},
         clave: Claves \cup {Nulo}, google: Subs \cup {Nulo}]

\* What the controllers let through of each operation.
BienFormado(c) ==
  /\ c.tipo = "google" => c.dato \in Subs \cup {Nulo}
  /\ c.tipo = "estado" => c.dato \in {"activo", "inactivo"}
  /\ c.tipo \in {"confirmar", "logout"} => c.dato \in Peticiones

ASSUME ConstantesCuentas ==
  /\ Cuerpos \subseteq {c \in Cuerpo : BienFormado(c)}
  /\ Inicial \in [Usuarios -> Fila]
  /\ \A u \in Usuarios : Inicial[u].estado # "bloqueado"
  /\ \A u, v \in Usuarios : u # v /\ Inicial[u].google = Inicial[v].google => Inicial[u].google = Nulo
  /\ IntentosMax \in Nat \ {0}
  /\ Nulo \notin Claves \cup Subs \cup Peticiones

VARIABLES
  cuenta,     \* Usuario rows
  auditoria,  \* the EventoAuditoria rows the properties are about
  intentos,   \* login:intentos:{user}
  sesiones,   \* session:{id}
  indice,     \* session:user:{user}
  tokens,     \* recovery:{token}
  espera,     \* recovery:cooldown:{user}
  pc, op,     \* where each handler is, and its request
  marca       \* what SMEMBERS, or the GET of one session, returned to each revocation

redis == <<intentos, sesiones, indice, tokens, espera>>
vars  == <<cuenta, auditoria, redis, pc, op, marca>>

\* The login that opened a session, and the request a token was issued for, name the account.
Evento == [tipo: {"CUENTA_BLOQUEADA", "CUENTA_DESBLOQUEADA", "LOGIN", "USUARIO_DESACTIVADO",
                  "USUARIO_REACTIVADO", "RECUPERACION_COMPLETADA", "RECUPERACION_SIN_ACUSE"},
           usuario: Usuarios, por: Peticiones]

Pasos == {"libre", "recibida", "fallo", "umbral", "aceptado", "reinicio", "sesion", "cambio",
          "otro", "token", "clave", "compensar", "cerrar", "una", "quitar", "revocar", "borrar", "olvidar", "fin"}

TypeOK ==
  /\ cuenta \in [Usuarios -> Fila]
  /\ auditoria \subseteq Evento
  /\ intentos \in [Usuarios -> Nat]
  /\ sesiones \subseteq Peticiones
  /\ indice \in [Usuarios -> SUBSET Peticiones]
  /\ tokens \subseteq Peticiones
  /\ espera \subseteq Usuarios
  /\ pc \in [Peticiones -> Pasos]
  /\ op \in [Peticiones -> Cuerpo \cup {Nulo}]
  /\ marca \in [Peticiones -> SUBSET Peticiones]

Init ==
  /\ cuenta = Inicial
  /\ auditoria = {}
  /\ intentos = [u \in Usuarios |-> 0]
  /\ sesiones = {} /\ tokens = {} /\ espera = {}
  /\ indice = [u \in Usuarios |-> {}]
  /\ pc = [h \in Peticiones |-> "libre"]
  /\ op = [h \in Peticiones |-> Nulo]
  /\ marca = [h \in Peticiones |-> {}]
-----------------------------------------------------------------------------
(* Helpers *)

Dueno(s)   == op[s].usuario
\* The account a request is about; a confirmation is about the one its token names.
U(h)       == IF op[h].tipo = "confirmar" THEN Dueno(op[h].dato) ELSE op[h].usuario
Ir(h, p)   == pc' = [pc EXCEPT ![h] = p]
Auditar(tipo, u, h) == auditoria' = auditoria \cup {[tipo |-> tipo, usuario |-> u, por |-> h]}

\* A handler at step p serving a request of type t.
En(h, p, t) == pc[h] = p /\ op[h].tipo = t

BloqueoVigente(f) == f.estado = "bloqueado" /\ f.hasta # "pasado"

\* determinarMotivoFallo() = 'password_incorrecta' on an account without a lock in force: an
\* inactive account counts too, the wrong password is looked at first.
Contable(f, clave) == f.clave # Nulo /\ clave # f.clave /\ ~BloqueoVigente(f)

Entra(f, clave) ==
  /\ f.clave # Nulo
  /\ clave = f.clave
  /\ ~BloqueoVigente(f)
  /\ f.estado # "inactivo"

Activa(f) == [f EXCEPT !.estado = "activo", !.hasta = "nulo"]

\* Mutant: the healing decided on the row that was read, not by the WHERE of its UPDATE.
SanarSinCondicion(h) ==
  /\ cuenta' = [cuenta EXCEPT ![U(h)] = Activa(@)]
  /\ auditoria' = auditoria \cup {[tipo |-> "LOGIN", usuario |-> U(h), por |-> h]}

\* sanarBloqueoVencido() and the login event, in one transaction.
SanarYAuditar(h) ==
  LET u == U(h)
      vencido == cuenta[u].estado = "bloqueado" /\ cuenta[u].hasta = "pasado"
      login == [tipo |-> "LOGIN", usuario |-> u, por |-> h]
      sana  == [tipo |-> "CUENTA_DESBLOQUEADA", usuario |-> u, por |-> h]
  IN /\ cuenta' = IF vencido THEN [cuenta EXCEPT ![u] = Activa(@)] ELSE cuenta
     /\ auditoria' = auditoria \cup {login} \cup (IF vencido THEN {sana} ELSE {})

Recibir(h) ==
  /\ pc[h] = "libre"
  /\ \E c \in Cuerpos : /\ c.tipo \in {"confirmar", "logout"} => op[c.dato] # Nulo
                        /\ op' = [op EXCEPT ![h] = c]
  /\ Ir(h, "recibida")
  /\ UNCHANGED <<cuenta, auditoria, redis, marca>>
-----------------------------------------------------------------------------
(* Login with a password: login() *)

\* findUnique and argon2.verify; a refusal is audited as LOGIN_FALLIDO, which nothing reads.
LeerLogin(h) ==
  LET f == cuenta[U(h)]  clave == op[h].clave
  IN /\ En(h, "recibida", "login")
     /\ Ir(h, IF Entra(f, clave) THEN "aceptado" ELSE IF Contable(f, clave) THEN "fallo" ELSE "fin")
     /\ UNCHANGED <<cuenta, auditoria, redis, op, marca>>

\* registrarFallo(): SET NX and INCR in one MULTI.
RegistrarFallo(h) ==
  LET n == intentos[U(h)] + 1
  IN /\ pc[h] = "fallo"
     /\ intentos' = [intentos EXCEPT ![U(h)] = n]
     /\ Ir(h, IF n >= IntentosMax THEN "umbral" ELSE "fin")
     /\ UNCHANGED <<cuenta, auditoria, sesiones, indice, tokens, espera, op, marca>>

\* Mutant: the lock written by id alone.
BloquearSinCondicion(h) ==
  /\ pc[h] = "umbral"
  /\ cuenta' = [cuenta EXCEPT ![U(h)] = [@ EXCEPT !.estado = "bloqueado", !.hasta = "futuro"]]
  /\ Auditar("CUENTA_BLOQUEADA", U(h), h)
  /\ Ir(h, "revocar")
  /\ UNCHANGED <<redis, op, marca>>

\* bloquearSiUmbralAlcanzado(): UPDATE ... WHERE estado = 'activo' and its event.
BloquearSiUmbralAlcanzado(h) ==
  /\ pc[h] = "umbral"
  /\ IF cuenta[U(h)].estado = "activo"
       THEN /\ cuenta' = [cuenta EXCEPT ![U(h)] = [@ EXCEPT !.estado = "bloqueado", !.hasta = "futuro"]]
            /\ Auditar("CUENTA_BLOQUEADA", U(h), h)
            /\ Ir(h, "revocar")
       ELSE Ir(h, "fin") /\ UNCHANGED <<cuenta, auditoria>>
  /\ UNCHANGED <<redis, op, marca>>

\* Mutant: the session is opened without waiting for the transaction of the event.
EntrarSinConfirmar(h) ==
  /\ En(h, "aceptado", "login")
  /\ Ir(h, "reinicio")
  /\ UNCHANGED <<cuenta, auditoria, redis, op, marca>>

ConfirmarLogin(h) ==
  /\ En(h, "aceptado", "login")
  /\ SanarYAuditar(h)
  /\ Ir(h, "reinicio")
  /\ UNCHANGED <<redis, op, marca>>

ResetearIntentos(h) ==
  /\ pc[h] = "reinicio"
  /\ intentos' = [intentos EXCEPT ![U(h)] = 0]
  /\ Ir(h, "sesion")
  /\ UNCHANGED <<cuenta, auditoria, sesiones, indice, tokens, espera, op, marca>>
-----------------------------------------------------------------------------
(* Login with Google: loginConGoogle() and crearSesionOAuth() *)

OtroConSub(h) == \E v \in Usuarios \ {U(h)} : cuenta[v].google = op[h].dato

\* The checks up to the call of crearSesionOAuth(); a refusal only leaves its event.
LeerGoogle(h) ==
  LET f == cuenta[U(h)]  sub == op[h].dato
      pasa == /\ sub # Nulo
              /\ ~BloqueoVigente(f)
              /\ f.estado # "inactivo"
              /\ \/ f.google = sub
                 \/ /\ f.google = Nulo
                    /\ f.clave # Nulo => op[h].clave = f.clave
  IN /\ En(h, "recibida", "google")
     /\ Ir(h, IF ~pasa THEN "fin" ELSE IF f.google = sub THEN "aceptado" ELSE "otro")
     /\ UNCHANGED <<cuenta, auditoria, redis, op, marca>>

\* Estado 8b: a second SELECT, of the identity; the password was checked against the row of the first.
ComprobarSub(h) ==
  /\ pc[h] = "otro"
  /\ Ir(h, IF OtroConSub(h) THEN "fin" ELSE "cambio")
  /\ UNCHANGED <<cuenta, auditoria, redis, op, marca>>

\* An account already linked: the transaction only heals and audits.
ConfirmarGoogle(h) ==
  /\ En(h, "aceptado", "google")
  /\ SanarYAuditar(h)
  /\ Ir(h, "sesion")
  /\ UNCHANGED <<redis, op, marca>>

\* Mutant: no unique index on google_id.
VincularSinIndice(h) ==
  /\ En(h, "cambio", "google")
  /\ Ir(h, "sesion")
  /\ cuenta' = [cuenta EXCEPT ![U(h)].google = op[h].dato]
  /\ Auditar("LOGIN", U(h), h)
  /\ UNCHANGED <<redis, op, marca>>

\* Linking: the UPDATE of google_id is by id, and the unique index answers P2002, which rolls
\* the healing and the event back.  (Linking needs estado read without a lock in force; the
\* healing of a lapsed lock goes with it.)
Vincular(h) ==
  LET u == U(h)
      vencido == cuenta[u].estado = "bloqueado" /\ cuenta[u].hasta = "pasado"
      fila == IF vencido THEN Activa(cuenta[u]) ELSE cuenta[u]
      evento(t) == [tipo |-> t, usuario |-> u, por |-> h]
  IN /\ En(h, "cambio", "google")
     /\ IF OtroConSub(h)
          THEN Ir(h, "fin") /\ UNCHANGED <<cuenta, auditoria>>
          ELSE /\ cuenta' = [cuenta EXCEPT ![u] = [fila EXCEPT !.google = op[h].dato]]
               /\ auditoria' = auditoria \cup {evento("LOGIN")}
                                 \cup (IF vencido THEN {evento("CUENTA_DESBLOQUEADA")} ELSE {})
               /\ Ir(h, "sesion")
     /\ UNCHANGED <<redis, op, marca>>
-----------------------------------------------------------------------------
(* Sessions: SessionService *)

\* crear(): SET, SADD and EXPIRE in one MULTI.
CrearSesion(h) ==
  /\ pc[h] = "sesion"
  /\ sesiones' = sesiones \cup {h}
  /\ indice' = [indice EXCEPT ![U(h)] = @ \cup {h}]
  /\ Ir(h, "fin")
  /\ UNCHANGED <<cuenta, auditoria, intentos, tokens, espera, op, marca>>

\* revokeAllForUser(): SMEMBERS; DEL of the keys; DEL of the index.
RevocarLeer(h) ==
  /\ pc[h] = "revocar"
  /\ marca' = [marca EXCEPT ![h] = indice[U(h)]]
  /\ Ir(h, IF indice[U(h)] = {} THEN "olvidar" ELSE "borrar")
  /\ UNCHANGED <<cuenta, auditoria, redis, op>>

RevocarBorrar(h) ==
  /\ pc[h] = "borrar"
  /\ sesiones' = sesiones \ marca[h]
  /\ Ir(h, "olvidar")
  /\ UNCHANGED <<cuenta, auditoria, intentos, indice, tokens, espera, op, marca>>

RevocarOlvidar(h) ==
  /\ pc[h] = "olvidar"
  /\ indice' = [indice EXCEPT ![U(h)] = {}]
  /\ Ir(h, "fin")
  /\ UNCHANGED <<cuenta, auditoria, intentos, sesiones, tokens, espera, op, marca>>

\* logout(): the session is read and LOGOUT audited ...
Logout(h) ==
  /\ En(h, "recibida", "logout")
  /\ Ir(h, IF op[h].dato \in sesiones THEN "cerrar" ELSE "fin")
  /\ UNCHANGED <<cuenta, auditoria, redis, op, marca>>

\* ... then revocar(), GET, DEL, and SREM from the index if the GET found it.
RevocarBuscar(h) ==
  /\ pc[h] = "cerrar"
  /\ marca' = [marca EXCEPT ![h] = {op[h].dato} \cap sesiones]
  /\ Ir(h, "una")
  /\ UNCHANGED <<cuenta, auditoria, redis, op>>

Revocar(h) ==
  /\ pc[h] = "una"
  /\ sesiones' = sesiones \ {op[h].dato}
  /\ Ir(h, IF marca[h] = {} THEN "fin" ELSE "quitar")
  /\ UNCHANGED <<cuenta, auditoria, intentos, indice, tokens, espera, op, marca>>

RevocarQuitar(h) ==
  /\ pc[h] = "quitar"
  /\ indice' = [indice EXCEPT ![Dueno(op[h].dato)] = @ \ {op[h].dato}]
  /\ Ir(h, "fin")
  /\ UNCHANGED <<cuenta, auditoria, intentos, sesiones, tokens, espera, op, marca>>
-----------------------------------------------------------------------------
(* The committee and the administrator *)

\* desbloquearManual(): UPDATE ... WHERE estado = 'bloqueado'; it does not wait for bloqueado_hasta.
DesbloquearManual(h) ==
  /\ En(h, "recibida", "desbloquear")
  /\ IF cuenta[U(h)].estado = "bloqueado"
       THEN /\ cuenta' = [cuenta EXCEPT ![U(h)] = Activa(@)]
            /\ Auditar("CUENTA_DESBLOQUEADA", U(h), h)
            /\ Ir(h, "revocar")
       ELSE Ir(h, "fin") /\ UNCHANGED <<cuenta, auditoria>>
  /\ UNCHANGED <<redis, op, marca>>

\* cambiarEstado(): the row is read, then UPDATE ... WHERE estado IN ('activo', 'inactivo').
LeerEstado(h) ==
  /\ En(h, "recibida", "estado")
  /\ Ir(h, IF cuenta[U(h)].estado \in {"bloqueado", op[h].dato} THEN "fin" ELSE "cambio")
  /\ UNCHANGED <<cuenta, auditoria, redis, op, marca>>

CambiarEstado(h) ==
  LET destino == op[h].dato
  IN /\ En(h, "cambio", "estado")
     /\ IF cuenta[U(h)].estado # "bloqueado"
          THEN /\ cuenta' = [cuenta EXCEPT ![U(h)].estado = destino]
               /\ Auditar(IF destino = "inactivo" THEN "USUARIO_DESACTIVADO" ELSE "USUARIO_REACTIVADO",
                          U(h), h)
               /\ Ir(h, IF destino = "inactivo" THEN "revocar" ELSE "fin")
          ELSE Ir(h, "fin") /\ UNCHANGED <<cuenta, auditoria>>
     /\ UNCHANGED <<redis, op, marca>>
-----------------------------------------------------------------------------
(* Recovery: solicitar() and confirmar() *)

\* SET NX of the cooldown and RECUPERACION_SOLICITADA; the token is written after the commit.
Solicitar(h) ==
  /\ En(h, "recibida", "recuperar")
  /\ espera' = espera \cup {U(h)}
  /\ Ir(h, IF U(h) \in espera THEN "fin" ELSE "token")
  /\ UNCHANGED <<cuenta, auditoria, intentos, sesiones, indice, tokens, op, marca>>

EmitirToken(h) ==
  /\ pc[h] = "token"
  /\ tokens' = tokens \cup {h}
  /\ Ir(h, "fin")
  /\ UNCHANGED <<cuenta, auditoria, intentos, sesiones, indice, espera, op, marca>>

\* Mutant: the token read with GET and deleted at the end.
LeerToken(h) ==
  /\ En(h, "recibida", "confirmar")
  /\ Ir(h, IF op[h].dato \in tokens THEN "clave" ELSE "fin")
  /\ UNCHANGED <<cuenta, auditoria, redis, op, marca>>

\* TTL and GETDEL in one MULTI.
ConsumirToken(h) ==
  LET t == op[h].dato
  IN /\ En(h, "recibida", "confirmar")
     /\ tokens' = tokens \ {t}
     /\ Ir(h, IF t \in tokens THEN "clave" ELSE "fin")
     /\ UNCHANGED <<cuenta, auditoria, intentos, sesiones, indice, espera, op, marca>>

\* The transaction: the password of the account the token names, and its event.
GuardarClave(h) ==
  LET u == U(h)
  IN /\ pc[h] = "clave"
     /\ cuenta' = [cuenta EXCEPT ![u].clave = op[h].clave]
     /\ \/ Auditar("RECUPERACION_COMPLETADA", u, h) /\ Ir(h, "revocar")
        \* committed, and the acknowledgement lost: the client library throws
        \/ Auditar("RECUPERACION_SIN_ACUSE", u, h) /\ Ir(h, "compensar")
     /\ UNCHANGED <<redis, op, marca>>

\* The transaction is rolled back.
FallarClave(h) ==
  /\ pc[h] = "clave"
  /\ Ir(h, "compensar")
  /\ UNCHANGED <<cuenta, auditoria, redis, op, marca>>

\* The catch restores the token with the time it had left.
Compensar(h) ==
  /\ pc[h] = "compensar"
  /\ tokens' = tokens \cup {op[h].dato}
  /\ Ir(h, "fin")
  /\ UNCHANGED <<cuenta, auditoria, intentos, sesiones, indice, espera, op, marca>>
-----------------------------------------------------------------------------
(* Time and failures *)

\* bloqueado_hasta passes.
VenceBloqueo(u) ==
  /\ cuenta[u].estado = "bloqueado" /\ cuenta[u].hasta = "futuro"
  /\ cuenta' = [cuenta EXCEPT ![u].hasta = "pasado"]
  /\ UNCHANGED <<auditoria, redis, pc, op, marca>>

\* A key of Redis reaches its TTL: the window of attempts, a session (its id stays in the
\* index), a token, a cooldown.
VenceVentana(u) ==
  /\ intentos[u] > 0
  /\ intentos' = [intentos EXCEPT ![u] = 0]
  /\ UNCHANGED <<cuenta, auditoria, sesiones, indice, tokens, espera, pc, op, marca>>

VenceSesion(s) ==
  /\ s \in sesiones
  /\ sesiones' = sesiones \ {s}
  /\ UNCHANGED <<cuenta, auditoria, intentos, indice, tokens, espera, pc, op, marca>>

VenceToken(t) ==
  /\ t \in tokens
  /\ tokens' = tokens \ {t}
  /\ UNCHANGED <<cuenta, auditoria, intentos, sesiones, indice, espera, pc, op, marca>>

VenceEspera(u) ==
  /\ u \in espera
  /\ espera' = espera \ {u}
  /\ UNCHANGED <<cuenta, auditoria, intentos, sesiones, indice, tokens, pc, op, marca>>

\* An exception, or a crash, between two steps.
Fallar(h) ==
  /\ pc[h] \notin {"libre", "fin"}
  /\ Ir(h, "fin")
  /\ UNCHANGED <<cuenta, auditoria, redis, op, marca>>
-----------------------------------------------------------------------------
Manejador(h) ==
  \/ Recibir(h) \/ LeerLogin(h) \/ RegistrarFallo(h) \/ BloquearSiUmbralAlcanzado(h)
  \/ ConfirmarLogin(h) \/ ResetearIntentos(h) \/ LeerGoogle(h) \/ ComprobarSub(h) \/ ConfirmarGoogle(h) \/ Vincular(h)
  \/ CrearSesion(h) \/ RevocarLeer(h) \/ RevocarBorrar(h) \/ RevocarOlvidar(h) \/ Logout(h)
  \/ RevocarBuscar(h) \/ Revocar(h) \/ RevocarQuitar(h)
  \/ DesbloquearManual(h) \/ LeerEstado(h) \/ CambiarEstado(h)
  \/ Solicitar(h) \/ EmitirToken(h) \/ ConsumirToken(h) \/ GuardarClave(h) \/ FallarClave(h) \/ Compensar(h)
  \/ Fallar(h) \/ VenceSesion(h) \/ VenceToken(h)

Next ==
  \/ \E h \in Peticiones : Manejador(h)
  \/ \E u \in Usuarios : VenceBloqueo(u) \/ VenceVentana(u) \/ VenceEspera(u)

Spec == Init /\ [][Next]_vars
-----------------------------------------------------------------------------
(* Properties *)

Eventos(tipo, u) == {e \in auditoria : e.tipo = tipo /\ e.usuario = u}

\* The audit tells the story of every lock: an account has one CUENTA_BLOQUEADA more than
\* CUENTA_DESBLOQUEADA while it is locked and as many when it is not, however many failed
\* logins reach the threshold at once and whoever unlocks it (the committee, twice, or the
\* lazy expiry of a login that read the row before).  The state is well typed.
BloqueoAuditado ==
  /\ TypeOK
  /\ \A u \in Usuarios :
       Cardinality(Eventos("CUENTA_BLOQUEADA", u))
         = Cardinality(Eventos("CUENTA_DESBLOQUEADA", u)) + (IF cuenta[u].estado = "bloqueado" THEN 1 ELSE 0)

\* Brute force is no way back: an account that was deactivated leaves that state only by a
\* cambiarEstado() to 'activo', never by a lockout, its expiry or an unlock that overlap it.
SoloSeReactiva ==
  [][\A u \in Usuarios :
       cuenta[u].estado = "inactivo" /\ cuenta'[u].estado # "inactivo" =>
         Eventos("USUARIO_REACTIVADO", u) # Eventos("USUARIO_REACTIVADO", u)']_vars

\* No session without its event: a live session, however its handler was interrupted, has the
\* LOGIN of the account that owns it committed.
SesionConRastro ==
  \A s \in sesiones : [tipo |-> "LOGIN", usuario |-> Dueno(s), por |-> s] \in auditoria

\* One Google identity never opens two accounts, although the check and the link are apart.
VinculoUnico ==
  \A u, v \in Usuarios : cuenta[u].google = cuenta[v].google => u = v \/ cuenta[u].google = Nulo

Usos(t) == {e \in auditoria : e.tipo \in {"RECUPERACION_COMPLETADA", "RECUPERACION_SIN_ACUSE"}
                                /\ op[e.por].dato = t}

\* A token changes one password once: it is alive, or in the hands of one handler, or spent;
\* only a commit whose acknowledgement was lost lets it be used again.
TokenDeUnSoloUso ==
  \A t \in Peticiones :
    LET enCurso == {h \in Peticiones : pc[h] = "clave" /\ op[h].dato = t}
        seguros == {e \in Usos(t) : e.tipo = "RECUPERACION_COMPLETADA"}
    IN /\ Cardinality(enCurso) + Cardinality(seguros) + Cardinality({t} \cap tokens) <= 1
       /\ \A e \in Usos(t) : e.usuario = Dueno(t)
=============================================================================
