----------------------------- MODULE CuentasProofs --------------------------
(***************************************************************************)
(* Accounts, sessions and recovery tokens, for any number of requests,     *)
(* accounts and passwords: a handler may stop between any two of its steps.*)
(***************************************************************************)
EXTENDS Cuentas, FiniteSetTheorems, TLAPS

(* The inductive invariant *)

\* A handler past its first step serves one body, and whom a confirmation or a logout
\* names has started too: U(h) means the same until the end.
ConCuerpo ==
  \A h \in Peticiones :
    IF pc[h] = "libre" THEN op[h] = Nulo
    ELSE /\ op[h] \in Cuerpos
         /\ op[h].tipo \in {"confirmar", "logout"} => pc[op[h].dato] # "libre"

\* Which steps belong to which operations.
Ruta ==
  \A h \in Peticiones :
    /\ pc[h] \in {"fallo", "umbral", "reinicio"} => op[h].tipo = "login"
    /\ pc[h] \in {"aceptado", "sesion"} => op[h].tipo \in {"login", "google"}
    /\ pc[h] = "otro" => op[h].tipo = "google"
    /\ pc[h] = "cambio" => op[h].tipo \in {"google", "estado"}
    /\ pc[h] \in {"clave", "compensar"} => op[h].tipo = "confirmar"
    /\ pc[h] \in {"cerrar", "una", "quitar"} => op[h].tipo = "logout"

\* The steps before the transaction of an operation: nothing is audited yet, so the
\* event that the transaction adds is a new one.
Previos == {"libre", "recibida", "fallo", "umbral", "aceptado", "otro", "cambio", "token", "clave"}
SinEventos ==
  /\ IsFiniteSet(auditoria)
  /\ \A e \in auditoria : pc[e.por] \notin Previos

\* The session that a login is about to open has its event.
LoginDe(h) == [tipo |-> "LOGIN", usuario |-> op[h].usuario, por |-> h]
LoginAntes ==
  /\ \A h \in Peticiones : pc[h] \in {"reinicio", "sesion"} => LoginDe(h) \in auditoria
  /\ \A s \in sesiones : pc[s] # "libre" /\ LoginDe(s) \in auditoria

\* A token is in one place: alive, in the hands of one handler, or spent; and none of
\* it before the request it was issued for has ended.
EnManos(h, t)  == pc[h] \in {"clave", "compensar"} /\ op[h].dato = t
Gasto(e, t)    == e.tipo = "RECUPERACION_COMPLETADA" /\ op[e.por].dato = t
UnLugar ==
  \A t \in Peticiones :
    /\ t \in tokens => pc[t] = "fin"
    /\ \A h \in Peticiones : EnManos(h, t) =>
         /\ pc[t] = "fin" /\ t \notin tokens
         /\ \A q \in Peticiones : EnManos(q, t) => q = h
    /\ \A e \in auditoria : Gasto(e, t) =>
         /\ pc[t] = "fin" /\ t \notin tokens
         /\ \A h \in Peticiones : ~EnManos(h, t)
         /\ \A d \in auditoria : Gasto(d, t) => d = e

\* A password changes for the account its token was issued to.
UsosPropios ==
  \A e \in auditoria :
    e.tipo \in {"RECUPERACION_COMPLETADA", "RECUPERACION_SIN_ACUSE"} =>
      op[e.por].tipo = "confirmar" /\ e.usuario = Dueno(op[e.por].dato)

InvCuentas ==
  /\ TypeOK /\ ConCuerpo /\ Ruta /\ SinEventos
  /\ LoginAntes /\ VinculoUnico /\ BloqueoAuditado /\ UnLugar /\ UsosPropios
-----------------------------------------------------------------------------
(* Who moves, and for whom *)

\* A request in progress has a body, and is about an account.
LEMMA Quien ==
  ASSUME TypeOK, ConCuerpo, NEW h \in Peticiones, pc[h] # "libre"
  PROVE  /\ op[h] \in Cuerpo /\ BienFormado(op[h])
         /\ U(h) \in Usuarios
         /\ op[h].tipo \in {"confirmar", "logout"} =>
              op[h].dato \in Peticiones /\ pc[op[h].dato] # "libre" /\ Dueno(op[h].dato) \in Usuarios
<1>1. \A q \in Peticiones : pc[q] # "libre" => op[q] \in Cuerpo /\ BienFormado(op[q])
  BY ConstantesCuentas DEF ConCuerpo
<1>2. op[h].tipo \in {"confirmar", "logout"} => op[h].dato \in Peticiones /\ pc[op[h].dato] # "libre"
  BY <1>1 DEF ConCuerpo, BienFormado
<1>3. \A q \in Peticiones : pc[q] # "libre" => Dueno(q) \in Usuarios
  BY <1>1 DEF Dueno, Cuerpo
<1>4. U(h) \in Usuarios
  BY <1>2, <1>3 DEF U, Dueno
<1>5. QED
  BY <1>1, <1>2, <1>3, <1>4

\* The steps of a request that has started.
Sigue(h) == Manejador(h) /\ ~Recibir(h) /\ ~VenceSesion(h) /\ ~VenceToken(h)

\* A step that is nobody's: time.
Tiempo == (\E u \in Usuarios : VenceBloqueo(u) \/ VenceVentana(u) \/ VenceEspera(u))
            \/ (\E s \in Peticiones : VenceSesion(s) \/ VenceToken(s))

\* A handler moves only itself, never back to its beginning, and keeps its body.
LEMMA UnoSolo ==
  ASSUME TypeOK, Next
  PROVE  \/ UNCHANGED <<pc, op, auditoria>> /\ Tiempo
         \/ \E h \in Peticiones :
              /\ Recibir(h) \/ (Sigue(h) /\ pc[h] # "libre")
              /\ pc[h] # "fin" /\ pc'[h] # "libre"
              /\ pc' = [pc EXCEPT ![h] = pc'[h]]
              /\ \A q \in Peticiones : pc[q] # "libre" => op'[q] = op[q]
              /\ pc[h] # "libre" => op' = op
<1> USE DEF TypeOK
<1>1. CASE Tiempo
  BY <1>1 DEF Tiempo, VenceBloqueo, VenceVentana, VenceEspera, VenceSesion, VenceToken, redis
<1>2. ASSUME NEW h \in Peticiones, Recibir(h)
      PROVE  /\ pc[h] # "fin" /\ pc'[h] # "libre" /\ pc' = [pc EXCEPT ![h] = pc'[h]]
             /\ \A q \in Peticiones : pc[q] # "libre" => op'[q] = op[q]
             /\ pc[h] # "libre" => op' = op
  BY <1>2 DEF Recibir, Ir
<1>3. ASSUME NEW h \in Peticiones, Sigue(h)
      PROVE  /\ pc[h] \notin {"libre", "fin"} /\ pc'[h] # "libre" /\ pc' = [pc EXCEPT ![h] = pc'[h]]
             /\ op' = op
  <2>1. CASE LeerLogin(h) \/ RegistrarFallo(h) \/ BloquearSiUmbralAlcanzado(h)
               \/ ConfirmarLogin(h) \/ ResetearIntentos(h)
    BY <2>1 DEF LeerLogin, RegistrarFallo, BloquearSiUmbralAlcanzado, ConfirmarLogin, ResetearIntentos, Ir, En
  <2>2. CASE LeerGoogle(h) \/ ComprobarSub(h) \/ ConfirmarGoogle(h) \/ Vincular(h)
    BY <2>2 DEF LeerGoogle, ComprobarSub, ConfirmarGoogle, Vincular, Ir, En
  <2>3. CASE CrearSesion(h) \/ RevocarLeer(h) \/ RevocarBorrar(h) \/ RevocarOlvidar(h)
               \/ Logout(h)
               \/ RevocarBuscar(h) \/ Revocar(h) \/ RevocarQuitar(h)
    BY <2>3 DEF CrearSesion, RevocarLeer, RevocarBorrar, RevocarOlvidar, Logout, RevocarBuscar, Revocar, RevocarQuitar, Ir, En
  <2>4. CASE DesbloquearManual(h) \/ LeerEstado(h) \/ CambiarEstado(h)
    BY <2>4 DEF DesbloquearManual, LeerEstado, CambiarEstado, Ir, En
  <2>5. CASE Solicitar(h) \/ EmitirToken(h) \/ ConsumirToken(h) \/ GuardarClave(h)
               \/ FallarClave(h) \/ Compensar(h) \/ Fallar(h)
    BY <2>5 DEF Solicitar, EmitirToken, ConsumirToken, GuardarClave, FallarClave, Compensar, Fallar, Ir, En
  <2>6. QED
    BY <1>3, <2>1, <2>2, <2>3, <2>4, <2>5, Zenon DEF Sigue, Manejador
<1>4. QED
  BY <1>1, <1>2, <1>3 DEF Next, Tiempo, Sigue, Manejador

\* Whom a request is about does not change while it lasts.
LEMMA MismoDueno ==
  ASSUME TypeOK, ConCuerpo, Next, NEW h \in Peticiones, pc[h] # "libre"
  PROVE  op'[h] = op[h] /\ U(h)' = U(h) /\ Dueno(h)' = Dueno(h) /\ pc'[h] # "libre"
<1>1. \A q \in Peticiones : pc[q] # "libre" => op'[q] = op[q] /\ pc'[q] # "libre"
  BY UnoSolo DEF TypeOK
<1>2. op[h].tipo = "confirmar" => op[h].dato \in Peticiones /\ pc[op[h].dato] # "libre"
  BY Quien
<1>3. QED
  BY <1>1, <1>2 DEF U, Dueno
-----------------------------------------------------------------------------
(* Types *)

\* The row that a handler writes is a row.
LEMMA TipoFilas ==
  ASSUME TypeOK, ConCuerpo, NEW h \in Peticiones, Sigue(h), pc[h] # "libre"
  PROVE  cuenta' \in [Usuarios -> Fila]
<1> DEFINE u == U(h)
<1>1. /\ u \in Usuarios /\ cuenta \in [Usuarios -> Fila] /\ cuenta[u] \in Fila
      /\ op[h] \in Cuerpo /\ BienFormado(op[h])
  BY Quien DEF TypeOK
<1>2. Activa(cuenta[u]) \in Fila
  BY <1>1 DEF Activa, Fila
<1>3. CASE ConfirmarLogin(h) \/ ConfirmarGoogle(h)
  BY <1>1, <1>2, <1>3 DEF ConfirmarLogin, ConfirmarGoogle, SanarYAuditar
<1>4. CASE DesbloquearManual(h)
  BY <1>1, <1>2, <1>4 DEF DesbloquearManual
<1>5. CASE BloquearSiUmbralAlcanzado(h)
  <2>1. [cuenta[u] EXCEPT !.estado = "bloqueado", !.hasta = "futuro"] \in Fila
    BY <1>1 DEF Fila
  <2>2. QED
    BY <1>1, <1>5, <2>1 DEF BloquearSiUmbralAlcanzado
<1>6. CASE Vincular(h)
  <2>1. op[h].dato \in Subs \cup {Nulo}
    BY <1>1, <1>6 DEF Vincular, En, BienFormado
  <2>2. \A f \in Fila : [f EXCEPT !.google = op[h].dato] \in Fila
    BY <2>1 DEF Fila
  <2>3. QED
    BY <1>1, <1>2, <1>6, <2>2 DEF Vincular
<1>7. CASE CambiarEstado(h)
  <2>1. op[h].dato \in {"activo", "inactivo"}
    BY <1>1, <1>7 DEF CambiarEstado, En, BienFormado
  <2>2. [cuenta[u] EXCEPT !.estado = op[h].dato] \in Fila
    BY <1>1, <2>1 DEF Fila
  <2>3. QED
    BY <1>1, <1>7, <2>2 DEF CambiarEstado
<1>8. CASE GuardarClave(h)
  <2>1. [cuenta[u] EXCEPT !.clave = op[h].clave] \in Fila
    BY <1>1 DEF Fila, Cuerpo
  <2>2. QED
    BY <1>1, <1>8, <2>1 DEF GuardarClave
<1>9. CASE UNCHANGED cuenta
  BY <1>1, <1>9
<1>10. QED
  <2>1. CASE LeerLogin(h) \/ RegistrarFallo(h) \/ ResetearIntentos(h) \/ LeerGoogle(h) \/ ComprobarSub(h) \/ CrearSesion(h)
               \/ RevocarLeer(h) \/ RevocarBorrar(h) \/ RevocarOlvidar(h) \/ Logout(h)
               \/ RevocarBuscar(h) \/ Revocar(h) \/ RevocarQuitar(h)
               \/ LeerEstado(h)
    BY <1>9, <2>1 DEF LeerLogin, RegistrarFallo, ResetearIntentos, LeerGoogle, ComprobarSub, CrearSesion, RevocarLeer,
         RevocarBorrar, RevocarOlvidar, Logout, RevocarBuscar, Revocar, RevocarQuitar, LeerEstado
  <2>2. CASE Solicitar(h) \/ EmitirToken(h) \/ ConsumirToken(h) \/ FallarClave(h) \/ Compensar(h) \/ Fallar(h)
    BY <1>9, <2>2 DEF Solicitar, EmitirToken, ConsumirToken, FallarClave, Compensar, Fallar
  <2>3. QED
    BY <1>3, <1>4, <1>5, <1>6, <1>7, <1>8, <2>1, <2>2, Zenon DEF Sigue, Manejador

\* What the transactions of a handler add to the audit: events of its own account, on leaving
\* a step that comes before any transaction.
Audita(h) ==
  /\ auditoria' \subseteq auditoria \cup {e \in Evento : e.por = h /\ e.usuario = U(h)}
  /\ auditoria \subseteq auditoria'
  /\ IsFiniteSet(auditoria) => IsFiniteSet(auditoria')
  /\ pc[h] \in Previos \ {"libre"} /\ pc'[h] \notin Previos

LEMMA Auditoria ==
  ASSUME TypeOK, ConCuerpo, NEW h \in Peticiones, Sigue(h), pc[h] # "libre"
  PROVE  UNCHANGED auditoria \/ Audita(h)
<1> DEFINE u == U(h)
           e(t) == [tipo |-> t, usuario |-> u, por |-> h]
           Tipos == {"CUENTA_BLOQUEADA", "CUENTA_DESBLOQUEADA", "LOGIN", "USUARIO_DESACTIVADO",
                     "USUARIO_REACTIVADO", "RECUPERACION_COMPLETADA", "RECUPERACION_SIN_ACUSE"}
<1>1. u \in Usuarios /\ pc \in [Peticiones -> Pasos]
  BY Quien DEF TypeOK
<1>2. \A t \in Tipos : e(t) \in Evento /\ e(t).por = h /\ e(t).usuario = U(h)
  BY <1>1 DEF Evento
<1>3. \A t \in Tipos : IsFiniteSet(auditoria) => IsFiniteSet(auditoria \cup {e(t)})
  BY FS_AddElement
<1>4. \A s, t \in Tipos : IsFiniteSet(auditoria) => IsFiniteSet((auditoria \cup {e(s)}) \cup {e(t)})
  BY FS_AddElement
<1>5. ASSUME NEW t \in Tipos, auditoria' = auditoria \cup {e(t)},
             pc[h] \in Previos \ {"libre"}, pc'[h] \notin Previos
      PROVE  Audita(h)
  BY <1>2, <1>3, <1>5 DEF Audita
<1>6. ASSUME NEW s \in Tipos, NEW t \in Tipos, auditoria' = (auditoria \cup {e(s)}) \cup {e(t)},
             pc[h] \in Previos \ {"libre"}, pc'[h] \notin Previos
      PROVE  Audita(h)
  <2>1. IsFiniteSet(auditoria) => IsFiniteSet(auditoria')
    BY <1>4, <1>6
  <2>2. auditoria \subseteq auditoria' /\ auditoria' \subseteq auditoria \cup {x \in Evento : x.por = h /\ x.usuario = U(h)}
    BY <1>2, <1>6
  <2>3. QED
    BY <1>6, <2>1, <2>2, Zenon DEF Audita
<1> HIDE DEF e, u
<1>7. CASE ConfirmarLogin(h) \/ ConfirmarGoogle(h) \/ (Vincular(h) /\ ~OtroConSub(h))
  <2>1. pc[h] \in Previos \ {"libre"} /\ pc'[h] \notin Previos
    BY <1>1, <1>7 DEF ConfirmarLogin, ConfirmarGoogle, Vincular, En, Ir, Previos
  <2>2. auditoria' = auditoria \cup {e("LOGIN")}
          \/ auditoria' = (auditoria \cup {e("LOGIN")}) \cup {e("CUENTA_DESBLOQUEADA")}
    BY <1>7 DEF ConfirmarLogin, ConfirmarGoogle, Vincular, SanarYAuditar, e, u
  <2>3. QED
    BY <1>5, <1>6, <2>1, <2>2
<1>8. CASE BloquearSiUmbralAlcanzado(h) \/ DesbloquearManual(h) \/ CambiarEstado(h)
  <2>1. UNCHANGED auditoria \/
          /\ pc[h] \in Previos \ {"libre"} /\ pc'[h] \notin Previos
          /\ \E t \in Tipos : auditoria' = auditoria \cup {e(t)}
    BY <1>1, <1>8
    DEF BloquearSiUmbralAlcanzado, DesbloquearManual, CambiarEstado, Auditar, En, Ir, Previos, e, u
  <2>2. QED
    BY <1>5, <2>1
<1>9. CASE GuardarClave(h)
  <2>1. /\ pc[h] \in Previos \ {"libre"} /\ pc'[h] \notin Previos
        /\ \E t \in Tipos : auditoria' = auditoria \cup {e(t)}
    BY <1>1, <1>9 DEF GuardarClave, Auditar, Ir, Previos, e, u
  <2>2. QED
    BY <1>5, <2>1
<1>10. QED
  <2>1. CASE LeerLogin(h) \/ RegistrarFallo(h) \/ ResetearIntentos(h) \/ LeerGoogle(h) \/ ComprobarSub(h) \/ CrearSesion(h)
               \/ RevocarLeer(h) \/ RevocarBorrar(h) \/ RevocarOlvidar(h) \/ Logout(h)
               \/ RevocarBuscar(h) \/ Revocar(h) \/ RevocarQuitar(h)
               \/ LeerEstado(h) \/ (Vincular(h) /\ OtroConSub(h))
    BY <2>1 DEF LeerLogin, RegistrarFallo, ResetearIntentos, LeerGoogle, ComprobarSub, CrearSesion, RevocarLeer,
         RevocarBorrar, RevocarOlvidar, Logout, RevocarBuscar, Revocar, RevocarQuitar, LeerEstado, Vincular
  <2>2. CASE Solicitar(h) \/ EmitirToken(h) \/ ConsumirToken(h) \/ FallarClave(h) \/ Compensar(h) \/ Fallar(h)
    BY <2>2 DEF Solicitar, EmitirToken, ConsumirToken, FallarClave, Compensar, Fallar
  <2>3. QED
    BY <1>7, <1>8, <1>9, <2>1, <2>2, Zenon DEF Sigue, Manejador

\* Redis and the program counters keep their types.
LEMMA TipoRedis ==
  ASSUME TypeOK, ConCuerpo, Ruta, NEW h \in Peticiones, Sigue(h), pc[h] # "libre"
  PROVE  /\ intentos' \in [Usuarios -> Nat] /\ sesiones' \subseteq Peticiones
         /\ indice' \in [Usuarios -> SUBSET Peticiones] /\ tokens' \subseteq Peticiones
         /\ espera' \subseteq Usuarios /\ pc' \in [Peticiones -> Pasos]
         /\ marca' \in [Peticiones -> SUBSET Peticiones]
<1>1. U(h) \in Usuarios /\ (op[h].tipo \in {"confirmar", "logout"} => op[h].dato \in Peticiones)
  BY Quien
<1> USE DEF TypeOK
<1>2. CASE LeerLogin(h) \/ RegistrarFallo(h) \/ BloquearSiUmbralAlcanzado(h)
               \/ ConfirmarLogin(h) \/ ResetearIntentos(h)
  BY <1>1, <1>2
  DEF LeerLogin, RegistrarFallo, BloquearSiUmbralAlcanzado, ConfirmarLogin, ResetearIntentos, Ir, redis, Pasos
<1>3. CASE LeerGoogle(h) \/ ComprobarSub(h) \/ ConfirmarGoogle(h) \/ Vincular(h)
  BY <1>3 DEF LeerGoogle, ComprobarSub, ConfirmarGoogle, Vincular, Ir, redis, Pasos
<1>4. CASE CrearSesion(h) \/ RevocarLeer(h) \/ RevocarBorrar(h) \/ RevocarOlvidar(h) \/ Logout(h)
             \/ RevocarBuscar(h) \/ Revocar(h)
  BY <1>1, <1>4 DEF CrearSesion, RevocarLeer, RevocarBorrar, RevocarOlvidar, Logout, RevocarBuscar, Revocar, Ir, redis, Pasos
<1>5. CASE RevocarQuitar(h)
  <2>1. indice' \in [Usuarios -> SUBSET Peticiones]
    BY <1>5 DEF RevocarQuitar
  <2>2. QED
    BY <1>5, <2>1 DEF RevocarQuitar, Ir, Pasos
<1>6. CASE DesbloquearManual(h) \/ LeerEstado(h) \/ CambiarEstado(h)
  BY <1>6 DEF DesbloquearManual, LeerEstado, CambiarEstado, Ir, redis, Pasos
<1>7. CASE Solicitar(h) \/ EmitirToken(h) \/ ConsumirToken(h) \/ GuardarClave(h)
             \/ FallarClave(h) \/ Fallar(h)
  BY <1>1, <1>7 DEF Solicitar, EmitirToken, ConsumirToken, GuardarClave, FallarClave, Fallar, Ir, redis, Pasos
<1>8. CASE Compensar(h)
  BY <1>1, <1>8 DEF Compensar, Ruta, Ir, Pasos
<1>9. QED
  BY <1>2, <1>3, <1>4, <1>5, <1>6, <1>7, <1>8, Zenon DEF Sigue, Manejador
\* What passes by itself keeps its types, and touches no row but to let a lock lapse.
LEMMA TipoTiempo ==
  ASSUME TypeOK, Tiempo
  PROVE  /\ TypeOK'
         /\ tokens' \subseteq tokens /\ sesiones' \subseteq sesiones
         /\ \A u \in Usuarios : /\ cuenta'[u].estado = cuenta[u].estado
                                /\ cuenta'[u].google = cuenta[u].google
<1> USE DEF TypeOK
<1>1. ASSUME NEW u \in Usuarios, VenceBloqueo(u)
      PROVE  /\ TypeOK'
             /\ tokens' \subseteq tokens /\ sesiones' \subseteq sesiones
             /\ \A v \in Usuarios : /\ cuenta'[v].estado = cuenta[v].estado
                                    /\ cuenta'[v].google = cuenta[v].google
  <2>1. [cuenta[u] EXCEPT !.hasta = "pasado"] \in Fila
    BY DEF Fila
  <2>2. \A v \in Usuarios : cuenta'[v].estado = cuenta[v].estado /\ cuenta'[v].google = cuenta[v].google
    BY <1>1 DEF VenceBloqueo, Fila
  <2>3. QED
    BY <1>1, <2>1, <2>2 DEF VenceBloqueo, redis
<1>2. ASSUME NEW u \in Usuarios, VenceVentana(u) \/ VenceEspera(u)
      PROVE  TypeOK' /\ UNCHANGED <<tokens, sesiones, cuenta>>
  BY <1>2 DEF VenceVentana, VenceEspera
<1>3. ASSUME NEW s \in Peticiones, VenceSesion(s) \/ VenceToken(s)
      PROVE  TypeOK' /\ tokens' \subseteq tokens /\ sesiones' \subseteq sesiones /\ UNCHANGED cuenta
  BY <1>3 DEF VenceSesion, VenceToken
<1>4. QED
  BY <1>1, <1>2, <1>3 DEF Tiempo

\* A request is received with a body of Cuerpos, and nothing else happens.
LEMMA Recibida ==
  ASSUME TypeOK, ConCuerpo, NEW h \in Peticiones, Recibir(h)
  PROVE  /\ TypeOK' /\ UNCHANGED <<cuenta, auditoria, redis, marca>>
         /\ pc[h] = "libre" /\ pc'[h] = "recibida"
         /\ op'[h] \in Cuerpos
         /\ op'[h].tipo \in {"confirmar", "logout"} =>
              op'[h].dato \in Peticiones /\ pc[op'[h].dato] # "libre"
<1>1. PICK c \in Cuerpos : /\ c.tipo \in {"confirmar", "logout"} => op[c.dato] # Nulo
                           /\ op' = [op EXCEPT ![h] = c]
  BY DEF Recibir
<1>2. c \in Cuerpo /\ BienFormado(c)
  BY ConstantesCuentas
<1>3. op'[h] = c
  BY <1>1 DEF TypeOK
<1>4. c.tipo \in {"confirmar", "logout"} => c.dato \in Peticiones /\ pc[c.dato] # "libre"
  BY <1>1, <1>2 DEF BienFormado, ConCuerpo
<1>5. TypeOK'
  BY <1>1, <1>2 DEF TypeOK, Recibir, Ir, redis, Pasos
<1>6. QED
  BY <1>3, <1>4, <1>5 DEF Recibir, Ir, TypeOK

\* The state keeps its types.
LEMMA TipoCuentas ==
  ASSUME TypeOK, ConCuerpo, Ruta, Next
  PROVE  TypeOK'
<1>1. CASE UNCHANGED <<pc, op, auditoria>> /\ Tiempo
  BY <1>1, TipoTiempo
<1>2. ASSUME NEW h \in Peticiones, Recibir(h) PROVE TypeOK'
  BY <1>2, Recibida
<1>3. ASSUME NEW h \in Peticiones, Sigue(h), pc[h] # "libre", op' = op PROVE TypeOK'
  <2>1. auditoria' \subseteq Evento
    BY <1>3, Auditoria DEF Audita, TypeOK
  <2>2. QED
    BY <1>3, <2>1, TipoFilas, TipoRedis DEF TypeOK
<1>4. QED
  BY <1>1, <1>2, <1>3, UnoSolo

\* The bodies and the owners hold still.
LEMMA CuerpoPaso ==
  ASSUME TypeOK, ConCuerpo, Next
  PROVE  ConCuerpo'
<1>1. \A h \in Peticiones : pc[h] # "libre" => op'[h] = op[h] /\ pc'[h] # "libre"
  BY MismoDueno
<1>2. CASE UNCHANGED <<pc, op, auditoria>>
  BY <1>2 DEF ConCuerpo
<1>3. ASSUME NEW h \in Peticiones, Recibir(h) PROVE ConCuerpo'
  <2>1. \A q \in Peticiones \ {h} : pc'[q] = pc[q] /\ op'[q] = op[q]
    BY <1>3 DEF Recibir, Ir, TypeOK
  <2>2. \A q \in Peticiones : pc[q] # "libre" =>
          (op[q].tipo \in {"confirmar", "logout"} => op[q].dato \in Peticiones /\ pc[op[q].dato] # "libre")
    BY Quien
  <2>3. QED
    BY <1>1, <1>3, <2>1, <2>2, Recibida DEF ConCuerpo
<1>4. ASSUME NEW h \in Peticiones, pc' = [pc EXCEPT ![h] = pc'[h]], pc[h] # "libre", pc'[h] # "libre", op' = op
      PROVE  ConCuerpo'
  <2>1. \A q \in Peticiones : pc[q] = "libre" <=> pc'[q] = "libre"
    BY <1>4 DEF TypeOK
  <2>2. \A q \in Peticiones : pc[q] # "libre" =>
          (op[q].tipo \in {"confirmar", "logout"} => op[q].dato \in Peticiones)
    BY Quien
  <2>3. QED
    BY <1>4, <2>1, <2>2 DEF ConCuerpo
<1>5. QED
  BY <1>2, <1>3, <1>4, UnoSolo
-----------------------------------------------------------------------------
(* The path of a request and the events it leaves *)

\* Each step belongs to its operations, and a request past its transaction stays past it.
LEMMA RutaPaso ==
  ASSUME TypeOK, ConCuerpo, Ruta, SinEventos, Next
  PROVE  Ruta' /\ SinEventos'
<1>1. CASE UNCHANGED <<pc, op, auditoria>>
  BY <1>1 DEF Ruta, SinEventos
<1>2. ASSUME NEW h \in Peticiones, Recibir(h) PROVE Ruta' /\ SinEventos'
  <2>1. \A q \in Peticiones \ {h} : pc'[q] = pc[q] /\ op'[q] = op[q]
    BY <1>2 DEF Recibir, Ir, TypeOK
  <2>2. pc[h] = "libre" /\ pc'[h] = "recibida" /\ auditoria' = auditoria
    BY <1>2, Recibida
  <2>3. \A e \in auditoria : e.por \in Peticiones
    BY DEF TypeOK, Evento
  <2>4. QED
    BY <2>1, <2>2, <2>3 DEF Ruta, SinEventos, Previos
<1>3. ASSUME NEW h \in Peticiones, Sigue(h), pc[h] # "libre", op' = op, pc' = [pc EXCEPT ![h] = pc'[h]]
      PROVE  Ruta' /\ SinEventos'
  <2> DEFINE Bien == /\ pc'[h] \in {"fallo", "umbral", "reinicio"} => op[h].tipo = "login"
                     /\ pc'[h] \in {"aceptado", "sesion"} => op[h].tipo \in {"login", "google"}
                     /\ pc'[h] = "otro" => op[h].tipo = "google"
                     /\ pc'[h] = "cambio" => op[h].tipo \in {"google", "estado"}
                     /\ pc'[h] \in {"clave", "compensar"} => op[h].tipo = "confirmar"
                     /\ pc'[h] \in {"cerrar", "una", "quitar"} => op[h].tipo = "logout"
                     /\ pc[h] \notin Previos => pc'[h] \notin Previos
  <2>1. ASSUME LeerLogin(h) \/ RegistrarFallo(h) \/ BloquearSiUmbralAlcanzado(h)
               \/ ConfirmarLogin(h) \/ ResetearIntentos(h)
        PROVE  Bien
    BY <2>1
    DEF LeerLogin, RegistrarFallo, BloquearSiUmbralAlcanzado, ConfirmarLogin, ResetearIntentos, Ir, En,
        Ruta, Previos, TypeOK
  <2>2. ASSUME LeerGoogle(h) \/ ComprobarSub(h) \/ ConfirmarGoogle(h) \/ Vincular(h)
        PROVE  Bien
    BY <2>2 DEF LeerGoogle, ComprobarSub, ConfirmarGoogle, Vincular, Ir, En, Ruta, Previos, TypeOK
  <2>3. ASSUME CrearSesion(h) \/ RevocarLeer(h) \/ RevocarBorrar(h) \/ RevocarOlvidar(h)
               \/ Logout(h)
               \/ RevocarBuscar(h) \/ Revocar(h) \/ RevocarQuitar(h)
        PROVE  Bien
    BY <2>3 DEF CrearSesion, RevocarLeer, RevocarBorrar, RevocarOlvidar, Logout, RevocarBuscar, Revocar, RevocarQuitar, Ir, En,
                Ruta, Previos, TypeOK
  <2>4. ASSUME DesbloquearManual(h) \/ LeerEstado(h) \/ CambiarEstado(h)
        PROVE  Bien
    BY <2>4 DEF DesbloquearManual, LeerEstado, CambiarEstado, Ir, En, Ruta, Previos, TypeOK
  <2>5. ASSUME Solicitar(h) \/ EmitirToken(h) \/ ConsumirToken(h) \/ GuardarClave(h)
               \/ FallarClave(h) \/ Compensar(h) \/ Fallar(h)
        PROVE  Bien
    BY <2>5 DEF Solicitar, EmitirToken, ConsumirToken, GuardarClave, FallarClave, Compensar, Fallar, Ir, En,
                Ruta, Previos, TypeOK
  <2>6. Bien
    BY <1>3, <2>1, <2>2, <2>3, <2>4, <2>5, Zenon DEF Sigue, Manejador
  <2>7. \A q \in Peticiones \ {h} : pc'[q] = pc[q]
    BY <1>3 DEF TypeOK
  <2>8. Ruta'
    BY <1>3, <2>6, <2>7 DEF Ruta
  <2>9. SinEventos'
    <3>1. \A e \in auditoria : e.por \in Peticiones /\ pc'[e.por] \notin Previos
      BY <2>6, <2>7 DEF TypeOK, Evento, SinEventos
    <3>2. CASE UNCHANGED auditoria
      BY <3>1, <3>2 DEF SinEventos
    <3>3. CASE Audita(h)
      BY <3>1, <3>3 DEF SinEventos, Audita
    <3>4. QED
      BY <1>3, <3>2, <3>3, Auditoria
  <2>10. QED
    BY <2>8, <2>9
<1>4. QED
  BY <1>1, <1>2, <1>3, UnoSolo

\* The rows of the audit that a transaction of h writes.
Asientos(h, T) == {[tipo |-> t, usuario |-> U(h), por |-> h] : t \in T}

\* The transaction of h that writes the rows T of the audit: what it does to the state of its account
\* it says there.
Asienta(h, T) ==
  /\ auditoria' = auditoria \cup Asientos(h, T)
  /\ T # {} => pc[h] \in Previos
  /\ \A v \in Usuarios \ {U(h)} : cuenta'[v].estado = cuenta[v].estado
  /\ "CUENTA_BLOQUEADA" \in T =>
       /\ "CUENTA_DESBLOQUEADA" \notin T
       /\ cuenta[U(h)].estado # "bloqueado" /\ cuenta'[U(h)].estado = "bloqueado"
  /\ "CUENTA_DESBLOQUEADA" \in T =>
       cuenta[U(h)].estado = "bloqueado" /\ cuenta'[U(h)].estado # "bloqueado"
  /\ T \cap {"CUENTA_BLOQUEADA", "CUENTA_DESBLOQUEADA"} = {} =>
       (cuenta'[U(h)].estado = "bloqueado" <=> cuenta[U(h)].estado = "bloqueado")
  /\ cuenta[U(h)].estado = "inactivo" /\ cuenta'[U(h)].estado # "inactivo" => "USUARIO_REACTIVADO" \in T

LEMMA Historia ==
  ASSUME TypeOK, ConCuerpo, NEW h \in Peticiones, Sigue(h), pc[h] # "libre"
  PROVE  \E T : Asienta(h, T)
<1> DEFINE u == U(h)
<1>1. /\ u \in Usuarios /\ cuenta \in [Usuarios -> Fila] /\ cuenta[u] \in Fila
      /\ BienFormado(op[h])
  BY Quien DEF TypeOK
<1>2. \A v \in Usuarios : cuenta[v].estado \in {"activo", "inactivo", "bloqueado"}
  BY <1>1 DEF Fila
<1>3. Asientos(h, {}) = {} /\ \A t : Asientos(h, {t}) = {[tipo |-> t, usuario |-> u, por |-> h]}
  BY DEF Asientos
<1>e. ASSUME auditoria' = (auditoria \cup {[tipo |-> "LOGIN", usuario |-> u, por |-> h]})
                            \cup {[tipo |-> "CUENTA_DESBLOQUEADA", usuario |-> u, por |-> h]}
      PROVE  auditoria' = auditoria \cup Asientos(h, {"LOGIN", "CUENTA_DESBLOQUEADA"})
  BY <1>e DEF Asientos
<1>4. Activa(cuenta[u]).estado = "activo" /\ \A x : [Activa(cuenta[u]) EXCEPT !.google = x].estado = "activo"
  BY <1>1 DEF Activa, Fila
<1>5. \A x : [cuenta[u] EXCEPT !.google = x].estado = cuenta[u].estado
             /\ [cuenta[u] EXCEPT !.clave = x].estado = cuenta[u].estado
             /\ [cuenta[u] EXCEPT !.estado = x].estado = x
             /\ [cuenta[u] EXCEPT !.estado = "bloqueado", !.hasta = x].estado = "bloqueado"
  BY <1>1 DEF Fila
<1>6. ASSUME UNCHANGED auditoria, \A v \in Usuarios : cuenta'[v].estado = cuenta[v].estado
      PROVE  \E T : Asienta(h, T)
  <2>1. Asienta(h, {})
    BY <1>1, <1>3, <1>6 DEF Asienta
  <2>2. QED
    BY <2>1
<1>7. CASE ConfirmarLogin(h) \/ ConfirmarGoogle(h)
  <2>1. CASE cuenta[u].estado = "bloqueado" /\ cuenta[u].hasta = "pasado"
    <3>1. Asienta(h, {"LOGIN", "CUENTA_DESBLOQUEADA"})
      <4>0. /\ auditoria' = (auditoria \cup {[tipo |-> "LOGIN", usuario |-> u, por |-> h]})
                               \cup {[tipo |-> "CUENTA_DESBLOQUEADA", usuario |-> u, por |-> h]}
            /\ pc[h] \in Previos
        BY <1>7, <2>1 DEF ConfirmarLogin, ConfirmarGoogle, SanarYAuditar, En, Previos
      <4>1. auditoria' = auditoria \cup Asientos(h, {"LOGIN", "CUENTA_DESBLOQUEADA"})
        BY <1>e, <4>0
      <4>2. cuenta' = [cuenta EXCEPT ![u] = Activa(@)]
        BY <1>7, <2>1 DEF ConfirmarLogin, ConfirmarGoogle, SanarYAuditar
      <4>3. QED
        BY <1>1, <1>4, <2>1, <4>0, <4>1, <4>2 DEF Asienta
    <3>2. QED
      BY <3>1
  <2>2. CASE ~(cuenta[u].estado = "bloqueado" /\ cuenta[u].hasta = "pasado")
    <3>1. Asienta(h, {"LOGIN"})
      <4>1. auditoria' = auditoria \cup Asientos(h, {"LOGIN"}) /\ pc[h] \in Previos /\ cuenta' = cuenta
        BY <1>3, <1>7, <2>2 DEF ConfirmarLogin, ConfirmarGoogle, SanarYAuditar, En, Previos
      <4>2. QED
        BY <1>1, <4>1 DEF Asienta
    <3>2. QED
      BY <3>1
  <2>3. QED
    BY <2>1, <2>2
<1>8. CASE BloquearSiUmbralAlcanzado(h)
  <2>1. CASE cuenta[u].estado = "activo"
    <3>1. auditoria' = auditoria \cup Asientos(h, {"CUENTA_BLOQUEADA"}) /\ pc[h] \in Previos
      BY <1>3, <1>8, <2>1 DEF BloquearSiUmbralAlcanzado, Auditar, Previos
    <3>2. cuenta' = [cuenta EXCEPT ![u] = [@ EXCEPT !.estado = "bloqueado", !.hasta = "futuro"]]
      BY <1>8, <2>1 DEF BloquearSiUmbralAlcanzado
    <3>3. Asienta(h, {"CUENTA_BLOQUEADA"})
      BY <1>1, <1>5, <2>1, <3>1, <3>2 DEF Asienta
    <3>4. QED
      BY <3>3
  <2>2. CASE cuenta[u].estado # "activo"
    BY <1>6, <1>8, <2>2 DEF BloquearSiUmbralAlcanzado
  <2>3. QED
    BY <2>1, <2>2
<1>9. CASE DesbloquearManual(h)
  <2>1. CASE cuenta[u].estado = "bloqueado"
    <3>1. auditoria' = auditoria \cup Asientos(h, {"CUENTA_DESBLOQUEADA"}) /\ pc[h] \in Previos
      BY <1>3, <1>9, <2>1 DEF DesbloquearManual, Auditar, En, Previos
    <3>2. cuenta' = [cuenta EXCEPT ![u] = Activa(@)]
      BY <1>9, <2>1 DEF DesbloquearManual
    <3>3. Asienta(h, {"CUENTA_DESBLOQUEADA"})
      BY <1>1, <1>4, <2>1, <3>1, <3>2 DEF Asienta
    <3>4. QED
      BY <3>3
  <2>2. CASE cuenta[u].estado # "bloqueado"
    BY <1>6, <1>9, <2>2 DEF DesbloquearManual
  <2>3. QED
    BY <2>1, <2>2
<1>10. CASE Vincular(h)
  <2>1. CASE OtroConSub(h)
    BY <1>6, <1>10, <2>1 DEF Vincular
  <2>2. CASE ~OtroConSub(h) /\ cuenta[u].estado = "bloqueado" /\ cuenta[u].hasta = "pasado"
    <3>0. /\ auditoria' = (auditoria \cup {[tipo |-> "LOGIN", usuario |-> u, por |-> h]})
                             \cup {[tipo |-> "CUENTA_DESBLOQUEADA", usuario |-> u, por |-> h]}
          /\ pc[h] \in Previos
      BY <1>10, <2>2 DEF Vincular, En, Previos
    <3>1. auditoria' = auditoria \cup Asientos(h, {"LOGIN", "CUENTA_DESBLOQUEADA"})
      BY <1>e, <3>0
    <3>2. cuenta' = [cuenta EXCEPT ![u] = [Activa(cuenta[u]) EXCEPT !.google = op[h].dato]]
      BY <1>10, <2>2 DEF Vincular
    <3>3. Asienta(h, {"LOGIN", "CUENTA_DESBLOQUEADA"})
      BY <1>1, <1>4, <2>2, <3>0, <3>1, <3>2 DEF Asienta
    <3>4. QED
      BY <3>3
  <2>3. CASE ~OtroConSub(h) /\ ~(cuenta[u].estado = "bloqueado" /\ cuenta[u].hasta = "pasado")
    <3>1. auditoria' = auditoria \cup Asientos(h, {"LOGIN"}) /\ pc[h] \in Previos
      BY <1>3, <1>10, <2>3 DEF Vincular, En, Previos
    <3>2. cuenta' = [cuenta EXCEPT ![u] = [cuenta[u] EXCEPT !.google = op[h].dato]]
      BY <1>10, <2>3 DEF Vincular
    <3>3. Asienta(h, {"LOGIN"})
      BY <1>1, <1>5, <3>1, <3>2 DEF Asienta
    <3>4. QED
      BY <3>3
  <2>4. QED
    BY <2>1, <2>2, <2>3
<1>11. CASE CambiarEstado(h)
  <2> DEFINE t == IF op[h].dato = "inactivo" THEN "USUARIO_DESACTIVADO" ELSE "USUARIO_REACTIVADO"
  <2>1. op[h].dato \in {"activo", "inactivo"}
    BY <1>1, <1>11 DEF CambiarEstado, En, BienFormado
  <2>2. CASE cuenta[u].estado # "bloqueado"
    <3>1. auditoria' = auditoria \cup Asientos(h, {t}) /\ pc[h] \in Previos
      BY <1>3, <1>11, <2>2 DEF CambiarEstado, Auditar, En, Previos
    <3>2. cuenta' = [cuenta EXCEPT ![u].estado = op[h].dato]
      BY <1>11, <2>2 DEF CambiarEstado
    <3>3. cuenta'[u].estado = op[h].dato /\ \A v \in Usuarios \ {u} : cuenta'[v].estado = cuenta[v].estado
      BY <1>1, <1>5, <3>2
    <3>4. Asienta(h, {t})
      BY <1>1, <2>1, <2>2, <3>1, <3>3 DEF Asienta
    <3>5. QED
      BY <3>4
  <2>3. CASE cuenta[u].estado = "bloqueado"
    BY <1>6, <1>11, <2>3 DEF CambiarEstado
  <2>4. QED
    BY <2>2, <2>3
<1>12. CASE GuardarClave(h)
  <2>1. PICK t \in {"RECUPERACION_COMPLETADA", "RECUPERACION_SIN_ACUSE"} : auditoria' = auditoria \cup Asientos(h, {t})
    BY <1>3, <1>12 DEF GuardarClave, Auditar
  <2>2. cuenta' = [cuenta EXCEPT ![u].clave = op[h].clave] /\ pc[h] \in Previos
    BY <1>12 DEF GuardarClave, Previos
  <2>3. \A v \in Usuarios : cuenta'[v].estado = cuenta[v].estado
    BY <1>1, <1>5, <2>2
  <2>4. Asienta(h, {t})
    BY <1>1, <2>1, <2>2, <2>3 DEF Asienta
  <2>5. QED
    BY <2>4
<1>13. QED
  <2>1. CASE LeerLogin(h) \/ RegistrarFallo(h) \/ ResetearIntentos(h) \/ LeerGoogle(h) \/ ComprobarSub(h) \/ CrearSesion(h)
               \/ RevocarLeer(h) \/ RevocarBorrar(h) \/ RevocarOlvidar(h) \/ Logout(h)
               \/ RevocarBuscar(h) \/ Revocar(h) \/ RevocarQuitar(h)
               \/ LeerEstado(h)
    BY <1>6, <2>1 DEF LeerLogin, RegistrarFallo, ResetearIntentos, LeerGoogle, ComprobarSub, CrearSesion, RevocarLeer,
         RevocarBorrar, RevocarOlvidar, Logout, RevocarBuscar, Revocar, RevocarQuitar, LeerEstado
  <2>2. CASE Solicitar(h) \/ EmitirToken(h) \/ ConsumirToken(h) \/ FallarClave(h) \/ Compensar(h) \/ Fallar(h)
    BY <1>6, <2>2 DEF Solicitar, EmitirToken, ConsumirToken, FallarClave, Compensar, Fallar
  <2>3. QED
    BY <1>7, <1>8, <1>9, <1>10, <1>11, <1>12, <2>1, <2>2, Zenon DEF Sigue, Manejador
-----------------------------------------------------------------------------
(* Locks and the audit *)

\* How the events of an account grow: those that a transaction writes are new.
LEMMA EventosPaso ==
  ASSUME TypeOK, ConCuerpo, SinEventos, NEW h \in Peticiones, NEW T, Asienta(h, T), NEW t, NEW u
  PROVE  /\ IsFiniteSet(Eventos(t, u)) /\ Cardinality(Eventos(t, u)) \in Nat
         /\ t \in T /\ u = U(h) => /\ Eventos(t, u)' # Eventos(t, u)
                                   /\ Cardinality(Eventos(t, u)') = Cardinality(Eventos(t, u)) + 1
         /\ ~(t \in T /\ u = U(h)) => Eventos(t, u)' = Eventos(t, u)
<1> DEFINE e == [tipo |-> t, usuario |-> u, por |-> h]
<1>1. IsFiniteSet(Eventos(t, u))
  BY FS_Subset DEF SinEventos, Eventos
<1>2. Cardinality(Eventos(t, u)) \in Nat
  BY <1>1, FS_CardinalityType
<1>3. ASSUME t \in T, u = U(h)
      PROVE  Eventos(t, u)' = Eventos(t, u) \cup {e} /\ e \notin Eventos(t, u)
  <2>1. e \notin auditoria
    BY <1>3 DEF Asienta, SinEventos
  <2>2. Eventos(t, u)' = Eventos(t, u) \cup {e}
    BY <1>3 DEF Asienta, Asientos, Eventos
  <2>3. QED
    BY <2>1, <2>2 DEF Eventos
<1>4. ~(t \in T /\ u = U(h)) => Eventos(t, u)' = Eventos(t, u)
  BY DEF Asienta, Asientos, Eventos
<1>5. e \notin Eventos(t, u) => Cardinality(Eventos(t, u) \cup {e}) = Cardinality(Eventos(t, u)) + 1
  BY <1>1, FS_AddElement
<1>6. QED
  BY <1>1, <1>2, <1>3, <1>4, <1>5

\* What a step does to the state of the accounts and to the audit: nothing, or what Asienta says.
LEMMA EstadosPaso ==
  ASSUME TypeOK, ConCuerpo, Next
  PROVE  \/ /\ UNCHANGED auditoria
            /\ \A u \in Usuarios : cuenta'[u].estado = cuenta[u].estado
         \/ \E h \in Peticiones : \E T : U(h) \in Usuarios /\ Asienta(h, T)
<1>1. CASE Tiempo /\ UNCHANGED <<pc, op, auditoria>>
  BY <1>1, TipoTiempo
<1>2. ASSUME NEW h \in Peticiones, Recibir(h)
      PROVE  UNCHANGED <<cuenta, auditoria>>
  BY <1>2, Recibida
<1>3. ASSUME NEW h \in Peticiones, Sigue(h), pc[h] # "libre"
      PROVE  U(h) \in Usuarios /\ \E T : Asienta(h, T)
  BY <1>3, Quien, Historia
<1>4. QED
  BY <1>1, <1>2, <1>3, UnoSolo

\* Locks and unlocks stay in step with the state of the account.
LEMMA BloqueoPaso ==
  ASSUME TypeOK, ConCuerpo, Ruta, SinEventos, BloqueoAuditado, Next
  PROVE  BloqueoAuditado'
<1> DEFINE B(u) == Eventos("CUENTA_BLOQUEADA", u)
           D(u) == Eventos("CUENTA_DESBLOQUEADA", u)
           Cuadra(u) == Cardinality(B(u)) = Cardinality(D(u)) + (IF cuenta[u].estado = "bloqueado" THEN 1 ELSE 0)
<1>1. TypeOK'
  BY TipoCuentas
<1>2. CASE UNCHANGED auditoria /\ \A u \in Usuarios : cuenta'[u].estado = cuenta[u].estado
  BY <1>1, <1>2 DEF BloqueoAuditado, Eventos
<1>3. ASSUME NEW h \in Peticiones, NEW T, U(h) \in Usuarios, Asienta(h, T), NEW u \in Usuarios
      PROVE  Cardinality(B(u)') = Cardinality(D(u)') + (IF cuenta'[u].estado = "bloqueado" THEN 1 ELSE 0)
  <2>1. Cardinality(B(u)) \in Nat /\ Cardinality(D(u)) \in Nat /\ Cuadra(u)
    BY <1>3, EventosPaso DEF BloqueoAuditado
  <2>2. Cardinality(B(u)') = Cardinality(B(u)) + (IF "CUENTA_BLOQUEADA" \in T /\ u = U(h) THEN 1 ELSE 0)
    BY <1>3, <2>1, EventosPaso
  <2>3. Cardinality(D(u)') = Cardinality(D(u)) + (IF "CUENTA_DESBLOQUEADA" \in T /\ u = U(h) THEN 1 ELSE 0)
    BY <1>3, <2>1, EventosPaso
  <2> HIDE DEF B, D
  <2>4. QED
    BY <1>3, <2>1, <2>2, <2>3 DEF Asienta
<1>4. QED
  BY <1>1, <1>2, <1>3, EstadosPaso DEF BloqueoAuditado

\* An account leaves 'inactivo' in the transaction that audits its reactivation.
LEMMA ReactivaPaso ==
  ASSUME TypeOK, ConCuerpo, SinEventos, Next, NEW u \in Usuarios,
         cuenta[u].estado = "inactivo", cuenta'[u].estado # "inactivo"
  PROVE  Eventos("USUARIO_REACTIVADO", u) # Eventos("USUARIO_REACTIVADO", u)'
<1>0. PICK h \in Peticiones : \E T : U(h) \in Usuarios /\ Asienta(h, T)
  BY EstadosPaso
<1>1. PICK T : U(h) \in Usuarios /\ Asienta(h, T)
  BY <1>0
<1>2. u = U(h) /\ "USUARIO_REACTIVADO" \in T
  BY <1>1 DEF Asienta
<1>3. QED
  BY <1>1, <1>2, EventosPaso
-----------------------------------------------------------------------------
(* Sessions and links *)

\* The login event is committed before the session it announces.
LEMMA SesionPaso ==
  ASSUME TypeOK, ConCuerpo, Ruta, SinEventos, LoginAntes, Next
  PROVE  LoginAntes'
<1>1. \A q \in Peticiones : pc[q] # "libre" => LoginDe(q)' = LoginDe(q) /\ pc'[q] # "libre"
  BY MismoDueno DEF LoginDe
<1>2. \A s \in sesiones : pc'[s] # "libre" /\ LoginDe(s)' \in auditoria
  BY <1>1 DEF LoginAntes, TypeOK
<1>3. CASE UNCHANGED <<pc, op, auditoria>> /\ Tiempo
  BY <1>2, <1>3, TipoTiempo DEF LoginAntes, LoginDe
<1>4. ASSUME NEW h \in Peticiones, Recibir(h) PROVE LoginAntes'
  <2>1. \A q \in Peticiones : pc'[q] # pc[q] => pc'[q] = "recibida"
    BY <1>4 DEF Recibir, Ir, TypeOK
  <2>2. UNCHANGED <<auditoria, sesiones>>
    BY <1>4 DEF Recibir, redis
  <2>3. QED
    BY <1>1, <1>2, <2>1, <2>2 DEF LoginAntes
<1>5. ASSUME NEW h \in Peticiones, Sigue(h), pc[h] # "libre", op' = op, pc' = [pc EXCEPT ![h] = pc'[h]]
      PROVE  LoginAntes'
  <2>1. auditoria \subseteq auditoria'
    BY <1>5, Auditoria DEF Audita
  <2>2. \A q \in Peticiones \ {h} : pc'[q] = pc[q]
    BY <1>5 DEF TypeOK
  <2>3. op[h].tipo # "confirmar" => U(h) = op[h].usuario
    BY DEF U
  <2>4. ASSUME pc'[h] \in {"reinicio", "sesion"} PROVE LoginDe(h) \in auditoria'
    <3>1. CASE ConfirmarLogin(h) \/ ConfirmarGoogle(h)
      BY <2>3, <3>1 DEF ConfirmarLogin, ConfirmarGoogle, SanarYAuditar, En, LoginDe
    <3>2. CASE Vincular(h)
      BY <2>3, <2>4, <3>2 DEF Vincular, En, LoginDe, Ir, TypeOK
    <3>3. CASE ResetearIntentos(h)
      BY <2>1, <3>3 DEF ResetearIntentos, LoginAntes
    <3>4. ASSUME LeerLogin(h) \/ RegistrarFallo(h) \/ BloquearSiUmbralAlcanzado(h) \/ LeerGoogle(h) \/ ComprobarSub(h)
                   \/ CrearSesion(h) \/ RevocarLeer(h) \/ RevocarBorrar(h) \/ RevocarOlvidar(h)
                   \/ Logout(h) \/ RevocarBuscar(h) \/ Revocar(h) \/ RevocarQuitar(h)
                   \/ DesbloquearManual(h) \/ LeerEstado(h) \/ CambiarEstado(h)
          PROVE  FALSE
      BY <2>4, <3>4
      DEF LeerLogin, RegistrarFallo, BloquearSiUmbralAlcanzado, LeerGoogle, ComprobarSub, CrearSesion, RevocarLeer,
          RevocarBorrar, RevocarOlvidar, Logout, RevocarBuscar, Revocar, RevocarQuitar,
          DesbloquearManual, LeerEstado, CambiarEstado, Ir, TypeOK
    <3>5. ASSUME Solicitar(h) \/ EmitirToken(h) \/ ConsumirToken(h) \/ GuardarClave(h)
                   \/ FallarClave(h) \/ Compensar(h) \/ Fallar(h)
          PROVE  FALSE
      BY <2>4, <3>5
      DEF Solicitar, EmitirToken, ConsumirToken, GuardarClave, FallarClave, Compensar, Fallar, Ir, TypeOK
    <3>6. QED
      BY <1>5, <3>1, <3>2, <3>3, <3>4, <3>5, Zenon DEF Sigue, Manejador
  <2>5. sesiones' \subseteq sesiones \/ (pc[h] = "sesion" /\ sesiones' = sesiones \cup {h})
    <3>1. CASE CrearSesion(h) \/ RevocarBorrar(h) \/ Revocar(h)
      BY <3>1 DEF CrearSesion, RevocarBorrar, Revocar
    <3>2. CASE LeerLogin(h) \/ RegistrarFallo(h) \/ BloquearSiUmbralAlcanzado(h) \/ ConfirmarLogin(h)
                 \/ ResetearIntentos(h) \/ LeerGoogle(h) \/ ComprobarSub(h) \/ ConfirmarGoogle(h) \/ Vincular(h)
                 \/ RevocarLeer(h) \/ RevocarOlvidar(h) \/ Logout(h) \/ RevocarBuscar(h) \/ RevocarQuitar(h)
      BY <3>2 DEF LeerLogin, RegistrarFallo, BloquearSiUmbralAlcanzado, ConfirmarLogin, ResetearIntentos,
                  LeerGoogle, ComprobarSub, ConfirmarGoogle, Vincular, RevocarLeer, RevocarOlvidar, Logout,
                  RevocarBuscar, RevocarQuitar, redis
    <3>3. CASE DesbloquearManual(h) \/ LeerEstado(h) \/ CambiarEstado(h) \/ Solicitar(h) \/ EmitirToken(h)
                 \/ ConsumirToken(h) \/ GuardarClave(h) \/ FallarClave(h) \/ Compensar(h) \/ Fallar(h)
      BY <3>3 DEF DesbloquearManual, LeerEstado, CambiarEstado, Solicitar, EmitirToken, ConsumirToken,
                  GuardarClave, FallarClave, Compensar, Fallar, redis
    <3>4. QED
      BY <1>5, <3>1, <3>2, <3>3, Zenon DEF Sigue, Manejador
  <2>6. pc[h] = "sesion" => LoginDe(h) \in auditoria
    BY DEF LoginAntes
  <2>7. \A q \in Peticiones : LoginDe(q)' = LoginDe(q)
    BY <1>5 DEF LoginDe
  <2>8. \A s \in sesiones' : pc'[s] # "libre" /\ LoginDe(s)' \in auditoria'
    BY <1>1, <1>2, <1>5, <2>1, <2>5, <2>6, <2>7
  <2>9. \A q \in Peticiones : pc'[q] \in {"reinicio", "sesion"} => LoginDe(q)' \in auditoria'
    BY <2>1, <2>2, <2>4, <2>7 DEF LoginAntes
  <2>10. QED
    BY <2>8, <2>9 DEF LoginAntes
<1>6. QED
  BY <1>3, <1>4, <1>5, UnoSolo

\* Only a link changes the google_id of an account, to one that no other account has.
LEMMA VinculoPaso ==
  ASSUME TypeOK, ConCuerpo, VinculoUnico, Next
  PROVE  VinculoUnico'
<1>1. CASE \A u \in Usuarios : cuenta'[u].google = cuenta[u].google
  BY <1>1 DEF VinculoUnico
<1>2. ASSUME NEW h \in Peticiones, Vincular(h), pc[h] # "libre", ~OtroConSub(h)
      PROVE  VinculoUnico'
  <2> DEFINE u == U(h)
  <2>1. u \in Usuarios /\ cuenta[u] \in Fila /\ cuenta \in [Usuarios -> Fila]
    BY <1>2, Quien DEF TypeOK
  <2>2. PICK fila \in Fila : cuenta' = [cuenta EXCEPT ![u] = [fila EXCEPT !.google = op[h].dato]]
    <3>1. Activa(cuenta[u]) \in Fila
      BY <2>1 DEF Activa, Fila
    <3>2. QED
      BY <1>2, <2>1, <3>1 DEF Vincular
  <2>3. [fila EXCEPT !.google = op[h].dato].google = op[h].dato
    BY DEF Fila
  <2>4. cuenta'[u].google = op[h].dato /\ \A v \in Usuarios \ {u} : cuenta'[v] = cuenta[v]
    BY <2>1, <2>2, <2>3
  <2>5. \A v \in Usuarios \ {u} : cuenta[v].google # op[h].dato
    BY <1>2 DEF OtroConSub
  <2>6. QED
    BY <2>1, <2>4, <2>5 DEF VinculoUnico
<1>3. ASSUME NEW h \in Peticiones, Sigue(h), pc[h] # "libre", ~(Vincular(h) /\ ~OtroConSub(h)), NEW v \in Usuarios
      PROVE  cuenta'[v].google = cuenta[v].google
  <2> DEFINE u == U(h)
  <2>1. u \in Usuarios /\ cuenta[u] \in Fila /\ cuenta \in [Usuarios -> Fila]
    BY <1>3, Quien DEF TypeOK
  <2>2. \A x : /\ [cuenta[u] EXCEPT !.estado = x].google = cuenta[u].google
               /\ [cuenta[u] EXCEPT !.clave = x].google = cuenta[u].google
               /\ [cuenta[u] EXCEPT !.estado = "bloqueado", !.hasta = x].google = cuenta[u].google
               /\ Activa(cuenta[u]).google = cuenta[u].google
    BY <2>1 DEF Fila, Activa
  <2>3. CASE ConfirmarLogin(h) \/ ConfirmarGoogle(h) \/ DesbloquearManual(h)
    BY <2>1, <2>2, <2>3 DEF ConfirmarLogin, ConfirmarGoogle, SanarYAuditar, DesbloquearManual
  <2>4. CASE BloquearSiUmbralAlcanzado(h) \/ CambiarEstado(h) \/ GuardarClave(h)
    <3>1. CASE BloquearSiUmbralAlcanzado(h)
      <4>1. \/ UNCHANGED cuenta
            \/ cuenta' = [cuenta EXCEPT ![u] = [cuenta[u] EXCEPT !.estado = "bloqueado", !.hasta = "futuro"]]
        BY <3>1 DEF BloquearSiUmbralAlcanzado
      <4>2. [cuenta[u] EXCEPT !.estado = "bloqueado", !.hasta = "futuro"].google = cuenta[u].google
        BY <2>2
      <4>3. CASE UNCHANGED cuenta
        BY <4>3
      <4>4. CASE cuenta' = [cuenta EXCEPT ![u] = [cuenta[u] EXCEPT !.estado = "bloqueado", !.hasta = "futuro"]]
        <5> DEFINE f == [cuenta[u] EXCEPT !.estado = "bloqueado", !.hasta = "futuro"]
        <5>1. f.google = cuenta[u].google
          BY <4>2
        <5> HIDE DEF f
        <5>2. cuenta'[v] = IF v = u THEN f ELSE cuenta[v]
          BY <1>3, <2>1, <4>4 DEF f
        <5>3. QED
          BY <5>1, <5>2
      <4>5. QED
        BY <4>1, <4>3, <4>4
    <3>2. CASE CambiarEstado(h)
      <4>1. UNCHANGED cuenta \/ cuenta' = [cuenta EXCEPT ![u] = [cuenta[u] EXCEPT !.estado = op[h].dato]]
        BY <3>2 DEF CambiarEstado
      <4>2. CASE UNCHANGED cuenta
        BY <4>2
      <4>3. CASE cuenta' = [cuenta EXCEPT ![u] = [cuenta[u] EXCEPT !.estado = op[h].dato]]
        <5> DEFINE f == [cuenta[u] EXCEPT !.estado = op[h].dato]
        <5>1. f.google = cuenta[u].google
          BY <2>2
        <5> HIDE DEF f
        <5>2. cuenta'[v] = IF v = u THEN f ELSE cuenta[v]
          BY <1>3, <2>1, <4>3 DEF f
        <5>3. QED
          BY <5>1, <5>2
      <4>4. QED
        BY <4>1, <4>2, <4>3
    <3>3. CASE GuardarClave(h)
      <4>1. cuenta' = [cuenta EXCEPT ![u] = [cuenta[u] EXCEPT !.clave = op[h].clave]]
        BY <3>3 DEF GuardarClave
      <4>2. QED
        BY <2>1, <2>2, <4>1
    <3>4. QED
      BY <2>4, <3>1, <3>2, <3>3
  <2>5. CASE LeerLogin(h) \/ RegistrarFallo(h) \/ ResetearIntentos(h) \/ LeerGoogle(h) \/ ComprobarSub(h) \/ CrearSesion(h)
               \/ RevocarLeer(h) \/ RevocarBorrar(h) \/ RevocarOlvidar(h) \/ Logout(h)
               \/ RevocarBuscar(h) \/ Revocar(h) \/ RevocarQuitar(h)
               \/ LeerEstado(h) \/ Vincular(h)
    BY <1>3, <2>5 DEF LeerLogin, RegistrarFallo, ResetearIntentos, LeerGoogle, ComprobarSub, CrearSesion, RevocarLeer,
         RevocarBorrar, RevocarOlvidar, Logout, RevocarBuscar, Revocar, RevocarQuitar, LeerEstado, Vincular
  <2>6. CASE Solicitar(h) \/ EmitirToken(h) \/ ConsumirToken(h) \/ FallarClave(h) \/ Compensar(h) \/ Fallar(h)
    BY <2>6 DEF Solicitar, EmitirToken, ConsumirToken, FallarClave, Compensar, Fallar
  <2>7. QED
    BY <1>3, <2>3, <2>4, <2>5, <2>6, Zenon DEF Sigue, Manejador
<1>4. QED
  BY <1>1, <1>2, <1>3, UnoSolo, TipoTiempo, Recibida
-----------------------------------------------------------------------------
(* Recovery tokens *)

\* Only the transaction of confirmar() writes that a password was recovered.
LEMMA Recuperaciones ==
  ASSUME TypeOK, ConCuerpo, NEW h \in Peticiones, Sigue(h), pc[h] # "libre", NEW e \in auditoria', e \notin auditoria,
         e.tipo \in {"RECUPERACION_COMPLETADA", "RECUPERACION_SIN_ACUSE"}
  PROVE  GuardarClave(h) /\ e.por = h /\ e.usuario = U(h)
<1>1. CASE GuardarClave(h)
  BY <1>1 DEF GuardarClave, Auditar
<1>2. ASSUME ConfirmarLogin(h) \/ ConfirmarGoogle(h) \/ Vincular(h) PROVE FALSE
  BY <1>2 DEF ConfirmarLogin, ConfirmarGoogle, Vincular, SanarYAuditar
<1>3. ASSUME BloquearSiUmbralAlcanzado(h) \/ DesbloquearManual(h) \/ CambiarEstado(h) PROVE FALSE
  BY <1>3 DEF BloquearSiUmbralAlcanzado, DesbloquearManual, CambiarEstado, Auditar
<1>4. ASSUME LeerLogin(h) \/ RegistrarFallo(h) \/ ResetearIntentos(h) \/ LeerGoogle(h) \/ ComprobarSub(h) \/ CrearSesion(h)
               \/ RevocarLeer(h) \/ RevocarBorrar(h) \/ RevocarOlvidar(h) \/ Logout(h)
               \/ RevocarBuscar(h) \/ Revocar(h) \/ RevocarQuitar(h)
               \/ LeerEstado(h)
      PROVE  FALSE
  BY <1>4 DEF LeerLogin, RegistrarFallo, ResetearIntentos, LeerGoogle, ComprobarSub, CrearSesion, RevocarLeer,
       RevocarBorrar, RevocarOlvidar, Logout, RevocarBuscar, Revocar, RevocarQuitar, LeerEstado
<1>5. ASSUME Solicitar(h) \/ EmitirToken(h) \/ ConsumirToken(h) \/ FallarClave(h) \/ Compensar(h) \/ Fallar(h)
      PROVE  FALSE
  BY <1>5 DEF Solicitar, EmitirToken, ConsumirToken, FallarClave, Compensar, Fallar
<1>6. QED
  BY <1>1, <1>2, <1>3, <1>4, <1>5, Zenon DEF Sigue, Manejador

\* A step that neither makes a token nor takes one nor spends one leaves every token where it is.
LEMMA TokenQuieto ==
  ASSUME TypeOK, UnLugar, tokens' \subseteq tokens,
         \A q \in Peticiones : pc[q] = "fin" => pc'[q] = "fin",
         \A q \in Peticiones : pc'[q] \in {"clave", "compensar"} => pc[q] \in {"clave", "compensar"} /\ op'[q] = op[q],
         \A e \in auditoria' : e.tipo = "RECUPERACION_COMPLETADA" => e \in auditoria,
         \A e \in auditoria : op'[e.por] = op[e.por]
  PROVE  UnLugar'
<1>1. \A q, t \in Peticiones : EnManos(q, t)' => EnManos(q, t)
  BY DEF EnManos
<1>2. \A e \in auditoria' : \A t \in Peticiones : Gasto(e, t)' => e \in auditoria /\ Gasto(e, t)
  BY DEF Gasto
<1>3. QED
  BY <1>1, <1>2, Zenon DEF UnLugar

\* What the steps that are not about a token do to the tokens.
LEMMA SinToken ==
  ASSUME TypeOK, NEW h \in Peticiones, Sigue(h), ~EmitirToken(h), ~ConsumirToken(h), ~Compensar(h)
  PROVE  tokens' = tokens /\ (pc'[h] \in {"clave", "compensar"} => pc[h] \in {"clave", "compensar"})
<1> USE DEF TypeOK
<1>1. CASE LeerLogin(h) \/ RegistrarFallo(h) \/ BloquearSiUmbralAlcanzado(h)
             \/ ConfirmarLogin(h) \/ ResetearIntentos(h)
  BY <1>1 DEF LeerLogin, RegistrarFallo, BloquearSiUmbralAlcanzado, ConfirmarLogin, ResetearIntentos, Ir, redis
<1>2. CASE LeerGoogle(h) \/ ComprobarSub(h) \/ ConfirmarGoogle(h) \/ Vincular(h)
  BY <1>2 DEF LeerGoogle, ComprobarSub, ConfirmarGoogle, Vincular, Ir, redis
<1>3. CASE CrearSesion(h) \/ RevocarLeer(h) \/ RevocarBorrar(h) \/ RevocarOlvidar(h)
             \/ Logout(h)
               \/ RevocarBuscar(h) \/ Revocar(h) \/ RevocarQuitar(h)
  BY <1>3 DEF CrearSesion, RevocarLeer, RevocarBorrar, RevocarOlvidar, Logout, RevocarBuscar, Revocar, RevocarQuitar, Ir, redis
<1>4. CASE DesbloquearManual(h) \/ LeerEstado(h) \/ CambiarEstado(h) \/ Solicitar(h)
             \/ GuardarClave(h) \/ FallarClave(h) \/ Fallar(h)
  BY <1>4 DEF DesbloquearManual, LeerEstado, CambiarEstado, Solicitar, GuardarClave, FallarClave, Fallar, Ir, redis
<1>5. QED
  BY <1>1, <1>2, <1>3, <1>4, Zenon DEF Sigue, Manejador

\* A token stays in one place, and spends once.
LEMMA TokenPaso ==
  ASSUME TypeOK, ConCuerpo, Ruta, SinEventos, UnLugar, Next
  PROVE  UnLugar'
<1>1. \A e \in auditoria : e.por \in Peticiones /\ pc[e.por] # "libre"
  BY DEF SinEventos, Previos, TypeOK, Evento
<1>2. CASE UNCHANGED <<pc, op, auditoria>> /\ Tiempo
  BY <1>2, TipoTiempo, TokenQuieto
<1>3. ASSUME NEW h \in Peticiones, Recibir(h) PROVE UnLugar'
  <2>1. /\ \A q \in Peticiones \ {h} : pc'[q] = pc[q] /\ op'[q] = op[q]
        /\ pc[h] = "libre" /\ pc'[h] = "recibida" /\ UNCHANGED <<auditoria, tokens>>
    BY <1>3, Recibida DEF Recibir, Ir, TypeOK, redis
  <2>2. QED
    BY <1>1, <2>1, TokenQuieto
<1>4. ASSUME NEW h \in Peticiones, Sigue(h), pc[h] \notin {"libre", "fin"}, op' = op, pc' = [pc EXCEPT ![h] = pc'[h]]
      PROVE  UnLugar'
  <2>1. \A q \in Peticiones \ {h} : pc'[q] = pc[q]
    BY <1>4 DEF TypeOK
  <2>2. op[h].tipo = "confirmar" => op[h].dato \in Peticiones
    BY <1>4, Quien
  <2>3. \A e \in auditoria' : e.tipo = "RECUPERACION_COMPLETADA" /\ e \notin auditoria => GuardarClave(h) /\ e.por = h
    BY <1>4, Recuperaciones
  <2>m. \A q, t \in Peticiones : /\ q # h => (EnManos(q, t)' <=> EnManos(q, t))
                                 /\ EnManos(h, t)' <=> pc'[h] \in {"clave", "compensar"} /\ op[h].dato = t
    BY <1>4, <2>1 DEF EnManos
  <2>g. \A e : \A t \in Peticiones : Gasto(e, t)' <=> Gasto(e, t)
    BY <1>4 DEF Gasto
  <2>4. CASE EmitirToken(h)
    <3>1. /\ tokens' = tokens \cup {h} /\ pc[h] = "token" /\ pc'[h] = "fin" /\ auditoria' = auditoria
      BY <2>4 DEF EmitirToken, Ir, TypeOK
    <3>2. \A q, t \in Peticiones : EnManos(q, t)' => EnManos(q, t)
      BY <2>m, <3>1
    <3>3. \A q \in Peticiones : ~EnManos(q, h)
      BY <3>1 DEF UnLugar
    <3>4. \A e \in auditoria : ~Gasto(e, h)
      BY <3>1 DEF UnLugar
    <3>5. QED
      BY <2>1, <2>g, <3>1, <3>2, <3>3, <3>4 DEF UnLugar
  <2>5. CASE ConsumirToken(h)
    <3> DEFINE k == op[h].dato
    <3>1. /\ tokens' = tokens \ {k} /\ auditoria' = auditoria /\ k \in Peticiones
          /\ pc[h] = "recibida" /\ pc'[h] = IF k \in tokens THEN "clave" ELSE "fin"
      BY <2>2, <2>5 DEF ConsumirToken, En, Ir, TypeOK
    <3>2. CASE k \in tokens
      <4>1. /\ pc[k] = "fin" /\ pc'[k] = "fin"
            /\ \A q \in Peticiones : ~EnManos(q, k)
            /\ \A e \in auditoria : ~Gasto(e, k)
        BY <2>1, <3>1, <3>2 DEF UnLugar
      <4>2. \A q, t \in Peticiones : EnManos(q, t)' => EnManos(q, t) \/ (q = h /\ t = k)
        BY <2>m
      <4>3. \A t \in Peticiones : pc[t] = "fin" => pc'[t] = "fin"
        BY <2>1, <3>1
      <4>4. QED
        BY <2>g, <3>1, <4>1, <4>2, <4>3 DEF UnLugar
    <3>3. CASE k \notin tokens
      BY <1>1, <1>4, <2>1, <3>1, <3>3, TokenQuieto
    <3>4. QED
      BY <3>2, <3>3
  <2>6. CASE Compensar(h)
    <3> DEFINE k == op[h].dato
    <3>1. /\ tokens' = tokens \cup {k} /\ auditoria' = auditoria /\ k \in Peticiones
          /\ EnManos(h, k) /\ pc'[h] = "fin"
      BY <2>2, <2>6 DEF Compensar, Ruta, Ir, TypeOK, EnManos
    <3>2. /\ pc[k] = "fin" /\ pc'[k] = "fin"
          /\ \A q \in Peticiones : EnManos(q, k) => q = h
          /\ \A e \in auditoria : ~Gasto(e, k)
      BY <2>1, <3>1 DEF UnLugar
    <3>3. \A q, t \in Peticiones : EnManos(q, t)' => q # h /\ EnManos(q, t)
      BY <2>m, <3>1
    <3>4. \A t \in Peticiones : pc[t] = "fin" => pc'[t] = "fin"
      BY <2>1, <3>1
    <3>5. QED
      BY <2>g, <3>1, <3>2, <3>3, <3>4 DEF UnLugar
  <2>7. CASE GuardarClave(h)
    <3> DEFINE k == op[h].dato
    <3>1. /\ tokens' = tokens /\ k \in Peticiones /\ EnManos(h, k) /\ pc[h] = "clave"
      BY <2>2, <2>7 DEF GuardarClave, Ruta, EnManos, redis
    <3>2. CASE pc'[h] = "compensar" /\ auditoria' = auditoria \cup {[tipo |-> "RECUPERACION_SIN_ACUSE", usuario |-> U(h), por |-> h]}
      BY <1>1, <1>4, <2>1, <3>1, <3>2, TokenQuieto
    <3>3. CASE pc'[h] = "revocar" /\ auditoria' = auditoria \cup {[tipo |-> "RECUPERACION_COMPLETADA", usuario |-> U(h), por |-> h]}
      <4> DEFINE d == [tipo |-> "RECUPERACION_COMPLETADA", usuario |-> U(h), por |-> h]
      <4>1. /\ pc[k] = "fin" /\ pc'[k] = "fin" /\ k \notin tokens
            /\ \A q \in Peticiones : EnManos(q, k) => q = h
            /\ \A e \in auditoria : ~Gasto(e, k)
        BY <1>4, <2>1, <3>1 DEF UnLugar
      <4>2. \A q, t \in Peticiones : EnManos(q, t)' => q # h /\ EnManos(q, t)
        BY <2>m, <3>3
      <4>3. \A t \in Peticiones : Gasto(d, t) => t = k
        BY DEF Gasto
      <4>4. \A t \in Peticiones : pc[t] = "fin" => pc'[t] = "fin"
        BY <1>4, <2>1
      <4>5. auditoria' = auditoria \cup {d}
        BY <3>3
      <4> HIDE DEF d, k
      <4>6. QED
        BY <2>g, <3>1, <4>1, <4>2, <4>3, <4>4, <4>5 DEF UnLugar
    <3>4. QED
      BY <2>7, <3>2, <3>3 DEF GuardarClave, Auditar, Ir, TypeOK
  <2>8. CASE ~EmitirToken(h) /\ ~ConsumirToken(h) /\ ~Compensar(h) /\ ~GuardarClave(h)
    <3>1. tokens' = tokens /\ (pc'[h] \in {"clave", "compensar"} => pc[h] \in {"clave", "compensar"})
      BY <1>4, <2>8, SinToken
    <3>2. QED
      BY <1>1, <1>4, <2>1, <2>3, <2>8, <3>1, TokenQuieto
  <2>9. QED
    BY <2>4, <2>5, <2>6, <2>7, <2>8
<1>5. QED
  BY <1>2, <1>3, <1>4, UnoSolo

\* A recovered password is one of the account that asked for the token.
LEMMA UsosPaso ==
  ASSUME TypeOK, ConCuerpo, Ruta, SinEventos, UsosPropios, Next
  PROVE  UsosPropios'
<1> DEFINE Uso(e) == e.tipo \in {"RECUPERACION_COMPLETADA", "RECUPERACION_SIN_ACUSE"}
<1>1. ASSUME NEW e \in auditoria, Uso(e)
      PROVE  op'[e.por].tipo = "confirmar" /\ e.usuario = Dueno(op[e.por].dato)' /\ op'[e.por] = op[e.por]
  <2>1. e.por \in Peticiones /\ pc[e.por] # "libre" /\ op[e.por].tipo = "confirmar"
    BY <1>1 DEF SinEventos, Previos, TypeOK, Evento, UsosPropios
  <2>2. op[e.por].dato \in Peticiones /\ pc[op[e.por].dato] # "libre"
    BY <2>1, Quien
  <2>3. op'[e.por] = op[e.por] /\ op'[op[e.por].dato] = op[op[e.por].dato]
    BY <2>1, <2>2, MismoDueno
  <2>4. QED
    BY <1>1, <2>1, <2>3 DEF UsosPropios, Dueno
<1>2. CASE UNCHANGED auditoria
  BY <1>1, <1>2 DEF UsosPropios, Dueno
<1>3. ASSUME NEW h \in Peticiones, Sigue(h), pc[h] # "libre", op' = op PROVE UsosPropios'
  <2>1. ASSUME NEW e \in auditoria', e \notin auditoria, Uso(e)
        PROVE  op[e.por].tipo = "confirmar" /\ e.usuario = Dueno(op[e.por].dato)
    <3>1. GuardarClave(h) /\ e.por = h /\ e.usuario = U(h)
      BY <1>3, <2>1, Recuperaciones
    <3>2. op[h].tipo = "confirmar"
      BY <3>1 DEF GuardarClave, Ruta
    <3>3. QED
      BY <3>1, <3>2 DEF U
  <2>2. QED
    BY <1>1, <1>3, <2>1 DEF UsosPropios, Dueno
<1>4. ASSUME NEW h \in Peticiones, Recibir(h) PROVE UNCHANGED auditoria
  BY <1>4, Recibida
<1>5. QED
  BY <1>2, <1>3, <1>4, UnoSolo
-----------------------------------------------------------------------------
(* The theorems *)

\* The system starts with nothing audited and nobody at work.
LEMMA InicioCuentas == Init => InvCuentas
<1> SUFFICES ASSUME Init PROVE InvCuentas
  OBVIOUS
<1>1. TypeOK
  BY ConstantesCuentas DEF Init, TypeOK, Pasos
<1>2. ConCuerpo /\ Ruta /\ LoginAntes /\ UnLugar /\ UsosPropios
  BY DEF Init, ConCuerpo, Ruta, LoginAntes, UnLugar, EnManos, UsosPropios
<1>3. SinEventos
  BY FS_EmptySet DEF Init, SinEventos
<1>4. VinculoUnico
  BY ConstantesCuentas DEF Init, VinculoUnico
<1>5. \A t, u : Eventos(t, u) = {}
  BY DEF Init, Eventos
<1>6. \A t, u : Cardinality(Eventos(t, u)) = 0
  BY <1>5, FS_EmptySet, Zenon
<1>7. BloqueoAuditado
  BY <1>1, <1>6, ConstantesCuentas DEF Init, BloqueoAuditado
<1>8. QED
  BY <1>1, <1>2, <1>3, <1>4, <1>7 DEF InvCuentas

\* The account of locks, sessions, links and tokens holds in every state.
THEOREM InvarianteCuentas == Spec => []InvCuentas
<1>1. Init => InvCuentas
  BY InicioCuentas
<1>2. InvCuentas /\ [Next]_vars => InvCuentas'
  <2>1. ASSUME InvCuentas, Next PROVE InvCuentas'
    BY <2>1, TipoCuentas, CuerpoPaso, RutaPaso, SesionPaso, VinculoPaso, BloqueoPaso, TokenPaso, UsosPaso
    DEF InvCuentas
  <2>2. ASSUME InvCuentas, UNCHANGED vars PROVE InvCuentas'
    BY <2>2 DEF InvCuentas, TypeOK, ConCuerpo, Ruta, SinEventos, LoginAntes, LoginDe, VinculoUnico,
       BloqueoAuditado, Eventos, UnLugar, EnManos, Gasto, UsosPropios, Dueno, vars, redis
  <2>3. QED
    BY <2>1, <2>2
<1>3. QED
  BY <1>1, <1>2, PTL DEF Spec

\* However many failed logins reach the threshold at once, and whoever unlocks: an account has
\* one CUENTA_BLOQUEADA more than CUENTA_DESBLOQUEADA while it is locked, and as many when not.
THEOREM BloqueosAuditados == Spec => []BloqueoAuditado
<1>1. InvCuentas => BloqueoAuditado
  BY DEF InvCuentas
<1>2. QED
  BY <1>1, InvarianteCuentas, PTL

\* A live session has the LOGIN of its account committed, wherever its handler was interrupted.
THEOREM SesionesConRastro == Spec => []SesionConRastro
<1>1. InvCuentas => SesionConRastro
  BY DEF InvCuentas, LoginAntes, LoginDe, SesionConRastro, Dueno
<1>2. QED
  BY <1>1, InvarianteCuentas, PTL

\* A Google identity opens one account at most.
THEOREM VinculosUnicos == Spec => []VinculoUnico
<1>1. InvCuentas => VinculoUnico
  BY DEF InvCuentas
<1>2. QED
  BY <1>1, InvarianteCuentas, PTL

\* A recovery token changes one password, once, of the account it was issued to, unless the
\* acknowledgement of its commit was lost.
THEOREM TokensDeUnSoloUso == Spec => []TokenDeUnSoloUso
<1>1. ASSUME InvCuentas, NEW t \in Peticiones
      PROVE  LET enCurso == {h \in Peticiones : pc[h] = "clave" /\ op[h].dato = t}
                 seguros == {e \in Usos(t) : e.tipo = "RECUPERACION_COMPLETADA"}
             IN Cardinality(enCurso) + Cardinality(seguros) + Cardinality({t} \cap tokens) <= 1
  <2> DEFINE enCurso == {h \in Peticiones : pc[h] = "clave" /\ op[h].dato = t}
             seguros == {e \in Usos(t) : e.tipo = "RECUPERACION_COMPLETADA"}
             vivo == {t} \cap tokens
  <2>1. /\ \A h \in enCurso : EnManos(h, t)
        /\ \A e \in seguros : e \in auditoria /\ Gasto(e, t)
    BY DEF EnManos, Gasto, Usos
  <2>2. /\ \A h, q \in enCurso : h = q
        /\ \A e, d \in seguros : e = d
    BY <1>1, <2>1 DEF InvCuentas, UnLugar
  <2>3. \/ enCurso = {} /\ seguros = {}
        \/ enCurso = {} /\ vivo = {}
        \/ seguros = {} /\ vivo = {}
    BY <1>1, <2>1 DEF InvCuentas, UnLugar
  <2> HIDE DEF enCurso, seguros
  <2>4. Cardinality({}) = 0 /\ \A x : Cardinality({x}) = 1
    BY FS_EmptySet, FS_Singleton
  <2>5. enCurso = {} \/ \E h : enCurso = {h}
    BY <2>2
  <2>6. seguros = {} \/ \E e : seguros = {e}
    BY <2>2
  <2>7. vivo = {} \/ vivo = {t}
    OBVIOUS
  <2> HIDE DEF vivo
  <2>8. /\ Cardinality(enCurso) = 0 \/ (Cardinality(enCurso) = 1 /\ enCurso # {})
        /\ Cardinality(seguros) = 0 \/ (Cardinality(seguros) = 1 /\ seguros # {})
        /\ Cardinality(vivo) = 0 \/ (Cardinality(vivo) = 1 /\ vivo # {})
    BY <2>4, <2>5, <2>6, <2>7, Zenon
  <2>9. /\ enCurso = {} => Cardinality(enCurso) = 0
        /\ seguros = {} => Cardinality(seguros) = 0
        /\ vivo = {} => Cardinality(vivo) = 0
    BY <2>4, Zenon
  <2>10. Cardinality(enCurso) + Cardinality(seguros) + Cardinality(vivo) <= 1
    BY <2>3, <2>8, <2>9
  <2>11. QED
    BY <2>10 DEF enCurso, seguros, vivo
<1>2. ASSUME InvCuentas, NEW t \in Peticiones, NEW e \in Usos(t)
      PROVE  e.usuario = Dueno(t)
  BY <1>2 DEF InvCuentas, UsosPropios, Usos
<1>3. InvCuentas => TokenDeUnSoloUso
  BY <1>1, <1>2 DEF TokenDeUnSoloUso
<1>4. QED
  BY <1>3, InvarianteCuentas, PTL

\* Brute force is no way back: a deactivated account leaves that state in a reactivation only.
THEOREM SoloCambiarEstadoReactiva == Spec => SoloSeReactiva
<1> DEFINE Paso == \A u \in Usuarios :
       cuenta[u].estado = "inactivo" /\ cuenta'[u].estado # "inactivo" =>
         Eventos("USUARIO_REACTIVADO", u) # Eventos("USUARIO_REACTIVADO", u)'
<1>1. InvCuentas /\ [Next]_vars => [Paso]_vars
  BY ReactivaPaso DEF InvCuentas
<1>2. QED
  BY <1>1, InvarianteCuentas, PTL DEF Spec, SoloSeReactiva
=============================================================================
