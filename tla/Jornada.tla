------------------------------- MODULE Jornada ------------------------------
(***************************************************************************)
(* The election day: the handlers of POST /votos (Votos) and those of the  *)
(* committee (Procesos) over the same tables.  Each module describes the   *)
(* other one by the effect of its commits; here both are the real ones,    *)
(* and the runs check that each description covers what the other does.    *)
(***************************************************************************)
EXTENDS Integers, FiniteSets, Sequences

CONSTANTS Peticiones, Comite, Operaciones, Usuarios, Derechos, DuenoDe, AulaDe, Aulas,
          Claves, Listas, Contables, Blanco, Entradas, Nulo, MaxReloj

VARIABLES
  reloj, proceso, derechos, catalogo, votos,             \* shared
  auditoria, correos, pc, peticion, inicio, fila, respuesta,   \* of emitir()
  version, actas, bitacora, avisos, candado, paso, pedido, foto, contestado  \* of the committee

deVotos    == <<votos, auditoria, correos, pc, peticion, inicio, fila, respuesta>>
deProcesos == <<proceso, derechos, version, actas, bitacora, avisos, candado, paso,
                pedido, foto, contestado>>
vars       == <<reloj, catalogo, deVotos, deProcesos>>

\* The columns of the row that the SELECT of emitir() brings back.
ParaVotar == [apertura_real   |-> proceso.apertura_real,
              cierre_previsto |-> proceso.cierre_previsto,
              aulas           |-> proceso.aulas]

\* The columns of Voto that calcularEscrutinio() groups by.
Boletas == {[derecho |-> v.derecho, eleccion |-> v.eleccion] : v \in votos}

V == INSTANCE Votos WITH proceso <- ParaVotar
P == INSTANCE Procesos WITH votos <- Boletas

ASSUME ConstantesJornada == V!ConstantesVotos /\ P!ConstantesProcesos /\ P!NuloAparte
-----------------------------------------------------------------------------
Emitir(r) == UNCHANGED deProcesos /\ V!Emitir(r)
Atender(p) == UNCHANGED deVotos /\ P!Atender(p)
Depurar(l) == UNCHANGED deProcesos /\ (V!CambiarEstado(l) \/ V!Eliminar(l))
Tic == UNCHANGED deProcesos /\ V!Tic
EmitirActas == UNCHANGED deVotos /\ P!EmitirActas

Init ==
  /\ votos = {} /\ auditoria = {} /\ correos = {}
  /\ P!Init
  /\ pc = [r \in Peticiones |-> "nueva"]
  /\ peticion = [r \in Peticiones |-> Nulo]
  /\ inicio = [r \in Peticiones |-> 0]
  /\ fila = [r \in Peticiones |-> Nulo]
  /\ respuesta = [r \in Peticiones |-> Nulo]

Next ==
  \/ \E r \in Peticiones : Emitir(r)
  \/ \E p \in Comite : Atender(p)
  \/ \E l \in Listas : Depurar(l)
  \/ Tic
  \/ EmitirActas

Spec == Init /\ [][Next]_vars
-----------------------------------------------------------------------------
(* Properties *)

\* Every vote was cast inside the frozen window and by an aula of the frozen scope,
\* unless an editar() that had read borrador committed after abrir().
VotoEnPlazo ==
  P!EdicionTardia \/ \A v \in votos :
    /\ v.inicio >= proceso.apertura_real
    /\ v.inicio < proceso.cierre_previsto
    /\ AulaDe[v.derecho] \in proceso.aulas

\* The worlds that Votos and Procesos assume around their handlers are the real ones.
MundoDeVotos    == V!Spec
MundoDeProcesos == P!Spec

\* vote-casting: a vote on a closed proceso MUST be rejected, so no transaction that
\* begins after cierre_real inserts one.
SinVotosTrasCierre ==
  proceso.cierre_real # Nulo => \A v \in votos : v.inicio <= proceso.cierre_real
=============================================================================
