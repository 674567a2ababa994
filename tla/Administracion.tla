--------------------------- MODULE Administracion ---------------------------
(***************************************************************************)
(* The administration of the school and of the ballot: the handlers of     *)
(* modules Escuela, Importacion and Catalogo over one data base.           *)
(***************************************************************************)
EXTENDS Importacion, Catalogo

\* The rows a schema and its services admit; the system starts with some.
Sana(db) == Integra(db) /\ \A i \in DOMAIN db : EnElArbol(db, db[i]) /\ EnLaBoleta(db, db[i])

ASSUME InicialSana == Sana(Inicial)

vars == <<registro, vistos, varsImportacion>>

Init ==
  /\ InitRegistro
  /\ InitImportacion
  /\ vistos = [h \in Peticiones |-> {}]

\* The reads of any handler but an import.
LeerPeticion(h) ==
  /\ \E b \in {c \in agenda : c.accion # "importar"} :
       /\ Leer(h, b, ~SinCambioEscuela(b) /\ ~SinCambioCatalogo(b), PermiteEscuela(b) \/ PermiteCatalogo(b))
       /\ vistos' = IF b.accion = "activar" THEN [vistos EXCEPT ![h] = AniosActivos] ELSE vistos

Next ==
  \E h \in Peticiones :
    \/ LeerPeticion(h) /\ UNCHANGED varsImportacion
    \/ (Escribir(h) \/ EscribirCatalogo(h)) /\ UNCHANGED <<vistos, varsImportacion>>
    \/ Activar(h) /\ UNCHANGED varsImportacion
    \/ Importar(h)

Spec == Init /\ [][Next]_vars
=============================================================================
