------------------------------- MODULE Padron -------------------------------
(***************************************************************************)
(* The padron of a segmentation: what PadronService.calcular() counts for  *)
(* the asistente, what ProcesosService.crear() freezes as ProcesoAula and  *)
(* what abrir() materialises as DerechoVoto.  The comment of the last one  *)
(* calls its queries the exact mirror of the first one's.                  *)
(*                                                                         *)
(* A school is a record [matriculas, activos, con_apoderado] of the active *)
(* year; a segmentation is [publico, alcance, ids], ids the nivel, the     *)
(* grados or the aulas that the alcance calls for.                         *)
(***************************************************************************)
EXTENDS Naturals, FiniteSets, FiniteSetsExt

CONSTANTS
  Alumnos, Aulas, Grados, Niveles,
  GradoDe,        \* Aula.grado_id
  NivelDe,        \* Grado.nivel_id
  Tipos, Publicos,
  AulasDelAnio,   \* the aulas of the active AnioEscolar
  Nulo

ASSUME ConstantesPadron ==
  /\ GradoDe \in [Aulas -> Grados] /\ NivelDe \in [Grados -> Niveles]
  /\ AulasDelAnio \subseteq Aulas
  /\ Tipos \subseteq {"representante_aula", "municipio", "consulta", "padres"}
  /\ Publicos \subseteq {"estudiantes", "padres", "comunidad"}
  /\ Nulo \notin Aulas \cup Grados \cup Niveles

Alcances == {"institucion", "nivel", "grados", "aulas"}

Idos(alcance) ==
  CASE alcance = "nivel" -> Niveles [] alcance = "grados" -> Grados [] alcance = "aulas" -> Aulas [] OTHER -> {}

\* validarSegmentacion(), and segmentacionCompleta() of the client.
Completa(s) == s.publico # Nulo /\ s.alcance # Nulo /\ (s.alcance # "institucion" => s.ids # {})

\* resolverAulas(): the refusals, and the aulas of the active year.  An empty tipo is the preview's.
Rechazada(s, tipo) ==
  \/ s.alcance = "institucion" /\ tipo = "representante_aula"
  \/ s.alcance = "aulas" /\ ~ s.ids \subseteq AulasDelAnio

Resueltas(s) ==
  {a \in AulasDelAnio : CASE s.alcance = "institucion" -> TRUE
                          [] s.alcance = "nivel"  -> NivelDe[GradoDe[a]] \in s.ids
                          [] s.alcance = "grados" -> GradoDe[a] \in s.ids
                          [] s.alcance = "aulas"  -> a \in s.ids}

\* baseWhere: the matriculas of active students in those aulas.
Elegibles(e, as) == {m \in e.matriculas : m.aula \in as /\ m.alumno \in e.activos}
ConApoderado(e, as) == {m \in Elegibles(e, as) : m.alumno \in e.con_apoderado}

\* Mutant: one right by account.
DerechosPorCuenta(publico, estudiantes, padres) == IF publico = "padres" THEN padres ELSE estudiantes

\* derechosPorAula()
DerechosPorAula(publico, estudiantes, padres) ==
  CASE publico = "estudiantes" -> estudiantes [] publico = "padres" -> padres [] OTHER -> estudiantes + padres

\* calcular(): the rights aula by aula, the aulas with nobody, and the accounts behind them.
Calcular(e, s) ==
  LET as == Resueltas(s)
      E(a) == Cardinality(Elegibles(e, {a}))
      P(a) == Cardinality(ConApoderado(e, {a}))
      con == {a \in as : E(a) > 0}
      cuentas == Cardinality({m.alumno : m \in Elegibles(e, as)})
      estudiantes == MapThenSumSet(E, con)
  IN [derechos  |-> MapThenSumSet(LAMBDA a : DerechosPorAula(s.publico, E(a), P(a)), con),
      excluidas |-> as \ con,
      cuentas   |-> cuentas,
      aviso     |-> estudiantes # cuentas]

\* crear(): the aulas with an active matricula are the ProcesoAula rows; with none, 409.
AulasConMatricula(e, as) == {a \in as : Elegibles(e, {a}) # {}}

\* Mutant: the parents of inactive students too.
MaterializarInactivos(e, publico, as) ==
  {[alumno |-> m.alumno, aula |-> m.aula, calidad |-> "estudiante"] :
     m \in {x \in e.matriculas : x.aula \in as /\ publico # "padres"}}
  \cup
  {[alumno |-> m.alumno, aula |-> m.aula, calidad |-> "padre"] :
     m \in {x \in e.matriculas : x.aula \in as /\ x.alumno \in e.con_apoderado /\ publico # "estudiantes"}}

\* materializarDerechosVoto(): a row for each matricula and calidad, unique by alumno and calidad.
Materializar(e, publico, as) ==
  {[alumno |-> m.alumno, aula |-> m.aula, calidad |-> "estudiante"] :
     m \in IF publico \in {"estudiantes", "comunidad"} THEN Elegibles(e, as) ELSE {}}
  \cup
  {[alumno |-> m.alumno, aula |-> m.aula, calidad |-> "padre"] :
     m \in IF publico \in {"padres", "comunidad"} THEN ConApoderado(e, as) ELSE {}}

SinRepetir(filas) == \A f, g \in filas : f.alumno = g.alumno /\ f.calidad = g.calidad => f = g

\* The opening of a proceso of segmentation s created and opened with the school as it is.
Padron(e, s) == Materializar(e, s.publico, AulasConMatricula(e, Resueltas(s)))
=============================================================================
