-------------------------- MODULE MCAdministracion --------------------------
(* Instance of Administracion: a small school and a small ballot, edited by several requests. *)
EXTENDS Administracion

CONSTANTS h1, h2, h3, a1, a2, a3, n1, g1, s1, s2, x1, e1, p1, v1, v2, l1, l2, l3, c1, o1, i1

Simetria == Permutations(Peticiones)

Anio(n, v)    == [tabla |-> "anio", nombre |-> n, activo |-> v]
Grado(n, v)   == [tabla |-> "grado", nombre |-> n, nivel |-> v]
Seccion(n, g, a) == [tabla |-> "seccion", nombre |-> n, grado |-> g, anio |-> a]
Aula(g, s, a) == [tabla |-> "aula", grado |-> g, seccion |-> s, anio |-> a, turno |-> "manana"]
Usuario(d, r) == [tabla |-> "usuario", dni |-> d, codigo |-> d, correo |-> d, rol |-> r]
Matricula(u, x, a) == [tabla |-> "matricula", usuario |-> u, aula |-> x, anio |-> a]

\* Three years, two of them with the seccion A of the grado 1; an aula with a student.
Filas1 ==
  (a1 :> Anio("2025", TRUE)) @@ (a2 :> Anio("2026", FALSE)) @@ (a3 :> Anio("2024", FALSE))
  @@ (n1 :> [tabla |-> "nivel", nombre |-> "N"]) @@ (g1 :> Grado("1", n1))
  @@ (s1 :> Seccion("A", g1, a1)) @@ (s2 :> Seccion("A", g1, a2))
  @@ (x1 :> Aula(g1, s1, a1))
  @@ (e1 :> Usuario("1", "estudiante")) @@ (p1 :> [tabla |-> "apoderado", usuario |-> e1, nombre |-> "P"])
  @@ (i1 :> [tabla |-> "configuracion", clave |-> "institucional", anio |-> a1, logo |-> Nulo, zona_horaria |-> "Lima"])

\* A proceso with two listas, a candidato and an opcion, and another proceso with a lista.
Estructura(t, p, n) == [tabla |-> t, proceso |-> p, numero |-> n, plan |-> Nulo, estado |-> "activo"]
Candidato(p, l) == [tabla |-> "candidato", proceso |-> p, lista |-> l, estado |-> "activo"]
Opcion(p, e) == [tabla |-> "opcion", proceso |-> p, etiqueta |-> e]
Voto(p, e) == [tabla |-> "voto", proceso |-> p, elegida |-> e]
FilasBoleta ==
  (v1 :> [tabla |-> "proceso", estado |-> "borrador"]) @@ (v2 :> [tabla |-> "proceso", estado |-> "abierto"])
  @@ (l1 :> Estructura("lista", v1, 1)) @@ (l2 :> Estructura("lista", v1, 2)) @@ (l3 :> Estructura("lista", v2, 1))
  @@ (c1 :> Candidato(v1, l1)) @@ (o1 :> Opcion(v1, "si"))

FilasDeInicio == Filas1 @@ FilasBoleta

P(a, i, f) == [accion |-> a, id |-> i, fila |-> f]
Crear(f) == P("crear", Nulo, f)
Eliminar(i) == P("eliminar", i, Nulo)
Actualizar(i, f) == P("actualizar", i, f)

Renglon(d, a) == [dni |-> d, codigo |-> d, correo |-> d, grado |-> "1", seccion |-> "A", turno |-> "manana", anio |-> a]
Archivo(f) == P("importar", Nulo, f)

\* A file of two rows, two of one, and every operation of the school.
PedidosEscuela ==
  {Archivo(<<Renglon("1", "2025"), Renglon("3", "2025")>>), Archivo(<<Renglon("3", "2026")>>),
   Archivo(<<[Renglon("3", "2025") EXCEPT !.correo = "1"]>>),
   Crear(Anio("2026", FALSE)), Crear([tabla |-> "nivel", nombre |-> "M"]),
   Crear(Grado("2", n1)), Crear(Seccion("B", g1, a1)), Crear(Aula(g1, s1, a2)), Crear(Aula(g1, s2, a2)),
   Crear(Usuario("3", "docente")), Crear(Matricula(e1, x1, a1)), Crear([tabla |-> "apoderado", usuario |-> e1, nombre |-> "Q"]),
   Actualizar(a2, [nombre |-> "2025"]), Actualizar(g1, [nombre |-> "2"]), Actualizar(s1, [nombre |-> "B"]),
   Actualizar(x1, [turno |-> "tarde"]), Actualizar(e1, [correo |-> "3"]),
   Actualizar(i1, [zona_horaria |-> "Quito"]), Actualizar(i1, [logo |-> "png"]),
   P("activar", a1, Nulo), P("activar", a2, Nulo), P("activar", a3, Nulo)}
  \cup {Eliminar(i) : i \in {a1, a3, g1, s1, s2, x1, p1}}

\* Every operation of the ballot, votes, and the opening and the deletion of the proceso.
PedidosBoleta ==
  {Crear(Estructura("lista", v1, 3)), Crear(Candidato(v1, l2)), Crear(Candidato(v1, l3)), Crear(Opcion(v1, "no")),
   Crear(Voto(v1, l2)), Crear(Voto(v1, c1)), Crear(Voto(v1, o1)),
   Actualizar(l2, [numero |-> 3]), Actualizar(l1, [plan |-> "pdf"]), Actualizar(o1, [etiqueta |-> "no"]),
   Actualizar(c1, [lista |-> l2]), Actualizar(c1, [lista |-> l3]),
   P("abrir", v1, Nulo), P("eliminar_proceso", v1, Nulo)}
  \cup {Eliminar(i) : i \in {l2, c1, o1}}
  \cup {P("estado", i, [estado |-> e]) : i \in {l2, c1}, e \in {"activo", "baja"}}

AgendasDeInicio == {PedidosEscuela, PedidosBoleta}
=============================================================================
