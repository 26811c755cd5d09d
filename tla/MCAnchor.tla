------------------------------- MODULE MCAnchor -------------------------------
(* Instances of Anchor: invoices, known by id and number and named by the  *)
(* findings' foreign key, and suppliers.                                   *)
EXTENDS Anchor

Id == <<"invoices", "id">>
Nr == <<"invoices", "number">>
Fk == <<"findings", "invoice_id">>
Supplier == <<"suppliers", "id">>

Row(column, primary, fk) == [column |-> column, primary |-> primary, fk |-> fk]
MCDictionary == <<Row(Id, TRUE, None), Row(Nr, FALSE, None), Row(Fk, FALSE, Id), Row(Supplier, TRUE, None)>>
MCDeclared == <<[kind |-> "invoice", columns |-> {Id, Nr}, keys |-> {Id}],
                [kind |-> "supplier", columns |-> {Supplier}, keys |-> {Supplier}]>>

(* Two invoices, 440 numbered A and 441 numbered B; a supplier, 7.         *)
Bind(qualifier, column, value) ==
    [qualifier |-> qualifier, column |-> column, values |-> {<<value>>}, continues |-> FALSE]
Scope(tables, predicates) == [tables |-> tables, predicates |-> predicates]
Item(table, column) == [table |-> table, column |-> column]
RunSql(scopes, items, values) ==
    [tool |-> "run_sql", status |-> "ok", output |-> [scopes |-> scopes, items |-> items, values |-> values]]

OfInvoices(predicates) == <<Scope([i |-> "invoices"], predicates)>>
Both == RunSql(OfInvoices({}), [id |-> Item(None, "id"), nr |-> Item("invoices", "number")],
               [id |-> {<<"440">>}, nr |-> {<<"A">>}])
Listing == RunSql(OfInvoices({}), [id |-> None], [id |-> {<<"440">>, <<"441">>}])
OfFindings(v) == RunSql(<<Scope([f |-> "findings"], {Bind(None, "invoice_id", v)})>>,
                        [c |-> None], [c |-> {<<"3">>}])
OfSupplier == RunSql(<<Scope([s |-> "suppliers"], {})>>, [id |-> Item("suppliers", "id")], [id |-> {<<"7">>}])
Failed == [tool |-> "run_sql", status |-> "error", output |-> None]

MCEvidences ==
    {<<>>, <<Both>>, <<OfFindings("441"), Failed>>, <<Listing>>, <<OfSupplier>>}

MCAbouts == {<<>>, <<[noun |-> "invoice", value |-> "440"], [noun |-> None, value |-> "A"]>>,
             <<[noun |-> "supplier", value |-> "7"]>>}
MCTexts == {[whole |-> {}, part |-> {}], [whole |-> {<<"A">>, <<"7">>}, part |-> {<<"A">>, <<"7">>}],
            [whole |-> {}, part |-> {<<"440">>}]}
===============================================================================
