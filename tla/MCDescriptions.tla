---------------------------- MODULE MCDescriptions ----------------------------
EXTENDS Descriptions, TLC

CONSTANTS water, av, kav, bafu, nature, keyword, term, chief, ch, be, pAv, pWater

Category(i) == <<Ech0166, i>>
mcFiles == <<"de", Skos>>
mcFixture == (Root :> None) @@ (Category("nature") :> Root) @@ (Category("forest") :> Category("nature"))
mcDatasets == (water :> Bod) @@ (av :> "geodienste")
mcContacts == {[source |-> "user-input", ids |-> {}, organization |-> bafu, name |-> None]}
mcPrefixes == {pAv, pWater}
mcLength == (pAv :> 2) @@ (pWater :> 5)
mcStarts == (pAv :> {av}) @@ (pWater :> {water})
mcMappings == [
  dataset |-> {[prefix |-> pAv, target |-> av, update |-> FALSE]},
  contact |-> {[prefix |-> pWater, role |-> "owner", target |-> CHOOSE c \in mcContacts : TRUE,
                update |-> TRUE]}]
mcOptions == {[source |-> Bod, parts |-> <<"keywords", "contacts">>],
              [source |-> "geodienste", parts |-> <<"topics">>]}

none == [i \in {} |-> i]
Says(categories, keywords, topics, contacts, entities) ==
    [categories |-> categories, keywords |-> keywords, topics |-> topics, contacts |-> contacts,
     entities |-> entities]
mcSources == {
  Says((water :> {Category("new")}) @@ (av :> {Category("forest")}),
       water :> {Category("new")},
       {[aggregate |-> kav, part |-> av,
         terms |-> {[key |-> <<"gemet", term>>, translated |-> TRUE],
                    [key |-> <<"gemet", keyword>>, translated |-> FALSE]}]},
       water :> {ContactRecord("owner", chief, {bafu})}, none),
  Says(water :> {Category("forest")}, none, {[aggregate |-> av, part |-> kav, terms |-> {}]},
       water :> {ContactRecord("owner", None, {bafu}), ContactRecord("user", chief, {nature})}, none),
  Says(none, none, {}, none, (ch :> ResponseEntry("federal", NoParent)) @@ (be :> ResponseEntry("canton", ch))),
  Says(none, none, {}, none, be :> ResponseEntry("region", be))}
===============================================================================
