-------------------------- MODULE MCRelationships --------------------------
(***************************************************************************)
(*   entity user {}     entity org { relation member @user @org#member }   *)
(*   entity doc { relation parent @org   relation viewer @user }           *)
(* and a second schema in which doc has                                    *)
(*   relation parent @doc @org#member                                      *)
(***************************************************************************)
EXTENDS Relationships

Ref(type, relation) == [type |-> type, relation |-> relation]

Schema(parents) ==
    [type \in {"user", "org", "doc"} |->
        CASE type = "user" -> [n \in {} |-> {}]
          [] type = "org" -> [n \in {"member"} |-> {Ref("user", ""), Ref("org", "member")}]
          [] type = "doc" -> [n \in {"parent", "viewer"} |->
                                 IF n = "parent" THEN parents ELSE {Ref("user", "")}]]

First == Schema({Ref("org", "")})
Second == Schema({Ref("doc", ""), Ref("org", "member")})

MCTenants == {1, 2}
MCSchemas == [t \in MCTenants |-> IF t = 1 THEN <<First, Second>> ELSE <<First>>]

T(type, id, relation, stype, sid, srel) ==
    [type |-> type, id |-> id, relation |-> relation, stype |-> stype, sid |-> sid, srel |-> srel]

Member(id) == T("org", "1", "member", "user", id, "")
ParentOrg == T("doc", "1", "parent", "org", "1", "")
ParentSelf == T("doc", "1", "parent", "doc", "1", "")
ParentMembers == T("doc", "1", "parent", "org", "1", "member")
Samples == {ParentOrg, ParentSelf, ParentMembers,
            T("doc", "1", "parent", "org", "1", "..."),
            T("doc", "1", "parent", "user", "1", ""),
            T("doc", "1", "viewer", "user", "1", "member"),
            T("doc", "1", "gone", "user", "1", ""),
            T("zone", "1", "member", "user", "1", ""),
            T("org", "1", "member", "org", "1", "member"),
            T("org", "1", "member", "org", "2", "")}

Filter(type, ids, relation, stype, sids, srel) ==
    [type |-> type, ids |-> ids, relation |-> relation, stype |-> stype, sids |-> sids, srel |-> srel]
All == Filter("", {}, "", "", {}, "")
Members == Filter("org", {}, "member", "", {}, "")
One(id) == Filter("org", {"1"}, "", "user", {id}, "")
UserSets == Filter("", {}, "", "", {}, "member")

Idle == [kind |-> "none", tenant |-> 1, tuples |-> <<>>, version |-> 0, filter |-> All,
         size |-> 1, after |-> "", id |-> 0]
Write(tenant, tuples, version) ==
    [Idle EXCEPT !.kind = "write", !.tenant = tenant, !.tuples = tuples, !.version = version]
Delete(tenant, filter) == [Idle EXCEPT !.kind = "delete", !.tenant = tenant, !.filter = filter]
Read(tenant, filter, size, after) ==
    [Idle EXCEPT !.kind = "read", !.tenant = tenant, !.filter = filter, !.size = size, !.after = after]
Create(id) == [Idle EXCEPT !.kind = "create", !.id = id]
DeleteTenantCall(id) == [Idle EXCEPT !.kind = "deleteTenant", !.id = id]
List(size) == [Idle EXCEPT !.kind = "list", !.size = size]

Plan(c1, c2, c3, c4) == [c \in {"c1", "c2", "c3", "c4"} |->
    CASE c = "c1" -> c1 [] c = "c2" -> c2 [] c = "c3" -> c3 [] c = "c4" -> c4]

\* Every sample alone and after a tuple that is allowed, while the schema changes.
ValidationPlans ==
    {Plan(Write(1, tuples, v), Idle, Idle, Idle) :
        tuples \in {<<s>> : s \in Samples} \cup {<<Member("1"), s>> : s \in Samples}
                   \cup {<<s, Member("1")>> : s \in Samples},
        v \in 0..3}

ThreeMembers == Write(1, <<Member("1"), Member("2"), Member("3")>>, 0)

\* Pages while tuples are written, written again and deleted.
PagePlans ==
    {Plan(ThreeMembers, Write(t, <<Member("2"), ParentOrg>>, 0), Delete(2, f), Read(1, g, size, after)) :
        t \in MCTenants, f \in {Members, One("1"), UserSets}, g \in {Members, All}, size \in {1, 2},
        after \in {"", "c1"}}
    \cup {Plan(ThreeMembers, Delete(1, One("2")), Write(1, <<Member("2")>>, 1), Read(1, Members, 1, after)) :
            after \in {"", "c1", "c3"}}

\* Tenants come and go while they are listed.
TenantPlans ==
    {Plan(Create(a), Create(b), x, y) :
        a \in {1, 3}, b \in {1, 2}, x \in {DeleteTenantCall(1), Create(3)},
        y \in {List(1), List(2), DeleteTenantCall(1)}}

MCPlans == ValidationPlans \cup PagePlans \cup TenantPlans
=============================================================================
