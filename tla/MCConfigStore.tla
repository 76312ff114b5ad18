--------------------------- MODULE MCConfigStore ---------------------------
(* ConfigStore for TLC: one connection form, one template to start with, of two optional parts. *)
EXTENDS ConfigStore

CONSTANTS session, custom, ttl, field, p1, p2

MCDefaultTemplates == <<Template(session, [o \in Optional |-> p1])>>
MCUses == {{"connections", "marks"}, {"groups", "history"},
           {"templates"}, {"connections", "settings"}}
=============================================================================
