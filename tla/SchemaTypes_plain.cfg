SPECIFICATION Spec
CONSTANTS
    TypeNames = {"A", "B", "C", "D", "Z"}
    Primitives = {"null", "string"}
    Schemas <- PlainSchemas
INVARIANTS
    TypeOK
    FieldsAreInherited
    MeaningIsKept
    DefinedOnce
    AvroAcceptsPlain
CHECK_DEADLOCK FALSE
