SPECIFICATION Spec
CONSTANT Given <- Small
INVARIANTS BuildAgrees RawIffOneFetch TicksTight
